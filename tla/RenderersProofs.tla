--------------------------- MODULE RenderersProofs ---------------------------
(***************************************************************************)
(* What the two renderers draw is whole and current, whatever the senders  *)
(* send and whenever they end, for pictures, queues and connections of any *)
(* size.                                                                   *)
(***************************************************************************)
EXTENDS Renderers, SequenceTheorems, FiniteSetTheorems, TLAPS

-----------------------------------------------------------------------------
(* Who listens, who is connected to whom                                   *)

Serving == {"header", "pixels", "draw", "hangup"}
Idle == {"none", "bind", "ended", "exited"}
GhostStates == {"display", "accept"} \cup Idle \cup Serving
Receiving == {"display", "header", "packet", "decode", "resize", "copy", "put"}
ReceiverStates == {"bind", "deaf", "accept", "ended"} \cup Receiving

InBacklog(s) == \E i \in 1 .. Len(backlog) : backlog[i] = s

ConnTypes == /\ conn \in [Sender -> {"new", "waiting", "open", "over"}]
             /\ backlog \in Seq(Sender)
             /\ ghost \in GhostStates /\ receiver \in ReceiverStates
             /\ engine = (ghost # "none")

\* One program listens, and each has at most one connection.
OneListener ==
    /\ listener = (IF ghost \notin Idle THEN "ghost"
                   ELSE IF receiver \notin {"bind", "deaf", "ended"} THEN "receiver" ELSE "none")
    /\ ghost \notin Idle => receiver \in {"bind", "deaf", "ended"}
OneClient == /\ IF ghost \in Serving THEN \E s \in Sender : client = {s} ELSE client = {}
             /\ IF receiver \in Receiving THEN \E s \in Sender : peer = {s} ELSE peer = {}

Connected ==
    /\ \A s \in Sender : /\ conn[s] = "open" <=> s \in client \cup peer
                         /\ conn[s] = "waiting" <=> InBacklog(s)
    /\ \A i, j \in 1 .. Len(backlog) : backlog[i] = backlog[j] => i = j

ConnInv == ConnTypes /\ OneListener /\ OneClient /\ Connected

-----------------------------------------------------------------------------
(* What the streams hold                                                   *)

Heads == [type : {"ghost"}, from : Sender, frame : Nat, size : 0 .. GhostLimit + 1]
           \cup [type : {"phoenix"}, size : 1 .. PacketLimit + 1, fmt : {"h264", "raw"}]
Unit == Heads \cup [of : Heads, at : Nat]

\* Pieces of what a header announces.
PieceCount(h) == IF h.type = "ghost" THEN h.size ELSE 1

\* q is cut into messages, each a header with its pieces, at the places H: the
\* last of them is the end.
CutsAt(q, H) ==
    /\ 1 \in H /\ Len(q) + 1 \in H
    /\ \A i \in H : i \in 1 .. Len(q) =>
          /\ q[i] \in Heads
          /\ i + PieceCount(q[i]) + 1 \in H
          /\ \A k \in 1 .. PieceCount(q[i]) : q[i + k] = Piece(q[i], k)
Framed(q) == \E H \in SUBSET (1 .. Len(q) + 1) : CutsAt(q, H)

\* The header a program has read of s and whose pieces it reads next.
Taken(s) == IF s \in client /\ ghost = "pixels" THEN <<header>>
            ELSE IF s \in peer /\ receiver = "packet" THEN <<packet>> ELSE <<>>
Text(s) == Taken(s) \o (stream[s] \o tosend[s])

FlowTypes == /\ stream \in [Sender -> Seq(Unit)] /\ tosend \in [Sender -> Seq(Unit)]
             /\ begun \in [Sender -> Nat]
             /\ pixels \in Seq(Unit \cup {Raw})
             /\ \A s \in Sender : Len(stream[s]) <= Room
Quiet == \A s \in Sender : conn[s] # "open" => stream[s] = <<>> /\ tosend[s] = <<>>
Messages == \A s \in Sender : ~(s \in client /\ ghost = "hangup") => Framed(Text(s))
HeaderRead == /\ header = NoHeader \/ (header \in Heads /\ Drawable(header))
              /\ ghost \in {"pixels", "draw"} => header # NoHeader /\ header.size <= Len(pixels)
              /\ ghost = "draw" => \A k \in 1 .. header.size : pixels[k] = Piece(header, k)
              /\ receiver = "packet" => packet \in Heads /\ Acceptable(packet)
FlowInv == FlowTypes /\ Quiet /\ Messages /\ HeaderRead /\ GhostFramesAreWhole

-----------------------------------------------------------------------------
(* The receiver and the X server                                           *)

Showing == {"header", "packet", "decode"}
Request == [type : {"attach", "detach"}, seg : Nat]
             \cup [type : {"resize"}, seg : Nat, size : Nat]
             \cup [type : {"put"}, seg : Nat, picture : Nat]
RowRecord == [picture : Nat, at : Nat]
\* Before the first picture, and after the end.
Fresh == /\ last = 0 /\ seg = 0 /\ sws = 0 /\ held = 0 /\ rgb = NoPicture
         /\ requests = <<>> /\ mapped = {} /\ memory = <<>> /\ screen = Blank /\ failed = FALSE

ScreenTypes ==
    /\ seg \in Nat /\ last \in Nat /\ copied \in Nat /\ sws \in Nat
    /\ rgb \in [picture : Nat, size : Nat]
    /\ requests \in Seq(Request) /\ Len(requests) <= QueueSize
    /\ memory \in Seq(Seq(RowRecord)) /\ Len(memory) = seg
    /\ mapped \subseteq 1 .. seg
    /\ screen.picture \in Nat /\ screen.rows \in Seq(RowRecord)
    /\ receiver \notin {"display", "header"} \cup (ReceiverStates \ Receiving) =>
          packet.size \in Nat \ {0}
    /\ receiver \notin {"header", "packet", "decode", "resize", "copy", "put"} => Fresh

\* The sizes of the window, the segment and the conversion agree.
Sized == /\ receiver = "resize" => sws = rgb.size /\ rgb.size > 0 /\ rgb.picture > 0 /\ copied = 0
         /\ receiver # "resize" => sws = last
         /\ last > 0 => seg > 0 /\ Len(memory[seg]) = last
         /\ receiver \in {"copy", "put"} => rgb.size = last /\ last > 0 /\ rgb.picture > 0
         /\ receiver = "copy" => copied < rgb.size
         /\ receiver = "put" => copied = rgb.size

\* What the rows of a segment can be of.
SegmentRows == \A g \in 1 .. seg : \A k \in 1 .. Len(memory[g]) :
                  memory[g][k].at = k /\ memory[g][k].picture <= rgb.picture
RequestedRows == \A i \in 1 .. Len(requests) : requests[i].type = "put" =>
                    /\ requests[i].picture <= rgb.picture
                    /\ \A k \in 1 .. Len(memory[requests[i].seg]) :
                          memory[requests[i].seg][k].picture >= requests[i].picture
CopiedRows == receiver = "copy" => \A k \in 1 .. copied : memory[seg][k].picture = rgb.picture
WholePicture == receiver = "put" \/ (receiver \in Showing /\ rgb.picture > 0) =>
                   rgb.size = last /\ last > 0 /\ memory[seg] = Rows(rgb.picture, rgb.size)
ShownRows == ~disturbed => \A k \in 1 .. Len(screen.rows) :
                /\ screen.rows[k].at = k
                /\ screen.rows[k].picture >= screen.picture
RowsInPlace == SegmentRows /\ RequestedRows /\ CopiedRows /\ WholePicture /\ ShownRows

\* The requests about a segment: it is attached before it is shown, detached
\* before the next one is attached.
Asks(k, type, g) == requests[k].type = type /\ requests[k].seg = g

OfSegments == \A i \in 1 .. Len(requests) : /\ requests[i].seg \in 1 .. seg
                                            /\ requests[i].type = "detach" => requests[i].seg < seg
InOrder == \A i, j \in 1 .. Len(requests) :
              i < j /\ requests[i].type = "attach" /\ requests[j].type = "attach" =>
                 requests[i].seg < requests[j].seg
OneMapped == \A g, h \in mapped : g = h
DetachedFirst == \A g \in mapped : \A i \in 1 .. Len(requests) : requests[i].type = "attach" =>
                    \E k \in 1 .. i - 1 : Asks(k, "detach", g)
OldDetached == \A g \in mapped : g # seg => \E k \in 1 .. Len(requests) : Asks(k, "detach", g)
NewAttached == seg > 0 => \/ seg \in mapped
                          \/ \E k \in 1 .. Len(requests) : Asks(k, "attach", seg)
AttachedFirst == \A i \in 1 .. Len(requests) : Asks(i, "put", seg) =>
                    seg \in mapped \/ \E k \in 1 .. i - 1 : Asks(k, "attach", seg)
LastShown == receiver \in Showing /\ rgb.picture > 0 =>
                IF requests = <<>> THEN ~disturbed => screen.rows = Rows(rgb.picture, rgb.size)
                ELSE requests[Len(requests)] = [type |-> "put", seg |-> seg, picture |-> rgb.picture]
Queued == /\ OfSegments /\ InOrder /\ OneMapped /\ DetachedFirst /\ OldDetached
          /\ NewAttached /\ AttachedFirst /\ LastShown

ScreenInv == ScreenTypes /\ Sized /\ RowsInPlace /\ Queued

-----------------------------------------------------------------------------
(* The window                                                              *)

Windowed == {"header", "packet", "decode", "resize", "copy", "put"}
WindowTypes == /\ win \in [mapped : BOOLEAN, size : Nat] /\ managed \in BOOLEAN
               /\ todo \in Seq([type : {"map", "resize"}, size : Nat])
               /\ ~managed => todo = <<>>
               /\ receiver \in Windowed /\ ~win.mapped => todo # <<>>
RowsFit == Len(screen.rows) <= win.size
ResizesFit == \A i \in 1 .. Len(requests) : requests[i].type = "resize" =>
                 requests[i].size = Len(memory[requests[i].seg])

\* The size the window has once its manager has done what it was asked.
Destined == IF todo = <<>> THEN win.size ELSE todo[Len(todo)].size
\* When request i of q is taken, the last size asked for is that of segment g,
\* or the window is destined to have it: it is of size d, the segment of size m.
Fitted(q, i, g, d, m) ==
    \/ \E k \in 1 .. i - 1 : /\ q[k].type = "resize" /\ q[k].seg = g
                             /\ \A j \in k + 1 .. i - 1 : q[j].type # "resize"
    \/ d = m /\ \A j \in 1 .. i - 1 : q[j].type # "resize"
PutsFit ==
    /\ \A i \in 1 .. Len(requests) : requests[i].type = "put" =>
          Fitted(requests, i, requests[i].seg, Destined, Len(memory[requests[i].seg]))
    /\ seg > 0 => Fitted(requests, Len(requests) + 1, seg, Destined, Len(memory[seg]))
WindowInv == WindowTypes /\ RowsFit /\ ResizesFit /\ PutsFit

RInv == ConnInv /\ FlowInv /\ ScreenInv /\ WindowInv

-----------------------------------------------------------------------------
(* Connections                                                             *)

LEMMA ConnSame ==
    ASSUME ConnInv, UNCHANGED <<listener, backlog, conn, client, peer, engine>>,
           \/ ghost' = ghost
           \/ ghost \in Serving /\ ghost' \in Serving
           \/ ghost = "display" /\ ghost' = "accept",
           receiver' = receiver \/ (receiver \in Receiving /\ receiver' \in Receiving)
    PROVE  ConnInv'
<1>1. ConnTypes'
  BY DEF ConnInv, ConnTypes, GhostStates, Idle, Serving, ReceiverStates, Receiving
<1>2. OneListener'
  BY DEF ConnInv, OneListener, Idle, Serving, Receiving
<1>3. OneClient'
  BY DEF ConnInv, OneClient, Serving, Receiving
<1>4. Connected'
  BY DEF ConnInv, Connected, InBacklog
<1> QED
  BY <1>1, <1>2, <1>3, <1>4 DEF ConnInv

\* The first of those who wait is accepted, by the program that listens.
LEMMA AcceptConn ==
    ASSUME ConnInv, NEW s \in Sender, Accepts(s), UNCHANGED <<listener, engine>>,
           \/ /\ ghost = "accept" /\ ghost' = "header" /\ client' = {s}
              /\ UNCHANGED <<peer, receiver>>
           \/ /\ receiver = "accept" /\ receiver' = "display" /\ peer' = {s}
              /\ UNCHANGED <<client, ghost>>
    PROVE  ConnInv'
<1>1. /\ backlog \in Seq(Sender) /\ backlog # <<>> /\ s = Head(backlog) /\ backlog' = Tail(backlog)
      /\ conn' = [conn EXCEPT ![s] = "open"]
      /\ conn \in [Sender -> {"new", "waiting", "open", "over"}]
  BY DEF ConnInv, ConnTypes, Accepts
<1>2. /\ backlog' \in Seq(Sender) /\ Len(backlog') = Len(backlog) - 1 /\ Len(backlog) \in Nat \ {0}
      /\ \A i \in 1 .. Len(backlog) - 1 : backlog'[i] = backlog[i + 1]
      /\ s = backlog[1]
  BY <1>1, HeadTailProperties, EmptySeq
<1>3. ConnTypes'
  BY <1>1, <1>2 DEF ConnInv, ConnTypes, GhostStates, Idle, Serving, ReceiverStates, Receiving
<1>4. OneListener'
  BY DEF ConnInv, OneListener, Idle
<1>5. client = client' \ {s} /\ peer = peer' \ {s} /\ s \in client' \cup peer' /\ OneClient'
  <2>1. CASE ghost = "accept" /\ ghost' = "header" /\ client' = {s} /\ UNCHANGED <<peer, receiver>>
    <3>1. client = {} /\ peer = {} /\ receiver \notin Receiving
      BY <2>1 DEF ConnInv, OneClient, OneListener, Idle, Serving, Receiving
    <3> QED
      BY <2>1, <3>1 DEF OneClient, Serving
  <2>2. CASE receiver = "accept" /\ receiver' = "display" /\ peer' = {s} /\ UNCHANGED <<client, ghost>>
    <3>1. client = {} /\ peer = {} /\ ghost \notin Serving
      BY <2>2 DEF ConnInv, OneClient, OneListener, Idle, Serving, Receiving
    <3> QED
      BY <2>2, <3>1 DEF OneClient, Receiving
  <2> QED
    BY <2>1, <2>2
<1>6. \A i, j \in 1 .. Len(backlog') : backlog'[i] = backlog'[j] => i = j
  <2> SUFFICES ASSUME NEW i \in 1 .. Len(backlog'), NEW j \in 1 .. Len(backlog'),
                      backlog'[i] = backlog'[j]
               PROVE  i = j
    OBVIOUS
  <2>1. i + 1 \in 1 .. Len(backlog) /\ j + 1 \in 1 .. Len(backlog)
    BY <1>2
  <2>2. backlog[i + 1] = backlog[j + 1]
    BY <1>2
  <2>3. i + 1 = j + 1
    BY <2>1, <2>2 DEF ConnInv, Connected
  <2> QED
    BY <2>3
<1>7. ASSUME NEW x \in Sender
      PROVE  InBacklog(x)' <=> InBacklog(x) /\ x # s
  <2>1. ASSUME NEW i \in 1 .. Len(backlog'), backlog'[i] = x
        PROVE  InBacklog(x) /\ x # s
    <3>1. i + 1 \in 1 .. Len(backlog) /\ 1 \in 1 .. Len(backlog) /\ backlog[i + 1] = x /\ i + 1 # 1
      BY <1>2, <2>1
    <3>2. x # s
      BY <1>2, <3>1 DEF ConnInv, Connected
    <3> QED
      BY <3>1, <3>2 DEF InBacklog
  <2>2. ASSUME NEW i \in 1 .. Len(backlog), backlog[i] = x, x # s
        PROVE  \E j \in 1 .. Len(backlog') : backlog'[j] = x
    <3>1. i # 1
      BY <1>2, <2>2
    <3>2. i - 1 \in 1 .. Len(backlog') /\ i - 1 + 1 = i /\ i - 1 \in 1 .. Len(backlog) - 1
      BY <1>2, <3>1
    <3>3. backlog'[i - 1] = x
      BY <1>2, <2>2, <3>2
    <3> QED
      BY <3>2, <3>3
  <2> QED
    BY <2>1, <2>2 DEF InBacklog
<1>8. Connected'
  <2>1. ASSUME NEW x \in Sender
        PROVE  (conn[x] = "open" <=> x \in client \cup peer) /\ (conn[x] = "waiting" <=> InBacklog(x))
    BY DEF ConnInv, Connected
  <2>2. ASSUME NEW x \in Sender
        PROVE  (conn[x] = "open" <=> x \in client \cup peer)' /\ (conn[x] = "waiting" <=> InBacklog(x))'
    <3>1. CASE x = s
      BY <1>1, <1>5, <1>7, <3>1
    <3>2. CASE x # s
      BY <1>1, <1>5, <1>7, <2>1, <3>2
    <3> QED
      BY <3>1, <3>2
  <2> QED
    BY <1>6, <2>2 DEF Connected
<1> QED
  BY <1>3, <1>4, <1>5, <1>8 DEF ConnInv

LEMMA ConnectConn ==
    ASSUME ConnInv, NEW s \in Sender, Connects(s)
    PROVE  ConnInv'
<1>1. /\ conn[s] = "new" /\ conn' = [conn EXCEPT ![s] = "waiting"] /\ backlog' = Append(backlog, s)
      /\ UNCHANGED <<listener, engine, ghost, client, receiver, peer>>
      /\ backlog \in Seq(Sender) /\ conn \in [Sender -> {"new", "waiting", "open", "over"}]
  BY DEF ConnInv, ConnTypes, Connects, Connect, ServersVars, ghostVars, receiverVars, local
<1>2. /\ backlog' \in Seq(Sender) /\ Len(backlog') = Len(backlog) + 1 /\ Len(backlog) \in Nat
      /\ \A i \in 1 .. Len(backlog) : backlog'[i] = backlog[i]
      /\ backlog'[Len(backlog) + 1] = s
  BY <1>1, AppendProperties, LenProperties
<1>3. ~InBacklog(s)
  BY <1>1 DEF ConnInv, Connected
<1>4. ConnTypes' /\ OneListener' /\ OneClient'
  BY <1>1, <1>2 DEF ConnInv, ConnTypes, OneListener, OneClient
<1>5. \A x \in Sender : InBacklog(x)' <=> InBacklog(x) \/ x = s
  BY <1>2 DEF InBacklog
<1>6. \A i, j \in 1 .. Len(backlog') : backlog'[i] = backlog'[j] => i = j
  <2> SUFFICES ASSUME NEW i \in 1 .. Len(backlog'), NEW j \in 1 .. Len(backlog'),
                      backlog'[i] = backlog'[j]
               PROVE  i = j
    OBVIOUS
  <2>1. CASE i \in 1 .. Len(backlog) /\ j \in 1 .. Len(backlog)
    BY <1>2, <2>1 DEF ConnInv, Connected
  <2>2. i \in 1 .. Len(backlog) \/ i = Len(backlog) + 1
    BY <1>2
  <2>3. j \in 1 .. Len(backlog) \/ j = Len(backlog) + 1
    BY <1>2
  <2> QED
    BY <1>2, <1>3, <2>1, <2>2, <2>3 DEF InBacklog
<1>7. Connected'
  <2>1. ASSUME NEW x \in Sender
        PROVE  (conn[x] = "open" <=> x \in client \cup peer)' /\ (conn[x] = "waiting" <=> InBacklog(x))'
    <3>1. (conn[x] = "open" <=> x \in client \cup peer) /\ (conn[x] = "waiting" <=> InBacklog(x))
      BY DEF ConnInv, Connected
    <3>2. (conn[s] = "open" <=> s \in client \cup peer)
      BY DEF ConnInv, Connected
    <3>3. CASE x = s
      BY <1>1, <1>5, <3>2, <3>3
    <3>4. CASE x # s
      BY <1>1, <1>5, <3>1, <3>4
    <3> QED
      BY <3>3, <3>4
  <2> QED
    BY <1>6, <2>1 DEF Connected
<1> QED
  BY <1>4, <1>7 DEF ConnInv

\* A program that stops listening ends its connection and those that wait.
LEMMA StopConn ==
    ASSUME ConnInv, UNCHANGED engine,
           \/ /\ ghost = "display" /\ ghost' = "ended" /\ StopsListening({})
              /\ UNCHANGED <<client, peer, receiver>>
           \/ /\ receiver \in Receiving /\ receiver' = "ended" /\ StopsListening(peer)
              /\ peer' = {} /\ UNCHANGED <<client, ghost>>
           \/ /\ ghost \in Serving /\ ghost' = "exited" /\ StopsListening(client)
              /\ client' = {} /\ UNCHANGED <<peer, receiver>>
    PROVE  ConnInv'
<1>1. \E S : /\ \/ S = {} /\ peer' = {} /\ peer = {}
                \/ S = peer /\ peer' = {}
                \/ S = client /\ peer' = {} /\ peer = {}
             /\ client' = {} /\ (client = {} \/ S = client) /\ listener' = "none" /\ backlog' = <<>>
             /\ conn' = [x \in Sender |-> IF x \in S \cup {y \in Sender : conn[y] = "waiting"}
                                          THEN "over" ELSE conn[x]]
             /\ ConnTypes' /\ OneListener' /\ OneClient'
  <2>1. conn \in [Sender -> {"new", "waiting", "open", "over"}] /\ <<>> \in Seq(Sender)
    BY EmptySeq DEF ConnInv, ConnTypes
  <2>2. CASE ghost = "display" /\ ghost' = "ended" /\ StopsListening({}) /\ UNCHANGED <<client, peer, receiver>>
    <3>1. peer = {} /\ client = {} /\ listener' = "none" /\ receiver \notin Receiving
      BY <2>2 DEF ConnInv, OneClient, OneListener, Idle, Serving, Receiving, StopsListening
    <3>2. OneListener' /\ OneClient'
      BY <2>2, <3>1 DEF ConnInv, OneListener, OneClient, Idle, Serving, Receiving
    <3>3. /\ backlog' = <<>>
          /\ conn' = [x \in Sender |-> IF x \in {} \cup {y \in Sender : conn[y] = "waiting"}
                                       THEN "over" ELSE conn[x]]
      BY <2>2 DEF StopsListening, Closes
    <3>4. ConnTypes'
      BY <2>1, <2>2, <3>3 DEF ConnInv, ConnTypes, GhostStates, Idle
    <3> QED
      BY <2>2, <3>1, <3>2, <3>3, <3>4
  <2>3. CASE receiver \in Receiving /\ receiver' = "ended" /\ StopsListening(peer)
             /\ peer' = {} /\ UNCHANGED <<client, ghost>>
    <3>1. client = {} /\ listener' = "none" /\ ghost \in Idle
      BY <2>3 DEF ConnInv, OneClient, OneListener, Idle, Serving, Receiving, StopsListening
    <3>2. OneListener' /\ OneClient'
      BY <2>3, <3>1 DEF ConnInv, OneListener, OneClient, Idle, Serving, Receiving
    <3>3. /\ backlog' = <<>>
          /\ conn' = [x \in Sender |-> IF x \in peer \cup {y \in Sender : conn[y] = "waiting"}
                                       THEN "over" ELSE conn[x]]
      BY <2>3 DEF StopsListening, Closes
    <3>4. ConnTypes'
      BY <2>1, <2>3, <3>3 DEF ConnInv, ConnTypes, ReceiverStates
    <3> QED
      BY <2>3, <3>1, <3>2, <3>3, <3>4
  <2>4. CASE ghost \in Serving /\ ghost' = "exited" /\ StopsListening(client)
             /\ client' = {} /\ UNCHANGED <<peer, receiver>>
    <3>1. peer = {} /\ listener' = "none" /\ receiver \notin Receiving /\ receiver # "accept"
      BY <2>4 DEF ConnInv, OneClient, OneListener, Idle, Serving, Receiving, StopsListening
    <3>2. OneListener' /\ OneClient'
      BY <2>4, <3>1 DEF ConnInv, ConnTypes, ReceiverStates, OneListener, OneClient, Idle, Serving, Receiving
    <3>3. /\ backlog' = <<>>
          /\ conn' = [x \in Sender |-> IF x \in client \cup {y \in Sender : conn[y] = "waiting"}
                                       THEN "over" ELSE conn[x]]
      BY <2>4 DEF StopsListening, Closes
    <3>4. ConnTypes'
      BY <2>1, <2>4, <3>3 DEF ConnInv, ConnTypes, GhostStates, Idle, Serving
    <3> QED
      BY <2>4, <3>1, <3>2, <3>3, <3>4
  <2> QED
    BY <2>2, <2>3, <2>4
<1>2. ASSUME NEW x \in Sender
      PROVE  conn'[x] # "open" /\ conn'[x] # "waiting" /\ x \notin client' \cup peer'
  BY <1>1 DEF ConnInv, Connected
<1>3. Len(backlog') = 0
  BY <1>1, EmptySeq
<1>4. \A x \in Sender : ~InBacklog(x)'
  BY <1>3 DEF InBacklog
<1>5. Connected'
  BY <1>2, <1>3, <1>4 DEF Connected
<1> QED
  BY <1>1, <1>5 DEF ConnInv

LEMMA HangUpConn ==
    ASSUME ConnInv, HangUp, UNCHANGED receiverVars
    PROVE  ConnInv'
<1>1. /\ ghost = "hangup" /\ ghost' = "accept" /\ client' = {}
      /\ UNCHANGED <<listener, backlog, engine, peer, receiver>>
      /\ conn' = [x \in Sender |-> IF x \in client THEN "over" ELSE conn[x]]
      /\ conn \in [Sender -> {"new", "waiting", "open", "over"}]
  BY DEF ConnInv, ConnTypes, HangUp, Closes, receiverVars, local
<1>2. peer = {} /\ receiver \notin Receiving
  BY <1>1 DEF ConnInv, OneListener, OneClient, Idle, Serving, Receiving
<1>3. ConnTypes' /\ OneListener' /\ OneClient'
  BY <1>1 DEF ConnInv, ConnTypes, OneListener, OneClient, GhostStates, Idle, Serving
<1>4. ASSUME NEW x \in Sender
      PROVE  (conn[x] = "open" <=> x \in client \cup peer)' /\ (conn[x] = "waiting" <=> InBacklog(x))'
  <2>1. (conn[x] = "open" <=> x \in client \cup peer) /\ (conn[x] = "waiting" <=> InBacklog(x))
    BY DEF ConnInv, Connected
  <2>2. InBacklog(x)' <=> InBacklog(x)
    BY <1>1 DEF InBacklog
  <2> QED
    BY <1>1, <1>2, <2>1, <2>2
<1>5. Connected'
  BY <1>1, <1>4 DEF ConnInv, Connected
<1> QED
  BY <1>3, <1>5 DEF ConnInv

LEMMA BindConn ==
    ASSUME ConnInv,
           \/ (Ignite \/ Bind \/ BindFails) /\ UNCHANGED receiverVars
           \/ (ReceiverBinds \/ ReceiverBindFails) /\ UNCHANGED ghostVars
    PROVE  ConnInv'
<1>1. UNCHANGED <<backlog, conn, client, peer>>
  BY DEF Ignite, Bind, BindFails, ReceiverBinds, ReceiverBindFails, wire, ghostVars, receiverVars, local
<1>2. Connected'
  BY <1>1 DEF ConnInv, Connected, InBacklog
<1>3. CASE Ignite /\ UNCHANGED receiverVars
  BY <1>1, <1>2, <1>3 DEF ConnInv, ConnTypes, OneListener, OneClient, GhostStates, Idle, Serving, Ignite,
                          wire, receiverVars, local
<1>4. CASE Bind /\ UNCHANGED receiverVars
  BY <1>1, <1>2, <1>4 DEF ConnInv, ConnTypes, OneListener, OneClient, GhostStates, Idle, Serving, Bind,
                          Listens, ReceiverStates, Receiving, receiverVars, local
<1>5. CASE BindFails /\ UNCHANGED receiverVars
  BY <1>1, <1>2, <1>5 DEF ConnInv, ConnTypes, OneListener, OneClient, GhostStates, Idle, Serving, BindFails,
                          wire, receiverVars, local
<1>6. CASE ReceiverBinds /\ UNCHANGED ghostVars
  BY <1>1, <1>2, <1>6 DEF ConnInv, ConnTypes, OneListener, OneClient, ReceiverStates, Receiving,
                          ReceiverBinds, Listens, ghostVars
<1>7. CASE ReceiverBindFails /\ UNCHANGED ghostVars
  BY <1>1, <1>2, <1>7 DEF ConnInv, ConnTypes, OneListener, OneClient, ReceiverStates, Receiving,
                          ReceiverBindFails, wire, ghostVars
<1> QED
  BY <1>3, <1>4, <1>5, <1>6, <1>7

LEMMA NextConn == ASSUME ConnInv, [Next]_vars PROVE ConnInv'
<1> USE DEF local, xserver
<1>1. ASSUME SenderNext
      PROVE  ConnInv'
  <2>1. ASSUME NEW s \in Sender, Begin(s) \/ Continue(s) \/ End(s)
        PROVE  ConnInv'
    <3>1. UNCHANGED <<listener, backlog, conn, client, peer, engine, ghost, receiver>>
      BY <2>1 DEF Begin, Continue, End, Sends, Shuts, ServersVars, ghostVars, receiverVars
    <3> QED
      BY <3>1, ConnSame
  <2> QED
    BY <1>1, <2>1, ConnectConn DEF SenderNext
<1>2. CASE IgniteStep
  BY <1>2, BindConn DEF IgniteStep
<1>3. ASSUME GhostNext, UNCHANGED receiverVars
      PROVE  ConnInv'
  <2>1. UNCHANGED <<peer, receiver>>
    BY <1>3 DEF receiverVars
  <2>2. CASE Bind \/ BindFails
    BY <1>3, <2>2, BindConn
  <2>3. CASE OpenDisplay
    <3>1. /\ UNCHANGED <<listener, backlog, conn, client, engine>>
          /\ ghost = "display" /\ ghost' = "accept"
      BY <2>3 DEF OpenDisplay, wire
    <3> QED
      BY <2>1, <3>1, ConnSame
  <2>4. CASE OpenDisplayFails
    <3>1. /\ ghost = "display" /\ ghost' = "ended" /\ StopsListening({})
          /\ UNCHANGED <<engine, client>>
      BY <2>4 DEF OpenDisplayFails
    <3> QED
      BY <2>1, <3>1, StopConn
  <2>5. CASE Accept
    <3>1. PICK s \in Sender : Accepts(s) /\ client' = {s}
      BY <2>5 DEF Accept
    <3>2. ghost = "accept" /\ ghost' = "header" /\ UNCHANGED <<listener, engine>>
      BY <2>5 DEF Accept
    <3> QED
      BY <2>1, <3>1, <3>2, AcceptConn
  <2>6. CASE ReadHeader \/ MallocFails \/ ReadPixels \/ StreamEnds \/ Draw \/ NotDrawn
    <3>1. /\ UNCHANGED <<listener, backlog, conn, client, engine>>
          /\ ghost \in Serving /\ ghost' \in Serving
      <4>1. CASE ReadHeader
        BY <4>1 DEF ReadHeader, Serving
      <4>2. CASE MallocFails \/ ReadPixels \/ StreamEnds \/ Draw \/ NotDrawn
        BY <4>2 DEF MallocFails, ReadPixels, StreamEnds, Draw, NotDrawn, Serving, wire
      <4> QED
        BY <2>6, <4>1, <4>2
    <3> QED
      BY <2>1, <3>1, ConnSame
  <2>7. CASE HangUp
    BY <1>3, <2>7, HangUpConn
  <2>8. CASE XErrorExits
    <3>1. /\ ghost \in Serving /\ ghost' = "exited" /\ StopsListening(client) /\ client' = {}
          /\ UNCHANGED engine
      BY <2>8 DEF XErrorExits, Serving
    <3> QED
      BY <2>1, <3>1, StopConn
  <2> QED
    BY <1>3, <2>2, <2>3, <2>4, <2>5, <2>6, <2>7, <2>8 DEF GhostNext
<1>4. ASSUME ReceiverNext \/ NoDisplay \/ ErrorEnds, UNCHANGED ghostVars
      PROVE  ConnInv'
  <2>1. UNCHANGED <<client, ghost, engine>>
    BY <1>4 DEF ghostVars
  <2>2. CASE ReceiverBinds \/ ReceiverBindFails
    BY <1>4, <2>2, BindConn
  <2>3. CASE ReceiverAccepts
    <3>1. PICK s \in Sender : Accepts(s) /\ peer' = {s}
      BY <2>3 DEF ReceiverAccepts
    <3>2. receiver = "accept" /\ receiver' = "display" /\ UNCHANGED listener
      BY <2>3 DEF ReceiverAccepts
    <3> QED
      BY <2>1, <3>1, <3>2, AcceptConn
  <2>4. CASE \/ OpenWindow \/ ReadPacketHeader \/ ReadPacket \/ NotDecoded \/ Picture
             \/ Resize \/ CopyRow \/ Put
    <3>1. UNCHANGED <<listener, backlog, conn, peer>>
      BY <2>4 DEF OpenWindow, ReadPacketHeader, ReadPacket, NotDecoded, Picture, Resize, Remade, CopyRow, Put, wire
    <3>2. receiver \in Receiving /\ receiver' \in Receiving
      BY <2>4 DEF OpenWindow, ReadPacketHeader, ReadPacket, NotDecoded, Picture, Resize, Remade,
                CopyRow, Put, Receiving
    <3> QED
      BY <2>1, <3>1, <3>2, ConnSame
  <2>5. CASE PeerEnds \/ NoDisplay \/ ErrorEnds
    <3>1. receiver \in Receiving /\ Ends
      BY <2>5 DEF PeerEnds, NoDisplay, ErrorEnds, Receiving
    <3>2. receiver' = "ended" /\ StopsListening(peer) /\ peer' = {}
      BY <3>1 DEF Ends
    <3> QED
      BY <2>1, <3>1, <3>2, StopConn
  <2> QED
    BY <1>4, <2>2, <2>3, <2>4, <2>5 DEF ReceiverNext
<1>5. ASSUME ServeRequest \/ ManagerActs \/ Covered, UNCHANGED ghostVars
      PROVE  ConnInv'
  <2>1. UNCHANGED <<listener, backlog, conn, client, peer, engine, ghost, receiver>>
    BY <1>5 DEF ServeRequest, ManagerActs, Covered, wire, ghostVars
  <2> QED
    BY <2>1, ConnSame
<1>6. ASSUME UNCHANGED vars
      PROVE  ConnInv'
  <2>1. UNCHANGED <<listener, backlog, conn, client, peer, engine, ghost, receiver>>
    BY <1>6 DEF vars, wire, ghostVars, receiverVars
  <2> QED
    BY <2>1, ConnSame
<1> QED
  BY <1>1, <1>2, <1>3, <1>4, <1>5, <1>6
     DEF Next, GhostStep, ReceiverStep, ReceiverBreaks, XServerStep, WindowStep

LEMMA InitConn == ASSUME Init PROVE ConnInv
<1>1. /\ listener = "none" /\ backlog = <<>> /\ conn = [s \in Sender |-> "new"]
      /\ ghost = "none" /\ receiver = "bind" /\ client = {} /\ peer = {} /\ engine = FALSE
  BY DEF Init, WireInit, GhostInit, ReceiverInit
<1>2. ConnTypes
  BY <1>1, EmptySeq DEF ConnTypes, GhostStates, Idle, Serving, ReceiverStates, Receiving
<1>3. OneListener /\ OneClient
  BY <1>1 DEF OneListener, OneClient, Idle, Serving, Receiving
<1>4. Connected
  <2>1. Len(backlog) = 0
    BY <1>1, EmptySeq
  <2> QED
    BY <1>1, <2>1 DEF Connected, InBacklog
<1> QED
  BY <1>2, <1>3, <1>4 DEF ConnInv

-----------------------------------------------------------------------------
(* Sequences that are cut into messages                                    *)

LEMMA UnitTypes == Heads \subseteq Unit /\ <<>> \in Seq(Unit) /\ \A h \in Heads : <<h>> \in Seq(Unit)
BY EmptySeq DEF Unit

LEMMA PieceCountNat == ASSUME NEW h \in Heads PROVE PieceCount(h) \in Nat
<1>1. CASE h \in [type : {"ghost"}, from : Sender, frame : Nat, size : 0 .. GhostLimit + 1]
  <2>1. h.type = "ghost" /\ h.size \in 0 .. GhostLimit + 1 /\ GhostLimit \in Nat
    BY <1>1, RenderersAssumption
  <2> QED
    BY <2>1 DEF PieceCount
<1>2. CASE h \in [type : {"phoenix"}, size : 1 .. PacketLimit + 1, fmt : {"h264", "raw"}]
  BY <1>2 DEF PieceCount
<1> QED
  BY <1>1, <1>2 DEF Heads

\* What a sender sends after a header.
LEMMA PiecesOfHead ==
    ASSUME NEW h \in Heads
    PROVE  /\ Pieces(h) \in Seq(Unit) /\ Len(Pieces(h)) = PieceCount(h)
           /\ \A k \in 1 .. PieceCount(h) : Pieces(h)[k] = Piece(h, k)
<1>1. PieceCount(h) \in Nat
  BY PieceCountNat
<1>2. Pieces(h) = [k \in 1 .. PieceCount(h) |-> Piece(h, k)]
  BY DEF Pieces, PieceCount
<1>3. \A k \in 1 .. PieceCount(h) : Piece(h, k) \in Unit
  BY <1>1 DEF Piece, Unit
<1> HIDE DEF Pieces
<1> QED
  BY <1>1, <1>2, <1>3

\* What is left when n elements are taken from the front.
LEMMA Suffix ==
    ASSUME NEW S, NEW q \in Seq(S), NEW n \in 0 .. Len(q)
    PROVE  /\ SubSeq(q, n + 1, Len(q)) \in Seq(S)
           /\ Len(SubSeq(q, n + 1, Len(q))) = Len(q) - n
           /\ \A j \in 1 .. Len(q) - n : SubSeq(q, n + 1, Len(q))[j] = q[n + j]
<1> DEFINE d == SubSeq(q, n + 1, Len(q))
<1>1. Len(q) \in Nat /\ \A i \in n + 1 .. Len(q) : q[i] \in S
  BY LenProperties, ElementOfSeq
<1>2. /\ d \in Seq(S)
      /\ Len(d) = IF n + 1 <= Len(q) THEN Len(q) - (n + 1) + 1 ELSE 0
      /\ \A j \in 1 .. Len(q) - (n + 1) + 1 : d[j] = q[n + 1 + j - 1]
  BY <1>1, SubSeqProperties
<1> HIDE DEF d
<1>3. Len(d) = Len(q) - n
  BY <1>1, <1>2
<1>4. ASSUME NEW j \in 1 .. Len(q) - n
      PROVE  d[j] = q[n + j]
  <2>1. j \in 1 .. Len(q) - (n + 1) + 1 /\ n + 1 + j - 1 = n + j
    BY <1>1
  <2> QED
    BY <1>2, <2>1
<1> QED
  BY <1>2, <1>3, <1>4 DEF d

LEMMA ConcatFacts ==
    ASSUME NEW q \in Seq(Unit), NEW t \in Seq(Unit)
    PROVE  /\ q \o t \in Seq(Unit) /\ Len(q \o t) = Len(q) + Len(t)
           /\ \A i \in 1 .. Len(q) : (q \o t)[i] = q[i]
           /\ 1 \in 1 .. Len(q) => q \o t # <<>>
<1>1. /\ q \o t \in Seq(Unit) /\ Len(q \o t) = Len(q) + Len(t)
      /\ \A i \in 1 .. Len(q) : (q \o t)[i] = q[i]
  BY ConcatProperties
<1>2. Len(q) \in Nat /\ Len(t) \in Nat /\ Len(<<>>) = 0
  BY LenProperties, EmptySeq
<1>3. 1 \in 1 .. Len(q) => Len(q \o t) # Len(<<>>)
  BY <1>1, <1>2
<1> QED
  BY <1>1, <1>3

LEMMA FramedEmpty == Framed(<<>>)
<1>1. CutsAt(<<>>, {1})
  BY DEF CutsAt
<1>2. {1} \subseteq 1 .. Len(<<>>) + 1
  OBVIOUS
<1> QED
  BY <1>1, <1>2 DEF Framed

LEMMA FramedFirst ==
    ASSUME NEW q \in Seq(Unit), Framed(q), q # <<>>
    PROVE  q[1] \in Heads
<1>1. PICK H \in SUBSET (1 .. Len(q) + 1) : CutsAt(q, H)
  BY DEF Framed
<1>2. 1 \in H /\ 1 \in 1 .. Len(q)
  BY <1>1, EmptySeq DEF CutsAt
<1> QED
  BY <1>1, <1>2 DEF CutsAt

\* One more message at the end.
LEMMA FramedAdd ==
    ASSUME NEW q \in Seq(Unit), Framed(q), NEW h \in Heads
    PROVE  /\ q \o (<<h>> \o Pieces(h)) \in Seq(Unit)
           /\ Framed(q \o (<<h>> \o Pieces(h)))
<1> DEFINE w == <<h>> \o Pieces(h)
           r == q \o w
           n == PieceCount(h)
           end == Len(q) + 1 + n + 1
<1>1. PICK H \in SUBSET (1 .. Len(q) + 1) : CutsAt(q, H)
  BY DEF Framed
<1>2. /\ Pieces(h) \in Seq(Unit) /\ Len(Pieces(h)) = n /\ n \in Nat /\ Len(q) \in Nat
      /\ \A k \in 1 .. n : Pieces(h)[k] = Piece(h, k)
  BY PiecesOfHead, PieceCountNat
<1>3. <<h>> \in Seq(Unit) /\ Len(<<h>>) = 1 /\ <<h>>[1] = h
  BY UnitTypes
<1>4. w \in Seq(Unit) /\ Len(w) = 1 + n /\ w[1] = h /\ \A k \in 1 .. n : w[1 + k] = Piece(h, k)
  BY <1>2, <1>3, ConcatProperties
<1> HIDE DEF n, w
<1>5. /\ r \in Seq(Unit) /\ Len(r) = Len(q) + 1 + n
      /\ \A i \in 1 .. Len(q) : r[i] = q[i]
      /\ r[Len(q) + 1] = h
      /\ \A k \in 1 .. n : r[Len(q) + 1 + k] = Piece(h, k)
  <2>1. /\ r \in Seq(Unit) /\ Len(r) = Len(q) + (1 + n)
        /\ \A i \in 1 .. Len(q) + (1 + n) : r[i] = IF i <= Len(q) THEN q[i] ELSE w[i - Len(q)]
    <3>1. q \in Seq(Unit) /\ w \in Seq(Unit) /\ Len(w) = 1 + n
      BY <1>4
    <3> QED
      BY ONLY <3>1, ConcatProperties
  <2> HIDE DEF r
  <2>2. \A i \in 1 .. Len(q) : r[i] = q[i]
    BY <1>2, <2>1
  <2>3. r[Len(q) + 1] = h
    <3>1. Len(q) + 1 \in 1 .. Len(q) + (1 + n) /\ ~(Len(q) + 1 <= Len(q)) /\ Len(q) + 1 - Len(q) = 1
      BY <1>2, <2>1
    <3> QED
      BY <1>4, <2>1, <3>1
  <2>4. ASSUME NEW k \in 1 .. n
        PROVE  r[Len(q) + 1 + k] = Piece(h, k)
    <3>1. /\ Len(q) + 1 + k \in 1 .. Len(q) + (1 + n) /\ 1 + k \in 1 .. 1 + n /\ ~(Len(q) + 1 + k <= Len(q))
          /\ Len(q) + 1 + k - Len(q) = 1 + k
      BY <1>2, <2>1
    <3> QED
      BY <1>4, <2>1, <3>1
  <2> QED
    BY <1>2, <2>1, <2>2, <2>3, <2>4
<1> HIDE DEF r
<1>6. H \cup {end} \in SUBSET (1 .. Len(r) + 1) /\ 1 \in H \cup {end} /\ Len(r) + 1 \in H \cup {end}
  <2>1. 1 \in H /\ Len(q) + 1 \in H
    BY <1>1 DEF CutsAt
  <2>2. Len(r) + 1 = end /\ end \in 1 .. Len(r) + 1 /\ 1 .. Len(q) + 1 \subseteq 1 .. Len(r) + 1
    BY <1>2, <1>5
  <2> QED
    BY <2>1, <2>2
<1>7. ASSUME NEW i \in H \cup {end}, i \in 1 .. Len(r)
      PROVE  /\ r[i] \in Heads /\ i + PieceCount(r[i]) + 1 \in H \cup {end}
             /\ \A k \in 1 .. PieceCount(r[i]) : r[i + k] = Piece(r[i], k)
  <2>1. i \in H /\ (i \in 1 .. Len(q) \/ i = Len(q) + 1)
    BY <1>1, <1>2, <1>5, <1>7
  <2>2. CASE i = Len(q) + 1
    BY <1>2, <1>5, <2>2 DEF n
  <2>3. CASE i \in 1 .. Len(q)
    <3>1. /\ q[i] \in Heads /\ i + PieceCount(q[i]) + 1 \in H
          /\ \A k \in 1 .. PieceCount(q[i]) : q[i + k] = Piece(q[i], k)
      BY <1>1, <2>1, <2>3 DEF CutsAt
    <3>2. r[i] = q[i] /\ PieceCount(q[i]) \in Nat
      BY <1>5, <2>3, <3>1, PieceCountNat
    <3>3. \A k \in 1 .. PieceCount(q[i]) : i + k \in 1 .. Len(q)
      <4> DEFINE m == PieceCount(q[i])
      <4>1. i + m + 1 \in 1 .. Len(q) + 1 /\ m \in Nat
        BY <1>1, <3>1, <3>2
      <4> HIDE DEF m
      <4>2. \A k \in 1 .. m : i + k \in 1 .. Len(q)
        BY <1>2, <2>3, <4>1
      <4> QED
        BY <4>2 DEF m
    <3> QED
      BY <1>5, <3>1, <3>2, <3>3
  <2> QED
    BY <2>1, <2>2, <2>3
<1>8. CutsAt(r, H \cup {end})
  BY <1>6, <1>7 DEF CutsAt
<1>9. Framed(r)
  BY <1>6, <1>8 DEF Framed
<1> QED
  BY <1>5, <1>9 DEF r, w

\* The message at the front: its pieces are there, and the rest is cut too.
LEMMA FramedTake ==
    ASSUME NEW h \in Heads, NEW q \in Seq(Unit), Framed(<<h>> \o q)
    PROVE  /\ PieceCount(h) <= Len(q)
           /\ \A k \in 1 .. PieceCount(h) : q[k] = Piece(h, k)
           /\ Framed(SubSeq(q, PieceCount(h) + 1, Len(q)))
<1> DEFINE u == <<h>> \o q
           n == PieceCount(h)
           r == SubSeq(q, n + 1, Len(q))
<1>1. PICK H \in SUBSET (1 .. Len(u) + 1) : CutsAt(u, H)
  BY DEF Framed
<1>2. n \in Nat /\ Len(q) \in Nat
  BY PieceCountNat
<1>3. /\ Len(u) = Len(q) + 1 /\ u[1] = h
      /\ \A k \in 1 .. Len(q) : u[1 + k] = q[k]
  BY UnitTypes, ConcatProperties
<1> HIDE DEF u
<1>4. /\ 1 + n + 1 \in H /\ Len(u) + 1 \in H
      /\ \A k \in 1 .. n : u[1 + k] = Piece(h, k)
  <2>1. 1 \in H /\ 1 \in 1 .. Len(u) /\ Len(u) + 1 \in H
    BY <1>1, <1>2, <1>3 DEF CutsAt
  <2> QED
    BY <1>1, <1>3, <2>1 DEF CutsAt
<1> HIDE DEF n
<1>5. n <= Len(q)
  BY <1>1, <1>2, <1>3, <1>4
<1>6. \A k \in 1 .. n : q[k] = Piece(h, k)
  BY <1>2, <1>3, <1>4, <1>5
<1>7. Len(r) = Len(q) - n /\ \A j \in 1 .. Len(q) - n : r[j] = q[n + j]
  BY <1>2, <1>5, Suffix
<1> HIDE DEF r
<1> DEFINE R == {j \in 1 .. Len(r) + 1 : j + n + 1 \in H}
<1>8. R \in SUBSET (1 .. Len(r) + 1)
  OBVIOUS
<1>9. CutsAt(r, R)
  <2>1. 1 \in R /\ Len(r) + 1 \in R
    <3>1. 1 \in 1 .. Len(r) + 1 /\ Len(r) + 1 \in 1 .. Len(r) + 1
      BY <1>2, <1>5, <1>7
    <3>2. 1 + n + 1 \in H /\ Len(r) + 1 + n + 1 = Len(u) + 1
      BY <1>2, <1>3, <1>4, <1>5, <1>7
    <3> QED
      BY <1>4, <3>1, <3>2
  <2>2. ASSUME NEW j \in R, j \in 1 .. Len(r)
        PROVE  /\ r[j] \in Heads /\ j + PieceCount(r[j]) + 1 \in R
               /\ \A k \in 1 .. PieceCount(r[j]) : r[j + k] = Piece(r[j], k)
    <3> DEFINE i == j + n + 1
               m == PieceCount(u[i])
    <3>1. i \in H /\ i \in 1 .. Len(u) /\ u[i] = r[j]
      <4>1. /\ n + j \in 1 .. Len(q) /\ 1 + (n + j) = i /\ i \in 1 .. Len(u) /\ j \in 1 .. Len(q) - n
            /\ i \in H
        BY <1>2, <1>3, <1>5, <1>7, <2>2
      <4> QED
        BY <1>3, <1>7, <4>1
    <3>2. /\ u[i] \in Heads /\ i + m + 1 \in H
          /\ \A k \in 1 .. m : u[i + k] = Piece(u[i], k)
      BY <1>1, <3>1 DEF CutsAt
    <3>3. m \in Nat
      BY <3>2, PieceCountNat
    <3>4. j + m + 1 \in 1 .. Len(r) + 1 /\ j + m + 1 + n + 1 = i + m + 1
      <4> HIDE DEF m
      <4>1. i + m + 1 \in 1 .. Len(u) + 1
        BY <1>1, <3>2
      <4> QED
        BY <1>2, <1>3, <1>5, <1>7, <2>2, <3>3, <4>1
    <3>5. ASSUME NEW k \in 1 .. m
          PROVE  r[j + k] = Piece(u[i], k)
      <4> HIDE DEF m
      <4>1. /\ j + k \in 1 .. Len(q) - n /\ n + (j + k) \in 1 .. Len(q) /\ 1 + (n + (j + k)) = i + k
        BY <1>2, <1>5, <1>7, <2>2, <3>3, <3>4
      <4>2. r[j + k] = q[n + (j + k)] /\ q[n + (j + k)] = u[1 + (n + (j + k))]
        BY <1>3, <1>7, <4>1
      <4> QED
        BY <3>2, <4>1, <4>2
    <3>6. j + m + 1 \in R
      BY <3>2, <3>4
    <3> HIDE DEF i, R
    <3> QED
      BY <3>1, <3>2, <3>5, <3>6
  <2> HIDE DEF R
  <2> QED
    BY <2>1, <2>2 DEF CutsAt
<1>10. Framed(r)
  <2> HIDE DEF R
  <2> QED
    BY <1>8, <1>9 DEF Framed
<1> QED
  BY <1>5, <1>6, <1>10 DEF n, r

\* Reading the first units of a stream leaves what follows them.
LEMMA Drop ==
    ASSUME NEW q \in Seq(Unit), NEW t \in Seq(Unit), NEW n \in 0 .. Len(q)
    PROVE  /\ SubSeq(q, n + 1, Len(q)) \in Seq(Unit)
           /\ Len(SubSeq(q, n + 1, Len(q))) = Len(q) - n
           /\ SubSeq(q, n + 1, Len(q)) \o t = SubSeq(q \o t, n + 1, Len(q \o t))
<1> DEFINE d == SubSeq(q, n + 1, Len(q))
           c == q \o t
           e == SubSeq(c, n + 1, Len(c))
<1>1. /\ c \in Seq(Unit) /\ Len(c) = Len(q) + Len(t) /\ Len(q) \in Nat /\ Len(t) \in Nat
      /\ \A i \in 1 .. Len(c) : c[i] = IF i <= Len(q) THEN q[i] ELSE t[i - Len(q)]
  BY ConcatProperties
<1> HIDE DEF c
<1>2. d \in Seq(Unit) /\ Len(d) = Len(q) - n /\ \A j \in 1 .. Len(q) - n : d[j] = q[n + j]
  BY Suffix
<1>3. e \in Seq(Unit) /\ Len(e) = Len(c) - n /\ \A j \in 1 .. Len(c) - n : e[j] = c[n + j]
  BY <1>1, Suffix
<1> HIDE DEF d, e
<1>4. /\ d \o t \in Seq(Unit) /\ Len(d \o t) = Len(d) + Len(t)
      /\ \A i \in 1 .. Len(d) + Len(t) : (d \o t)[i] = IF i <= Len(d) THEN d[i] ELSE t[i - Len(d)]
  <2>1. d \in Seq(Unit)
    BY <1>2
  <2> QED
    BY <2>1, ConcatProperties
<1>5. Len(d \o t) = Len(e)
  BY <1>1, <1>2, <1>3, <1>4
<1>6. ASSUME NEW i \in 1 .. Len(d \o t)
      PROVE  (d \o t)[i] = e[i]
  <2>1. /\ i \in 1 .. Len(c) - n /\ n + i \in 1 .. Len(c) /\ i \in 1 .. Len(d) + Len(t)
        /\ (i <= Len(d) <=> n + i <= Len(q)) /\ i - Len(d) = n + i - Len(q)
        /\ (i <= Len(d) => i \in 1 .. Len(q) - n)
    BY <1>1, <1>2, <1>4
  <2>2. e[i] = IF i <= Len(d) THEN q[n + i] ELSE t[i - Len(d)]
    BY <1>1, <1>3, <2>1
  <2> QED
    BY <1>2, <1>4, <2>1, <2>2
<1>7. d \o t = e
  BY <1>3, <1>4, <1>5, <1>6, SeqEqual
<1> QED
  BY <1>1, <1>2, <1>7 DEF c, d, e

-----------------------------------------------------------------------------
(* What the senders send and the programs read of it                       *)

\* The texts of the connections that stay open; the others have none.
KeepsMessages ==
    /\ stream' \in [Sender -> Seq(Unit)] /\ pixels' \in Seq(Unit \cup {Raw})
    /\ \A s \in Sender : Len(stream'[s]) <= Room
    /\ \A s \in Sender :
          IF conn'[s] = "open"
          THEN (s \in client' /\ ghost' = "hangup") \/ Framed(Taken(s)' \o (stream'[s] \o tosend[s]))
          ELSE stream'[s] = <<>> /\ conn'[s] \in {conn[s], "over"}

LEMMA FlowFollows ==
    ASSUME FlowInv, ConnInv', SendersFollow, KeepsMessages, HeaderRead', GhostFramesAreWhole'
    PROVE  FlowInv'
<1>1. /\ tosend \in [Sender -> Seq(Unit)] /\ begun \in [Sender -> Nat] /\ <<>> \in Seq(Unit)
      /\ tosend' = [s \in Sender |-> IF conn'[s] = "over" THEN <<>> ELSE tosend[s]]
      /\ begun' = [s \in Sender |-> IF conn'[s] = "over" THEN 0 ELSE begun[s]]
  BY EmptySeq DEF FlowInv, FlowTypes, SendersFollow
<1>2. FlowTypes'
  BY <1>1 DEF KeepsMessages, FlowTypes
<1>3. Quiet'
  <2> SUFFICES ASSUME NEW s \in Sender, conn'[s] # "open"
               PROVE  stream'[s] = <<>> /\ tosend'[s] = <<>>
    BY DEF Quiet
  <2>1. stream'[s] = <<>> /\ conn'[s] \in {conn[s], "over"}
    BY DEF KeepsMessages
  <2>2. CASE conn'[s] = "over"
    BY <1>1, <2>1, <2>2
  <2>3. CASE conn'[s] # "over"
    BY <1>1, <2>1, <2>3 DEF FlowInv, Quiet
  <2> QED
    BY <2>2, <2>3
<1>4. Messages'
  <2> SUFFICES ASSUME NEW s \in Sender, ~(s \in client' /\ ghost' = "hangup")
               PROVE  Framed(Text(s))'
    BY DEF Messages
  <2>1. CASE conn'[s] = "open"
    <3>1. tosend'[s] = tosend[s]
      BY <1>1, <2>1
    <3>2. Framed(Taken(s)' \o (stream'[s] \o tosend[s]))
      BY <2>1 DEF KeepsMessages
    <3>3. Framed(Taken(s)' \o (stream'[s] \o tosend'[s]))
      BY <3>1, <3>2
    <3> QED
      BY <3>3 DEF Text
  <2>2. CASE conn'[s] # "open"
    <3>1. stream'[s] = <<>> /\ tosend'[s] = <<>>
      BY <1>3, <2>2 DEF Quiet
    <3>2. s \notin client' /\ s \notin peer'
      BY <2>2 DEF ConnInv, Connected
    <3>3. Taken(s)' = <<>>
      BY <3>2 DEF Taken
    <3>4. Text(s)' = <<>>
      BY <3>1, <3>3, EmptySeq, ConcatEmptySeq DEF Text
    <3> QED
      BY <3>4, FramedEmpty
  <2> QED
    BY <2>1, <2>2
<1> QED
  BY <1>2, <1>3, <1>4 DEF FlowInv

\* Steps that read nothing.
LEMMA NothingRead ==
    ASSUME FlowInv, UNCHANGED <<stream, pixels>>,
           conn' = conn \/ \E s \in Sender : Accepts(s),
           \A s \in Sender : Taken(s)' = Taken(s) \/ (s \in client' /\ ghost' = "hangup"),
           \A s \in client : ghost = "hangup" => s \in client' /\ ghost' = "hangup"
    PROVE  KeepsMessages
<1>1. /\ stream' \in [Sender -> Seq(Unit)] /\ pixels' \in Seq(Unit \cup {Raw})
      /\ \A s \in Sender : Len(stream'[s]) <= Room
  BY DEF FlowInv, FlowTypes
<1>2. ASSUME NEW s \in Sender, conn'[s] = "open", ~(s \in client' /\ ghost' = "hangup")
      PROVE  Framed(Taken(s)' \o (stream'[s] \o tosend[s]))
  <2>1. Framed(Text(s)) /\ Taken(s)' = Taken(s) /\ stream'[s] = stream[s]
    BY <1>2 DEF FlowInv, Messages
  <2> QED
    BY <2>1 DEF Text
<1>3. ASSUME NEW s \in Sender, conn'[s] # "open"
      PROVE  stream'[s] = <<>> /\ conn'[s] \in {conn[s], "over"}
  <2>1. conn'[s] = conn[s]
    <3>1. CASE \E x \in Sender : Accepts(x)
      <4>1. PICK x \in Sender : conn' = [conn EXCEPT ![x] = "open"]
        BY <3>1 DEF Accepts
      <4> QED
        BY <1>3, <4>1
    <3> QED
      BY <3>1
  <2> QED
    BY <1>3, <2>1 DEF FlowInv, Quiet
<1> QED
  BY <1>1, <1>2, <1>3 DEF KeepsMessages

\* Steps that end the connections of S and read nothing.
LEMMA NothingLeft ==
    ASSUME FlowInv, ConnInv, ConnInv', NEW S, Closes(S), pixels' \in Seq(Unit \cup {Raw}),
           \A s \in Sender : conn'[s] # "open"
    PROVE  KeepsMessages
<1>1. /\ stream' = [s \in Sender |-> IF s \in S THEN <<>> ELSE stream[s]]
      /\ conn' = [s \in Sender |-> IF s \in S THEN "over" ELSE conn[s]]
      /\ <<>> \in Seq(Unit) /\ Len(<<>>) = 0 /\ Room \in Nat
  BY EmptySeq, RenderersAssumption DEF Closes
<1>2. /\ stream' \in [Sender -> Seq(Unit)]
      /\ \A s \in Sender : Len(stream'[s]) <= Room
  BY <1>1 DEF FlowInv, FlowTypes
<1>3. ASSUME NEW s \in Sender
      PROVE  stream'[s] = <<>> /\ conn'[s] \in {conn[s], "over"}
  BY <1>1 DEF FlowInv, Quiet
<1> QED
  BY <1>2, <1>3 DEF KeepsMessages

\* Steps in which one program reads n units from s, the only connection.
LEMMA SomeRead ==
    ASSUME FlowInv, NEW s \in Sender, NEW n \in 0 .. Len(stream[s]), Takes(s, n), conn' = conn,
           conn[s] = "open", \A x \in Sender \ {s} : conn[x] # "open",
           pixels' \in Seq(Unit \cup {Raw}),
           \/ s \in client' /\ ghost' = "hangup"
           \/ Framed(Taken(s)' \o (SubSeq(stream[s], n + 1, Len(stream[s])) \o tosend[s]))
    PROVE  KeepsMessages
<1>1. /\ stream \in [Sender -> Seq(Unit)] /\ Len(stream[s]) \in Nat /\ stream[s] \in Seq(Unit)
      /\ stream' = [stream EXCEPT ![s] = SubSeq(stream[s], n + 1, Len(stream[s]))]
      /\ tosend[s] \in Seq(Unit) /\ Len(stream[s]) <= Room /\ Room \in Nat
  BY LenProperties, RenderersAssumption DEF FlowInv, FlowTypes, Takes
<1> DEFINE d == SubSeq(stream[s], n + 1, Len(stream[s]))
<1>2. d \in Seq(Unit) /\ Len(d) <= Len(stream[s]) /\ Len(d) \in Nat
  <2>1. d \in Seq(Unit) /\ Len(d) = Len(stream[s]) - n
    BY <1>1, Drop
  <2> HIDE DEF d
  <2> QED
    BY <1>1, <2>1
<1> HIDE DEF d
<1>3. stream' = [stream EXCEPT ![s] = d] /\ stream'[s] = d
  BY <1>1 DEF d
<1>4. stream' \in [Sender -> Seq(Unit)] /\ \A x \in Sender : Len(stream'[x]) <= Room
  BY <1>1, <1>2, <1>3 DEF FlowInv, FlowTypes
<1>5. ASSUME NEW x \in Sender, conn'[x] # "open"
      PROVE  stream'[x] = <<>> /\ conn'[x] \in {conn[x], "over"}
  BY <1>1, <1>5 DEF FlowInv, Quiet
<1>6. ASSUME NEW x \in Sender, conn'[x] = "open"
      PROVE  \/ x \in client' /\ ghost' = "hangup"
             \/ Framed(Taken(x)' \o (stream'[x] \o tosend[x]))
  <2>1. x = s
    BY <1>6
  <2>2. \/ s \in client' /\ ghost' = "hangup"
        \/ Framed(Taken(s)' \o (stream'[s] \o tosend[s]))
    BY <1>3 DEF d
  <2> QED
    BY <2>1, <2>2
<1> QED
  BY <1>4, <1>5, <1>6 DEF KeepsMessages

LEMMA ConcatOfThree ==
    \A a, b, c \in Seq(Unit) : (a \o b) \o c = a \o (b \o c)
BY ConcatAssociative

LEMMA GhostsClient ==
    ASSUME ConnInv, ghost \in Serving
    PROVE  /\ peer = {} /\ receiver \notin Receiving /\ client # {}
           /\ \A s \in client : /\ s \in Sender /\ client = {s} /\ conn[s] = "open"
                                /\ \A x \in Sender \ {s} : conn[x] # "open"
BY DEF ConnInv, OneListener, OneClient, Connected, Idle, Serving, Receiving

LEMMA ReceiversPeer ==
    ASSUME ConnInv, receiver \in Receiving
    PROVE  /\ client = {} /\ ghost \notin Serving /\ peer # {}
           /\ \A s \in peer : /\ s \in Sender /\ peer = {s} /\ conn[s] = "open"
                              /\ \A x \in Sender \ {s} : conn[x] # "open"
BY DEF ConnInv, OneListener, OneClient, Connected, Idle, Serving, Receiving

LEMMA TakenTypes ==
    ASSUME FlowInv, NEW s \in Sender
    PROVE  /\ Taken(s) \in Seq(Unit) /\ stream[s] \in Seq(Unit) /\ tosend[s] \in Seq(Unit)
           /\ stream[s] \o tosend[s] \in Seq(Unit) /\ Text(s) \in Seq(Unit)
<1>1. /\ ghost = "pixels" => header \in Heads
      /\ receiver = "packet" => packet \in Heads
  BY DEF FlowInv, HeaderRead
<1>2. Taken(s) \in Seq(Unit)
  BY <1>1, UnitTypes DEF Taken
<1>3. stream[s] \in Seq(Unit) /\ tosend[s] \in Seq(Unit)
  BY DEF FlowInv, FlowTypes
<1> QED
  BY <1>2, <1>3, ConcatProperties DEF Text

-----------------------------------------------------------------------------
LEMMA BeginFlow ==
    ASSUME FlowInv, ConnInv, ConnInv', NEW s \in Sender, Begin(s)
    PROVE  FlowInv'
<1>1. PICK h \in Headers(s) : Sends(s, h, Room) /\ tosend' = [tosend EXCEPT ![s] = Pieces(h)]
  BY DEF Begin
<1>2. /\ tosend[s] = <<>> /\ begun' \in [Sender -> Nat]
      /\ UNCHANGED <<ghost, client, header, pixels, window, peer, receiver, packet>>
      /\ conn[s] = "open" /\ Len(stream[s]) < Room /\ UNCHANGED conn
      /\ stream' = [stream EXCEPT ![s] = Append(stream[s], h)]
  <2>1. begun' \in [Sender -> Nat]
    <3>1. begun \in [Sender -> Nat] /\ Numbers \in Nat \ {0}
      BY RenderersAssumption DEF FlowInv, FlowTypes
    <3>2. begun[s] + 1 \in Nat /\ (begun[s] + 1) % Numbers \in Nat
      BY <3>1
    <3>3. \E n \in Nat : begun' = [begun EXCEPT ![s] = n]
      BY <3>2 DEF Begin
    <3> QED
      BY <3>1, <3>3
  <2> QED
    BY <1>1, <2>1 DEF Begin, Sends, ServersVars, ghostVars, receiverVars, local
<1>3. /\ stream \in [Sender -> Seq(Unit)] /\ tosend \in [Sender -> Seq(Unit)]
      /\ begun \in [Sender -> Nat] /\ \A x \in Sender : Len(stream[x]) <= Room
      /\ pixels \in Seq(Unit \cup {Raw})
  BY DEF FlowInv, FlowTypes
<1>4. h \in Heads
  <2>1. CASE h \in GhostHeaders(s)
    BY <1>3, <2>1 DEF GhostHeaders, Heads
  <2>2. CASE h \in PacketHeaders(s)
    <3>1. PacketLimit \in Nat
      BY RenderersAssumption
    <3>2. 1 \in 1 .. PacketLimit + 1
      BY <3>1
    <3> QED
      BY <2>2, <3>2 DEF PacketHeaders, Heads
  <2> QED
    BY <2>1, <2>2 DEF Headers
<1>5. stream[s] \in Seq(Unit) /\ h \in Unit /\ <<h>> \in Seq(Unit) /\ Pieces(h) \in Seq(Unit)
  BY <1>3, <1>4, UnitTypes, PiecesOfHead
<1>6. /\ Append(stream[s], h) \in Seq(Unit)
      /\ Len(Append(stream[s], h)) = Len(stream[s]) + 1
      /\ Append(stream[s], h) = stream[s] \o <<h>> /\ Len(stream[s]) \in Nat /\ Room \in Nat
  BY <1>5, AppendProperties, AppendIsConcat, LenProperties, RenderersAssumption
<1>7. FlowTypes'
  <2>1. stream' \in [Sender -> Seq(Unit)]
    BY <1>2, <1>3, <1>6
  <2>2. tosend' \in [Sender -> Seq(Unit)] /\ begun' \in [Sender -> Nat]
    BY <1>1, <1>2, <1>3, <1>5
  <2>3. ASSUME NEW x \in Sender
        PROVE  Len(stream'[x]) <= Room
    <3>1. CASE x = s
      BY <1>2, <1>3, <1>6, <3>1
    <3>2. CASE x # s
      BY <1>2, <1>3, <3>2
    <3> QED
      BY <3>1, <3>2
  <2> QED
    BY <1>2, <1>3, <2>1, <2>2, <2>3 DEF FlowTypes
<1>8. ASSUME NEW x \in Sender, x # s
      PROVE  stream'[x] = stream[x] /\ tosend'[x] = tosend[x] /\ Text(x)' = Text(x)
  <2>1. stream'[x] = stream[x] /\ tosend'[x] = tosend[x]
    BY <1>1, <1>2, <1>3, <1>8
  <2> QED
    BY <1>2, <2>1 DEF Text, Taken
<1>9. Quiet'
  BY <1>2, <1>8 DEF FlowInv, Quiet
<1>10. Text(s)' = Text(s) \o (<<h>> \o Pieces(h))
  <2>1. Text(s)' = Taken(s) \o ((stream[s] \o <<h>>) \o Pieces(h))
    <3>1. stream'[s] = stream[s] \o <<h>> /\ tosend'[s] = Pieces(h)
      BY <1>1, <1>2, <1>3, <1>6
    <3>2. Taken(s)' = Taken(s)
      BY <1>2 DEF Taken
    <3> QED
      BY <3>1, <3>2 DEF Text
  <2>2. Text(s) = Taken(s) \o stream[s]
    BY <1>2, <1>5, ConcatEmptySeq DEF Text
  <2>3. Taken(s) \in Seq(Unit)
    BY TakenTypes
  <2>4. Taken(s) \o ((stream[s] \o <<h>>) \o Pieces(h))
           = (Taken(s) \o stream[s]) \o (<<h>> \o Pieces(h))
    <3> DEFINE new == <<h>>
               rest == Pieces(h)
    <3>1. new \in Seq(Unit) /\ rest \in Seq(Unit)
      BY <1>5
    <3> HIDE DEF new, rest
    <3>2. (stream[s] \o new) \o rest = stream[s] \o (new \o rest)
      BY <1>5, <3>1, ConcatOfThree
    <3>3. new \o rest \in Seq(Unit)
      BY <3>1, ConcatFacts
    <3> DEFINE message == new \o rest
    <3> HIDE DEF message
    <3>4. message \in Seq(Unit)
      BY <3>3 DEF message
    <3>5. (Taken(s) \o stream[s]) \o message = Taken(s) \o (stream[s] \o message)
      BY <1>5, <2>3, <3>4, ConcatOfThree
    <3> QED
      BY <3>2, <3>5 DEF new, rest, message
  <2> QED
    BY <2>1, <2>2, <2>4
<1>11. Messages'
  <2> SUFFICES ASSUME NEW x \in Sender, ~(x \in client' /\ ghost' = "hangup")
               PROVE  Framed(Text(x))'
    BY DEF Messages
  <2>1. Framed(Text(x)) /\ Text(x) \in Seq(Unit)
    BY <1>2, TakenTypes DEF FlowInv, Messages
  <2>2. Framed(Text(x)')
    <3>1. CASE x = s
      BY <1>4, <1>10, <2>1, <3>1, FramedAdd
    <3>2. CASE x # s
      BY <1>8, <2>1, <3>2
    <3> QED
      BY <3>1, <3>2
  <2> QED
    BY <2>2
<1>12. HeaderRead' /\ GhostFramesAreWhole'
  BY <1>2 DEF FlowInv, HeaderRead, GhostFramesAreWhole
<1> QED
  BY <1>7, <1>9, <1>11, <1>12 DEF FlowInv

LEMMA ContinueFlow ==
    ASSUME FlowInv, ConnInv, ConnInv', NEW s \in Sender, Continue(s)
    PROVE  FlowInv'
<1> DEFINE u == Head(tosend[s])
           t == Tail(tosend[s])
<1>1. /\ tosend[s] # <<>> /\ UNCHANGED <<begun, ghost, client, header, pixels, window>>
      /\ UNCHANGED <<peer, receiver, packet>>
      /\ conn[s] = "open" /\ Len(stream[s]) < Room /\ UNCHANGED conn
      /\ stream' = [stream EXCEPT ![s] = Append(stream[s], u)]
      /\ tosend' = [tosend EXCEPT ![s] = t]
  BY DEF Continue, Sends, ServersVars, ghostVars, receiverVars, local
<1>2. /\ stream \in [Sender -> Seq(Unit)] /\ tosend \in [Sender -> Seq(Unit)]
      /\ begun \in [Sender -> Nat] /\ \A x \in Sender : Len(stream[x]) <= Room
      /\ pixels \in Seq(Unit \cup {Raw})
      /\ stream[s] \in Seq(Unit) /\ tosend[s] \in Seq(Unit)
  BY DEF FlowInv, FlowTypes
<1>3. u \in Unit /\ t \in Seq(Unit) /\ <<u>> \in Seq(Unit)
  BY <1>1, <1>2, HeadTailProperties
<1>4. tosend[s] = <<u>> \o t
  <2>1. /\ Len(tosend[s]) \in Nat \ {0} /\ Len(t) = Len(tosend[s]) - 1
        /\ \A i \in 1 .. Len(t) : t[i] = tosend[s][i + 1]
        /\ u = tosend[s][1]
    BY <1>1, <1>2, HeadTailProperties, EmptySeq
  <2>2. /\ <<u>> \o t \in Seq(Unit) /\ Len(<<u>> \o t) = 1 + Len(t)
        /\ \A i \in 1 .. 1 + Len(t) : (<<u>> \o t)[i] = IF i <= 1 THEN <<u>>[i] ELSE t[i - 1]
    BY <1>3, ConcatProperties
  <2> HIDE DEF u, t
  <2>3. ASSUME NEW i \in 1 .. Len(tosend[s])
        PROVE  tosend[s][i] = (<<u>> \o t)[i]
    <3>1. CASE i = 1
      BY <2>1, <2>2, <3>1
    <3>2. CASE i # 1
      <4>1. i - 1 \in 1 .. Len(t) /\ i - 1 + 1 = i /\ ~(i <= 1) /\ i \in 1 .. 1 + Len(t)
        BY <2>1, <3>2
      <4> QED
        BY <2>1, <2>2, <4>1
    <3> QED
      BY <3>1, <3>2
  <2>4. Len(tosend[s]) = Len(<<u>> \o t)
    BY <2>1, <2>2
  <2> QED
    BY <1>2, <2>2, <2>3, <2>4, SeqEqual
<1> HIDE DEF u, t
<1>5. /\ Append(stream[s], u) \in Seq(Unit)
      /\ Len(Append(stream[s], u)) = Len(stream[s]) + 1
      /\ Append(stream[s], u) = stream[s] \o <<u>> /\ Len(stream[s]) \in Nat /\ Room \in Nat
  BY <1>2, <1>3, AppendProperties, AppendIsConcat, LenProperties, RenderersAssumption
<1>6. FlowTypes'
  <2>1. stream' \in [Sender -> Seq(Unit)]
    BY <1>1, <1>2, <1>5
  <2>2. tosend' \in [Sender -> Seq(Unit)] /\ begun' \in [Sender -> Nat]
    BY <1>1, <1>2, <1>3
  <2>3. ASSUME NEW x \in Sender
        PROVE  Len(stream'[x]) <= Room
    <3>1. CASE x = s
      BY <1>1, <1>2, <1>5, <3>1
    <3>2. CASE x # s
      BY <1>1, <1>2, <3>2
    <3> QED
      BY <3>1, <3>2
  <2> QED
    BY <1>1, <1>2, <2>1, <2>2, <2>3 DEF FlowTypes
<1>7. ASSUME NEW x \in Sender
      PROVE  stream'[x] \o tosend'[x] = stream[x] \o tosend[x]
  <2>1. CASE x = s
    <3>1. stream'[s] = stream[s] \o <<u>> /\ tosend'[s] = t
      BY <1>1, <1>2, <1>5
    <3>2. (stream[s] \o <<u>>) \o t = stream[s] \o (<<u>> \o t)
      BY <1>2, <1>3, ConcatAssociative
    <3> QED
      BY <1>4, <2>1, <3>1, <3>2
  <2>2. CASE x # s
    BY <1>1, <1>2, <2>2
  <2> QED
    BY <2>1, <2>2
<1>8. Messages'
  <2>1. ASSUME NEW x \in Sender
        PROVE  Text(x)' = Text(x)
    BY <1>1, <1>7 DEF Text, Taken
  <2> QED
    BY <1>1, <2>1 DEF FlowInv, Messages
<1>9. Quiet'
  <2>1. \A x \in Sender : x # s => stream'[x] = stream[x] /\ tosend'[x] = tosend[x]
    BY <1>1, <1>2
  <2> QED
    BY <1>1, <2>1 DEF FlowInv, Quiet
<1>10. HeaderRead' /\ GhostFramesAreWhole'
  BY <1>1 DEF FlowInv, HeaderRead, GhostFramesAreWhole
<1> QED
  BY <1>6, <1>8, <1>9, <1>10 DEF FlowInv

LEMMA SenderFlow == ASSUME FlowInv, ConnInv, ConnInv', SenderNext PROVE FlowInv'
<1>1. ASSUME UNCHANGED <<stream, tosend, begun, ghost, client, header, pixels, window, peer, receiver, packet>>,
             \A s \in Sender : conn'[s] # "open" => conn[s] # "open"
      PROVE  FlowInv'
  <2>1. FlowTypes' /\ Quiet' /\ HeaderRead' /\ GhostFramesAreWhole'
    BY <1>1 DEF FlowInv, FlowTypes, Quiet, HeaderRead, GhostFramesAreWhole
  <2>2. ASSUME NEW s \in Sender
        PROVE  Text(s)' = Text(s)
    BY <1>1 DEF Text, Taken
  <2>3. Messages'
    BY <1>1, <2>2 DEF FlowInv, Messages
  <2> QED
    BY <2>1, <2>3 DEF FlowInv
<1>2. ASSUME NEW s \in Sender, Connects(s) \/ End(s)
      PROVE  FlowInv'
  <2>1. UNCHANGED <<stream, tosend, begun, ghost, client, header, pixels, window, peer, receiver, packet>>
    BY <1>2 DEF Connects, Connect, End, Shuts, ServersVars, ghostVars, receiverVars, local
  <2>2. \A x \in Sender : conn'[x] # "open" => conn[x] # "open"
    <3>1. CASE conn[s] = "new" /\ conn' = [conn EXCEPT ![s] = "waiting"]
      BY <3>1 DEF ConnInv, ConnTypes
    <3>2. CASE conn' = conn
      BY <3>2
    <3> QED
      BY <1>2, <3>1, <3>2 DEF Connects, Connect, End, Shuts
  <2> QED
    BY <1>1, <2>1, <2>2
<1> QED
  BY <1>2, BeginFlow, ContinueFlow DEF SenderNext

\* The first unit and what follows it.
LEMMA Behead ==
    ASSUME NEW q \in Seq(Unit), NEW t \in Seq(Unit), 1 \in 1 .. Len(q)
    PROVE  q \o t = <<q[1]>> \o (SubSeq(q, 1 + 1, Len(q)) \o t)
<1> DEFINE u == <<q[1]>>
           d == SubSeq(q, 1 + 1, Len(q))
<1>1. u \in Seq(Unit) /\ Len(u) = 1 /\ u[1] = q[1] /\ Len(q) \in Nat /\ 1 \in 0 .. Len(q)
  BY ElementOfSeq
<1> HIDE DEF u
<1>2. d \in Seq(Unit) /\ Len(d) = Len(q) - 1 /\ \A j \in 1 .. Len(q) - 1 : d[j] = q[1 + j]
  BY <1>1, Suffix
<1> HIDE DEF d
<1>3. /\ u \o d \in Seq(Unit) /\ Len(u \o d) = Len(u) + Len(d)
      /\ \A i \in 1 .. Len(u) + Len(d) : (u \o d)[i] = IF i <= Len(u) THEN u[i] ELSE d[i - Len(u)]
  <2>1. d \in Seq(Unit) /\ u \in Seq(Unit)
    BY <1>1, <1>2
  <2> QED
    BY <2>1, ConcatProperties
<1>4. ASSUME NEW i \in 1 .. Len(q)
      PROVE  q[i] = (u \o d)[i]
  <2>1. CASE i = 1
    BY <1>1, <1>2, <1>3, <2>1
  <2>2. CASE i # 1
    <3>1. i - 1 \in 1 .. Len(q) - 1 /\ 1 + (i - 1) = i /\ ~(i <= 1) /\ i \in 1 .. Len(u) + Len(d)
      BY <1>1, <1>2, <2>2
    <3> QED
      BY <1>1, <1>2, <1>3, <3>1
  <2> QED
    BY <2>1, <2>2
<1>5. q = u \o d
  <2>1. Len(q) = Len(u \o d) /\ u \o d \in Seq(Unit)
    BY <1>1, <1>2, <1>3
  <2> QED
    BY <1>4, <2>1, SeqEqual
<1>6. (u \o d) \o t = u \o (d \o t)
  <2>1. u \in Seq(Unit) /\ d \in Seq(Unit)
    BY <1>1, <1>2
  <2> QED
    BY <2>1, ConcatOfThree
<1> QED
  BY <1>5, <1>6 DEF u, d

-----------------------------------------------------------------------------
\* Steps of libcyxv.
LEMMA GhostFlow ==
    ASSUME FlowInv, ConnInv, ConnInv', GhostNext, UNCHANGED receiverVars, SendersFollow
    PROVE  FlowInv'
<1> USE DEF local
<1>1. UNCHANGED <<peer, receiver, packet>>
  BY DEF receiverVars
<1>2. CASE Bind \/ BindFails \/ OpenDisplay \/ Accept \/ StreamEnds \/ Draw \/ NotDrawn
  <2>1. UNCHANGED <<stream, pixels, header>>
    BY <1>2 DEF Bind, BindFails, OpenDisplay, Accept, StreamEnds, Draw, NotDrawn, wire
  <2>2. conn' = conn \/ \E s \in Sender : Accepts(s)
    BY <1>2 DEF Bind, BindFails, OpenDisplay, Accept, StreamEnds, Draw, NotDrawn, wire
  <2>3. ghost # "hangup"
    BY <1>2 DEF Bind, BindFails, OpenDisplay, Accept, StreamEnds, Draw, NotDrawn
  <2>4. ASSUME NEW s \in Sender
        PROVE  Taken(s)' = Taken(s) \/ (s \in client' /\ ghost' = "hangup")
    <3>1. CASE StreamEnds
      <4>1. ghost' = "hangup" /\ client' = client /\ ghost \in Serving
        BY <3>1 DEF StreamEnds, Serving
      <4>2. CASE s \in client
        BY <4>1, <4>2
      <4>3. CASE s \notin client
        BY <1>1, <4>1, <4>3 DEF Taken
      <4> QED
        BY <4>2, <4>3
    <3>2. CASE Bind \/ BindFails \/ OpenDisplay \/ Accept \/ Draw \/ NotDrawn
      <4>1. ghost # "pixels" /\ ghost' # "pixels"
        BY <3>2 DEF Bind, BindFails, OpenDisplay, Accept, Draw, NotDrawn
      <4> QED
        BY <1>1, <4>1 DEF Taken
    <3> QED
      BY <1>2, <3>1, <3>2
  <2>5. KeepsMessages
    BY <2>1, <2>2, <2>3, <2>4, NothingRead
  <2>6. ghost' \notin {"pixels", "draw"}
    BY <1>2 DEF Bind, BindFails, OpenDisplay, Accept, StreamEnds, Draw, NotDrawn
  <2>7. HeaderRead'
    BY <1>1, <2>1, <2>6 DEF FlowInv, HeaderRead, Drawable, Acceptable
  <2>8. GhostFramesAreWhole'
    <3>1. CASE ~Draw
      <4>1. window' = window
        BY <1>2, <3>1 DEF Bind, BindFails, OpenDisplay, Accept, StreamEnds, NotDrawn
      <4> QED
        BY <4>1 DEF FlowInv, GhostFramesAreWhole
    <3>2. CASE Draw
      <4> DEFINE n == header.size
                 w == SubSeq(pixels, 1, n)
      <4>1. /\ ghost = "draw" /\ header \in Heads /\ header.type = "ghost"
            /\ n \in 1 .. GhostLimit /\ GhostLimit \in Nat /\ n <= Len(pixels)
            /\ \A k \in 1 .. n : pixels[k] = Piece(header, k)
            /\ pixels \in Seq(Unit \cup {Raw}) /\ window' = w
        BY <3>2, RenderersAssumption DEF Draw, FlowInv, FlowTypes, HeaderRead, Drawable
      <4>2. PieceCount(header) = n
        BY <4>1 DEF PieceCount
      <4> HIDE DEF n
      <4>3. /\ Pieces(header) \in Seq(Unit) /\ Len(Pieces(header)) = n
            /\ \A k \in 1 .. n : Pieces(header)[k] = Piece(header, k)
        BY <4>1, <4>2, PiecesOfHead
      <4>4. \A k \in 1 .. n : pixels[k] \in Unit
        BY <4>1, <4>3, ElementOfSeq
      <4>5. /\ w \in Seq(Unit) /\ Len(w) = n - 1 + 1
            /\ \A k \in 1 .. n - 1 + 1 : w[k] = pixels[1 + k - 1]
        BY <4>1, <4>4, SubSeqProperties
      <4> HIDE DEF w
      <4>6. Len(w) = n /\ \A k \in 1 .. n : w[k] = Piece(header, k)
        <5>1. \A k \in 1 .. n : k \in 1 .. n - 1 + 1 /\ 1 + k - 1 = k
          BY <4>1
        <5> QED
          BY <4>1, <4>5, <5>1
      <4>7. w = Pieces(header)
        BY <4>3, <4>5, <4>6, SeqEqual
      <4>8. window'[1].of = header
        <5>1. window'[1] = Piece(header, 1)
          BY <4>1, <4>6
        <5> QED
          BY <5>1 DEF Piece
      <4> QED
        BY <4>1, <4>7, <4>8 DEF GhostFramesAreWhole
    <3> QED
      BY <3>1, <3>2
  <2> QED
    BY <2>5, <2>7, <2>8, FlowFollows
<1>3. CASE OpenDisplayFails \/ HangUp \/ XErrorExits
  <2>1. \E S : Closes(S)
    BY <1>3 DEF OpenDisplayFails, HangUp, XErrorExits, StopsListening
  <2>2. /\ ghost' \in {"ended", "accept", "exited"} /\ client' = {} /\ receiver \notin Receiving
        /\ (header' = header \/ header' = NoHeader) /\ window' \in {window, <<>>}
    <3>1. CASE HangUp
      BY <3>1, GhostsClient DEF HangUp, Serving
    <3>2. CASE OpenDisplayFails
      BY <3>2 DEF OpenDisplayFails, ConnInv, OneClient, OneListener, Idle, Serving, Receiving
    <3>3. CASE XErrorExits
      BY <3>3, GhostsClient DEF XErrorExits, Serving
    <3> QED
      BY <1>3, <3>1, <3>2, <3>3
  <2>3. peer' = {}
    BY <1>1, <2>2 DEF ConnInv, OneClient
  <2>4. \A s \in Sender : conn'[s] # "open"
    BY <2>2, <2>3 DEF ConnInv, Connected
  <2>5. pixels' \in Seq(Unit \cup {Raw})
    <3>1. pixels' = pixels \/ pixels' = <<>>
      BY <1>3 DEF OpenDisplayFails, HangUp, XErrorExits
    <3> QED
      BY <3>1, EmptySeq DEF FlowInv, FlowTypes
  <2>6. KeepsMessages
    BY <2>1, <2>4, <2>5, NothingLeft
  <2>7. receiver' # "packet"
    BY <1>1, <2>2 DEF Receiving
  <2>8. HeaderRead' /\ GhostFramesAreWhole'
    BY <2>2, <2>7 DEF FlowInv, HeaderRead, GhostFramesAreWhole, Drawable
  <2> QED
    BY <2>6, <2>8, FlowFollows
<1>4. ASSUME ghost \in Serving, NEW s \in client, conn' = conn
      PROVE  /\ s \in Sender /\ conn[s] = "open" /\ \A x \in Sender \ {s} : conn[x] # "open"
             /\ s \notin peer /\ receiver' # "packet" /\ peer' = {}
             /\ Len(stream[s]) \in Nat
             /\ stream[s] \in Seq(Unit) /\ tosend[s] \in Seq(Unit)
             /\ stream[s] \o tosend[s] \in Seq(Unit)
             /\ pixels \in Seq(Unit \cup {Raw})
  <2>1. /\ s \in Sender /\ conn[s] = "open" /\ \A x \in Sender \ {s} : conn[x] # "open"
        /\ peer = {} /\ receiver \notin Receiving
    BY <1>4, GhostsClient
  <2>2. stream[s] \in Seq(Unit) /\ tosend[s] \in Seq(Unit) /\ pixels \in Seq(Unit \cup {Raw})
    BY <2>1 DEF FlowInv, FlowTypes
  <2> QED
    BY <1>1, <2>1, <2>2, LenProperties, ConcatProperties DEF Receiving
<1>5. CASE ReadHeader
  <2>1. PICK s \in client :
           /\ HasSent(s, 1) /\ Takes(s, 1)
           /\ \/ /\ Drawable(stream[s][1]) /\ header' = stream[s][1]
                 /\ pixels' = Grown(header'.size) /\ ghost' = "pixels"
              \/ ghost' = "hangup" /\ UNCHANGED <<header, pixels>>
    BY <1>5 DEF ReadHeader
  <2>2. ghost = "header" /\ conn' = conn /\ client' = client /\ window' = window
    BY <1>5 DEF ReadHeader
  <2>3. /\ s \in Sender /\ conn[s] = "open" /\ \A x \in Sender \ {s} : conn[x] # "open"
        /\ s \notin peer /\ receiver' # "packet" /\ peer' = {} /\ Len(stream[s]) \in Nat
        /\ stream[s] \in Seq(Unit) /\ tosend[s] \in Seq(Unit) /\ stream[s] \o tosend[s] \in Seq(Unit)
        /\ pixels \in Seq(Unit \cup {Raw})
    BY <1>4, <2>2 DEF Serving
  <2>4. 1 \in 0 .. Len(stream[s]) /\ 1 \in 1 .. Len(stream[s])
    BY <2>1, <2>3 DEF HasSent
  <2>5. GhostFramesAreWhole'
    BY <2>2 DEF FlowInv, GhostFramesAreWhole
  <2>6. CASE ghost' = "hangup" /\ UNCHANGED <<header, pixels>>
    <3>1. HeaderRead'
      BY <2>3, <2>6 DEF FlowInv, HeaderRead, Drawable
    <3>2. KeepsMessages
      BY <2>1, <2>2, <2>3, <2>4, <2>6, SomeRead
    <3> QED
      BY <2>5, <3>1, <3>2, FlowFollows
  <2>7. CASE /\ Drawable(stream[s][1]) /\ header' = stream[s][1]
             /\ pixels' = Grown(header'.size) /\ ghost' = "pixels"
    <3> DEFINE h == stream[s][1]
               d == SubSeq(stream[s], 1 + 1, Len(stream[s]))
    <3>1. Framed(stream[s] \o tosend[s])
      <4>1. Framed(Text(s)) /\ Taken(s) = <<>>
        BY <2>2, <2>3 DEF FlowInv, Messages, Taken
      <4>2. Text(s) = stream[s] \o tosend[s]
        BY <2>3, <4>1, ConcatEmptySeq DEF Text
      <4> QED
        BY <4>1, <4>2
    <3>2. h \in Heads /\ stream[s] \o tosend[s] = <<h>> \o (d \o tosend[s])
      <4>1. (stream[s] \o tosend[s])[1] = h /\ stream[s] \o tosend[s] # <<>>
        BY <2>3, <2>4, ConcatFacts
      <4>2. h \in Heads
        BY <2>3, <3>1, <4>1, FramedFirst
      <4> QED
        BY <2>3, <2>4, <4>2, Behead
    <3>3. Taken(s)' = <<h>>
      BY <2>2, <2>7 DEF Taken
    <3>4. Framed(Taken(s)' \o (d \o tosend[s]))
      BY <3>1, <3>2, <3>3
    <3> HIDE DEF d
    <3>5. /\ pixels' \in Seq(Unit \cup {Raw})
          /\ h.size <= Len(pixels')
      <4> DEFINE n == h.size
      <4>1. n \in Nat /\ Len(pixels) \in Nat /\ pixels' = Grown(n)
        BY <2>3, <2>7, RenderersAssumption, LenProperties DEF Drawable
      <4> HIDE DEF n
      <4> DEFINE p == [k \in 1 .. n |-> Raw]
      <4>2. p \in Seq(Unit \cup {Raw}) /\ Len(p) = n
        BY <4>1
      <4> HIDE DEF p
      <4>3. pixels' = IF n > Len(pixels) THEN p ELSE pixels
        BY <4>1 DEF Grown, p
      <4> QED
        BY <2>3, <4>1, <4>2, <4>3 DEF n
    <3>6. HeaderRead'
      <4>1. header' \in Heads /\ Drawable(header') /\ header' # NoHeader /\ header'.size <= Len(pixels')
        BY <2>7, <3>2, <3>5 DEF Drawable, NoHeader
      <4> QED
        BY <2>3, <2>7, <4>1 DEF HeaderRead, Drawable
    <3>7. KeepsMessages
      BY <2>1, <2>2, <2>3, <2>4, <3>4, <3>5, SomeRead DEF d
    <3> QED
      BY <2>5, <3>6, <3>7, FlowFollows
  <2> QED
    BY <2>1, <2>6, <2>7
<1>6. CASE MallocFails
  <2>1. PICK s \in client : HasSent(s, 1) /\ Takes(s, 1)
    BY <1>6 DEF MallocFails
  <2>2. /\ ghost = "header" /\ ghost' = "hangup" /\ conn' = conn /\ client' = client
        /\ window' = window /\ header' = header /\ pixels' = <<>>
    BY <1>6 DEF MallocFails
  <2>3. /\ s \in Sender /\ conn[s] = "open" /\ \A x \in Sender \ {s} : conn[x] # "open"
        /\ receiver' # "packet" /\ Len(stream[s]) \in Nat
    BY <1>4, <2>2 DEF Serving
  <2>4. 1 \in 0 .. Len(stream[s]) /\ pixels' \in Seq(Unit \cup {Raw})
    BY <2>1, <2>2, <2>3, EmptySeq DEF HasSent
  <2>5. HeaderRead' /\ GhostFramesAreWhole'
    BY <2>2, <2>3 DEF FlowInv, HeaderRead, GhostFramesAreWhole, Drawable
  <2>6. KeepsMessages
    BY <2>1, <2>2, <2>3, <2>4, SomeRead
  <2> QED
    BY <2>5, <2>6, FlowFollows
<1>7. CASE ReadPixels
  <2> DEFINE n == header.size
  <2>1. PICK s \in client :
           /\ HasSent(s, n) /\ Takes(s, n)
           /\ pixels' = [k \in DOMAIN pixels |-> IF k <= n THEN stream[s][k] ELSE pixels[k]]
    BY <1>7 DEF ReadPixels
  <2>2. /\ ghost = "pixels" /\ ghost' = "draw" /\ conn' = conn /\ client' = client
        /\ window' = window /\ header' = header
    BY <1>7 DEF ReadPixels
  <2>3. /\ s \in Sender /\ conn[s] = "open" /\ \A x \in Sender \ {s} : conn[x] # "open"
        /\ s \notin peer /\ receiver' # "packet" /\ peer' = {} /\ Len(stream[s]) \in Nat
        /\ stream[s] \in Seq(Unit) /\ tosend[s] \in Seq(Unit) /\ stream[s] \o tosend[s] \in Seq(Unit)
        /\ pixels \in Seq(Unit \cup {Raw})
    BY <1>4, <2>2 DEF Serving
  <2>4. /\ header \in Heads /\ header.type = "ghost" /\ n \in 1 .. GhostLimit /\ GhostLimit \in Nat
        /\ n <= Len(pixels) /\ PieceCount(header) = n
    BY <2>2, RenderersAssumption DEF FlowInv, HeaderRead, Drawable, PieceCount
  <2> DEFINE q == stream[s] \o tosend[s]
  <2>5. n \in 0 .. Len(stream[s])
    BY <2>1, <2>3, <2>4 DEF HasSent
  <2>6. Framed(<<header>> \o q)
    <3>1. Framed(Text(s)) /\ Taken(s) = <<header>>
      BY <2>2, <2>3 DEF FlowInv, Messages, Taken
    <3> QED
      BY <3>1 DEF Text
  <2>7. (\A k \in 1 .. n : q[k] = Piece(header, k)) /\ Framed(SubSeq(q, n + 1, Len(q)))
    BY <2>3, <2>4, <2>6, FramedTake
  <2>8. SubSeq(stream[s], n + 1, Len(stream[s])) \o tosend[s] = SubSeq(q, n + 1, Len(q))
    BY <2>3, <2>5, Drop
  <2>9. Framed(Taken(s)' \o (SubSeq(stream[s], n + 1, Len(stream[s])) \o tosend[s]))
    <3>1. Taken(s)' = <<>>
      BY <2>2, <2>3 DEF Taken
    <3>2. SubSeq(q, n + 1, Len(q)) \in Seq(Unit)
      <4>1. SubSeq(stream[s], n + 1, Len(stream[s])) \in Seq(Unit)
        BY <2>3, <2>5, Drop
      <4> QED
        BY <2>3, <2>8, <4>1, ConcatFacts
    <3>3. <<>> \o SubSeq(q, n + 1, Len(q)) = SubSeq(q, n + 1, Len(q))
      BY <3>2, ConcatEmptySeq
    <3> QED
      BY <2>7, <2>8, <3>1, <3>3
  <2>10. \A k \in 1 .. n : stream[s][k] = Piece(header, k)
    <3>1. \A k \in 1 .. n : k \in 1 .. Len(stream[s])
      BY <2>3, <2>5
    <3>2. \A k \in 1 .. Len(stream[s]) : q[k] = stream[s][k]
      BY <2>3, ConcatFacts
    <3> QED
      BY <2>7, <3>1, <3>2
  <2> HIDE DEF n, q
  <2>11. /\ pixels' \in Seq(Unit \cup {Raw}) /\ Len(pixels') = Len(pixels)
         /\ \A k \in 1 .. n : pixels'[k] = Piece(header, k)
    <3>1. Len(pixels) \in Nat /\ DOMAIN pixels = 1 .. Len(pixels)
      BY <2>3
    <3>2. \A k \in 1 .. Len(pixels) : (IF k <= n THEN stream[s][k] ELSE pixels[k]) \in Unit \cup {Raw}
      <4> TAKE k \in 1 .. Len(pixels)
      <4>1. k <= n => k \in 1 .. Len(stream[s])
        BY <2>3, <2>4, <2>5
      <4>2. pixels[k] \in Unit \cup {Raw}
        BY <2>3, ElementOfSeq
      <4>3. k <= n => stream[s][k] \in Unit
        BY <2>3, <4>1, ElementOfSeq
      <4> QED
        BY <4>2, <4>3
    <3>3. pixels' = [k \in 1 .. Len(pixels) |-> IF k <= n THEN stream[s][k] ELSE pixels[k]]
      BY <2>1, <3>1
    <3>4. pixels' \in Seq(Unit \cup {Raw}) /\ Len(pixels') = Len(pixels)
      BY <3>1, <3>2, <3>3
    <3>5. \A k \in 1 .. n : k \in 1 .. Len(pixels) /\ k <= n
      BY <2>4, <3>1
    <3>6. \A k \in 1 .. n : pixels'[k] = stream[s][k]
      BY <3>3, <3>5
    <3> QED
      BY <2>10, <3>4, <3>6
  <2>12. HeaderRead'
    <3>1. header \in Heads /\ Drawable(header) /\ header # NoHeader
      BY <2>2 DEF FlowInv, HeaderRead
    <3>2. header'.size = n /\ n <= Len(pixels')
      BY <2>2, <2>4, <2>11 DEF n
    <3> QED
      BY <2>2, <2>3, <2>11, <3>1, <3>2 DEF HeaderRead, Drawable
  <2>13. GhostFramesAreWhole'
    BY <2>2 DEF FlowInv, GhostFramesAreWhole
  <2>14. KeepsMessages
    BY <2>1, <2>2, <2>3, <2>5, <2>9, <2>11, SomeRead
  <2> QED
    BY <2>12, <2>13, <2>14, FlowFollows
<1> QED
  BY <1>2, <1>3, <1>5, <1>6, <1>7 DEF GhostNext

\* Steps of the receiver, and of the X server.
LEMMA ReceiverFlow ==
    ASSUME FlowInv, ConnInv, ConnInv', SendersFollow, UNCHANGED ghostVars,
           \/ ReceiverNext \/ NoDisplay \/ ErrorEnds
           \/ ServeRequest \/ ManagerActs \/ Covered
    PROVE  FlowInv'
<1> USE DEF local
<1>1. UNCHANGED <<client, ghost, header, pixels, window>>
  BY DEF ghostVars
<1>2. GhostFramesAreWhole'
  BY <1>1 DEF FlowInv, GhostFramesAreWhole
<1>3. ASSUME receiver' # "packet"
      PROVE  HeaderRead'
  BY <1>1, <1>3 DEF FlowInv, HeaderRead, Drawable
<1>4. ASSUME UNCHANGED stream, conn' = conn \/ \E s \in Sender : Accepts(s),
             \A s \in Sender : Taken(s)' = Taken(s), HeaderRead'
      PROVE  FlowInv'
  <2>1. \A s \in client : ghost = "hangup" => s \in client' /\ ghost' = "hangup"
    BY <1>1
  <2>2. KeepsMessages
    BY <1>1, <1>4, <2>1, NothingRead
  <2> QED
    BY <1>2, <1>4, <2>2, FlowFollows
<1>5. CASE \/ ReceiverBinds \/ ReceiverBindFails \/ ReceiverAccepts \/ OpenWindow
           \/ NotDecoded \/ Picture \/ Resize \/ CopyRow \/ Put
  <2>1. /\ UNCHANGED stream
        /\ conn' = conn \/ \E s \in Sender : Accepts(s)
        /\ receiver # "packet"
    BY <1>5 DEF ReceiverBinds, ReceiverBindFails, ReceiverAccepts, OpenWindow,
                NotDecoded, Picture, Resize, Remade, CopyRow, Put, wire
  <2>2. receiver' # "packet"
    BY <1>5 DEF ReceiverBinds, ReceiverBindFails, ReceiverAccepts, OpenWindow,
                NotDecoded, Picture, Resize, Remade, CopyRow, Put
  <2>3. \A s \in Sender : Taken(s)' = Taken(s)
    BY <1>1, <2>1, <2>2 DEF Taken
  <2> QED
    BY <1>3, <1>4, <2>1, <2>2, <2>3
<1>6. CASE ServeRequest \/ ManagerActs \/ Covered
  <2>1. UNCHANGED <<stream, conn, receiver, peer, packet>>
    BY <1>6 DEF ServeRequest, ManagerActs, Covered, wire
  <2>2. HeaderRead'
    BY <1>1, <2>1 DEF FlowInv, HeaderRead, Drawable, Acceptable
  <2>3. \A s \in Sender : Taken(s)' = Taken(s)
    BY <1>1, <2>1 DEF Taken
  <2> QED
    BY <1>4, <2>1, <2>2, <2>3
<1>7. CASE PeerEnds \/ NoDisplay \/ ErrorEnds
  <2>1. Ends /\ receiver \in Receiving
    BY <1>7 DEF PeerEnds, NoDisplay, ErrorEnds, Receiving
  <2>2. receiver' = "ended" /\ peer' = {} /\ \E S : Closes(S)
    BY <2>1 DEF Ends, StopsListening
  <2>3. client' = {}
    BY <1>1, <2>1, ReceiversPeer
  <2>4. \A s \in Sender : conn'[s] # "open"
    BY <2>2, <2>3 DEF ConnInv, Connected
  <2>5. pixels' \in Seq(Unit \cup {Raw})
    BY <1>1 DEF FlowInv, FlowTypes
  <2>6. KeepsMessages
    BY <2>2, <2>4, <2>5, NothingLeft
  <2> QED
    BY <1>2, <1>3, <2>2, <2>6, FlowFollows
<1>8. ASSUME receiver \in Receiving, NEW s \in peer, conn' = conn
      PROVE  /\ s \in Sender /\ conn[s] = "open" /\ \A x \in Sender \ {s} : conn[x] # "open"
             /\ s \notin client /\ s \notin client' /\ ghost \notin Serving
             /\ Len(stream[s]) \in Nat
             /\ stream[s] \in Seq(Unit) /\ tosend[s] \in Seq(Unit)
             /\ stream[s] \o tosend[s] \in Seq(Unit)
             /\ pixels' \in Seq(Unit \cup {Raw})
  <2>1. /\ s \in Sender /\ conn[s] = "open" /\ \A x \in Sender \ {s} : conn[x] # "open"
        /\ client = {} /\ ghost \notin Serving
    BY <1>8, ReceiversPeer
  <2>2. stream[s] \in Seq(Unit) /\ tosend[s] \in Seq(Unit) /\ pixels \in Seq(Unit \cup {Raw})
    BY <2>1 DEF FlowInv, FlowTypes
  <2> QED
    BY <1>1, <2>1, <2>2, LenProperties, ConcatFacts
<1>9. CASE ReadPacketHeader
  <2>1. PICK s \in peer : /\ HasSent(s, HeaderUnits(s)) /\ Acceptable(stream[s][1])
                          /\ packet' = stream[s][1] /\ Takes(s, 1)
    BY <1>9 DEF ReadPacketHeader
  <2>2. /\ receiver = "header" /\ receiver' = "packet" /\ conn' = conn /\ peer' = peer
    BY <1>9 DEF ReadPacketHeader
  <2>3. /\ s \in Sender /\ conn[s] = "open" /\ \A x \in Sender \ {s} : conn[x] # "open"
        /\ s \notin client /\ s \notin client' /\ ghost \notin Serving /\ Len(stream[s]) \in Nat
        /\ stream[s] \in Seq(Unit) /\ tosend[s] \in Seq(Unit) /\ stream[s] \o tosend[s] \in Seq(Unit)
        /\ pixels' \in Seq(Unit \cup {Raw})
    BY <1>8, <2>2 DEF Receiving
  <2>4. 1 \in 0 .. Len(stream[s]) /\ 1 \in 1 .. Len(stream[s])
    <3>1. HeaderUnits(s) \in {1, 2} /\ Len(stream[s]) >= HeaderUnits(s)
      BY <2>1 DEF HeaderUnits, HasSent
    <3> QED
      BY <2>3, <3>1
  <2> DEFINE h == stream[s][1]
             d == SubSeq(stream[s], 1 + 1, Len(stream[s]))
  <2>5. Framed(stream[s] \o tosend[s])
    <3>1. Framed(Text(s)) /\ Taken(s) = <<>>
      BY <2>2, <2>3 DEF FlowInv, Messages, Taken
    <3>2. Text(s) = stream[s] \o tosend[s]
      BY <2>3, <3>1, ConcatEmptySeq DEF Text
    <3> QED
      BY <3>1, <3>2
  <2>6. h \in Heads /\ stream[s] \o tosend[s] = <<h>> \o (d \o tosend[s])
    <3>1. (stream[s] \o tosend[s])[1] = h /\ stream[s] \o tosend[s] # <<>>
      BY <2>3, <2>4, ConcatFacts
    <3>2. h \in Heads
      BY <2>3, <2>5, <3>1, FramedFirst
    <3> QED
      BY <2>3, <2>4, <3>2, Behead
  <2>7. Taken(s)' = <<h>>
    BY <2>1, <2>2, <2>3 DEF Taken
  <2>8. Framed(Taken(s)' \o (d \o tosend[s]))
    BY <2>5, <2>6, <2>7
  <2>9. HeaderRead'
    BY <1>1, <2>1, <2>2, <2>6 DEF FlowInv, HeaderRead, Drawable, Acceptable
  <2> HIDE DEF d
  <2>10. KeepsMessages
    BY <2>1, <2>2, <2>3, <2>4, <2>8, SomeRead DEF d
  <2> QED
    BY <1>2, <2>9, <2>10, FlowFollows
<1>10. CASE ReadPacket
  <2>1. PICK s \in peer : HasSent(s, 1) /\ Takes(s, 1)
    BY <1>10 DEF ReadPacket
  <2>2. /\ receiver = "packet" /\ receiver' # "packet" /\ conn' = conn /\ peer' = peer
    BY <1>10 DEF ReadPacket
  <2>3. /\ s \in Sender /\ conn[s] = "open" /\ \A x \in Sender \ {s} : conn[x] # "open"
        /\ s \notin client /\ s \notin client' /\ ghost \notin Serving /\ Len(stream[s]) \in Nat
        /\ stream[s] \in Seq(Unit) /\ tosend[s] \in Seq(Unit) /\ stream[s] \o tosend[s] \in Seq(Unit)
        /\ pixels' \in Seq(Unit \cup {Raw})
    BY <1>8, <2>2 DEF Receiving
  <2>4. 1 \in 0 .. Len(stream[s])
    BY <2>1, <2>3 DEF HasSent
  <2>5. packet \in Heads /\ PieceCount(packet) = 1
    BY <2>2 DEF FlowInv, HeaderRead, Acceptable, PieceCount
  <2> DEFINE q == stream[s] \o tosend[s]
             d == SubSeq(stream[s], 1 + 1, Len(stream[s]))
  <2>6. Framed(<<packet>> \o q)
    <3>1. Framed(Text(s)) /\ Taken(s) = <<packet>>
      BY <2>1, <2>2, <2>3 DEF FlowInv, Messages, Taken
    <3> QED
      BY <3>1 DEF Text
  <2>7. Framed(SubSeq(q, 1 + 1, Len(q)))
    BY <2>3, <2>5, <2>6, FramedTake
  <2>8. d \o tosend[s] = SubSeq(q, 1 + 1, Len(q)) /\ d \in Seq(Unit)
    BY <2>3, <2>4, Drop
  <2>9. Framed(Taken(s)' \o (d \o tosend[s]))
    <3>1. Taken(s)' = <<>>
      BY <2>2, <2>3 DEF Taken
    <3>2. d \o tosend[s] \in Seq(Unit)
      BY <2>3, <2>8, ConcatFacts
    <3>3. <<>> \o (d \o tosend[s]) = d \o tosend[s]
      BY <3>2, ConcatEmptySeq
    <3> QED
      BY <2>7, <2>8, <3>1, <3>3
  <2> HIDE DEF d
  <2>10. KeepsMessages
    BY <2>1, <2>2, <2>3, <2>4, <2>9, SomeRead DEF d
  <2> QED
    BY <1>2, <1>3, <2>2, <2>10, FlowFollows
<1> QED
  BY <1>5, <1>6, <1>7, <1>9, <1>10 DEF ReceiverNext

LEMMA InitFlow == ASSUME Init PROVE FlowInv
<1>1. /\ stream = [s \in Sender |-> <<>>] /\ tosend = [s \in Sender |-> <<>>]
      /\ begun = [s \in Sender |-> 0] /\ pixels = <<>> /\ window = <<>> /\ header = NoHeader
      /\ ghost = "none" /\ receiver = "bind" /\ client = {} /\ peer = {}
  BY DEF Init, WireInit, GhostInit, ReceiverInit
<1>2. <<>> \in Seq(Unit) /\ <<>> \in Seq(Unit \cup {Raw}) /\ Len(<<>>) = 0 /\ Room \in Nat
  BY EmptySeq, RenderersAssumption
<1>3. FlowTypes /\ Quiet
  BY <1>1, <1>2 DEF FlowTypes, Quiet
<1>4. Messages
  <2>1. ASSUME NEW s \in Sender
        PROVE  Text(s) = <<>>
    <3>1. Taken(s) = <<>> /\ stream[s] = <<>> /\ tosend[s] = <<>>
      BY <1>1 DEF Taken
    <3> QED
      BY <1>2, <3>1, ConcatEmptySeq DEF Text
  <2> QED
    BY <2>1, FramedEmpty DEF Messages
<1>5. HeaderRead /\ GhostFramesAreWhole
  BY <1>1 DEF HeaderRead, GhostFramesAreWhole
<1> QED
  BY <1>3, <1>4, <1>5 DEF FlowInv

LEMMA NextFlow == ASSUME FlowInv, ConnInv, [Next]_vars PROVE FlowInv'
<1>1. ConnInv'
  BY NextConn
<1>2. CASE SenderNext
  BY <1>1, <1>2, SenderFlow
<1>3. CASE GhostStep
  BY <1>1, <1>3, GhostFlow DEF GhostStep
<1>4. CASE ReceiverStep \/ ReceiverBreaks \/ XServerStep \/ WindowStep
  BY <1>1, <1>4, ReceiverFlow DEF ReceiverStep, ReceiverBreaks, XServerStep, WindowStep
<1>5. CASE IgniteStep
  <2>1. /\ UNCHANGED <<stream, conn, client, header, pixels, window, peer, receiver, packet>>
        /\ ghost' = "bind" /\ ghost = "none" /\ SendersFollow
    BY <1>5 DEF IgniteStep, Ignite, wire, receiverVars, local, ConnInv, ConnTypes
  <2>2. \A s \in Sender : Taken(s)' = Taken(s)
    BY <2>1 DEF Taken
  <2>3. HeaderRead' /\ GhostFramesAreWhole'
    BY <2>1 DEF FlowInv, HeaderRead, GhostFramesAreWhole, Drawable, Acceptable
  <2>4. KeepsMessages
    BY <2>1, <2>2, NothingRead
  <2> QED
    BY <1>1, <2>1, <2>3, <2>4, FlowFollows
<1>6. CASE UNCHANGED vars
  <2>1. UNCHANGED <<stream, tosend, begun, conn, client, ghost, header, pixels, window>>
    BY <1>6 DEF vars, wire, ghostVars
  <2>2. UNCHANGED <<peer, receiver, packet>>
    BY <1>6 DEF vars, receiverVars, local
  <2>3. FlowTypes' /\ Quiet' /\ HeaderRead' /\ GhostFramesAreWhole'
    BY <2>1, <2>2 DEF FlowInv, FlowTypes, Quiet, HeaderRead, GhostFramesAreWhole, Drawable, Acceptable
  <2>4. Messages'
    BY <2>1, <2>2 DEF FlowInv, Messages, Text, Taken
  <2> QED
    BY <2>3, <2>4 DEF FlowInv
<1> QED
  BY <1>2, <1>3, <1>4, <1>5, <1>6 DEF Next

-----------------------------------------------------------------------------
(* The receiver's pictures                                                 *)

LEMMA RowsFacts ==
    ASSUME NEW n \in Nat, NEW size \in Nat
    PROVE  /\ Rows(n, size) \in Seq(RowRecord) /\ Len(Rows(n, size)) = size
           /\ \A k \in 1 .. size : /\ Rows(n, size)[k] = Row(n, k)
                                   /\ Row(n, k).picture = n /\ Row(n, k).at = k
<1>1. Rows(n, size) = [k \in 1 .. size |-> Row(n, k)]
  BY DEF Rows
<1>2. \A k \in 1 .. size : Row(n, k) \in RowRecord /\ Row(n, k).picture = n /\ Row(n, k).at = k
  BY DEF Row, RowRecord
<1> HIDE DEF Rows, Row
<1> QED
  BY <1>1, <1>2

LEMMA RowEqual ==
    ASSUME NEW r \in RowRecord
    PROVE  r = Row(r.picture, r.at)
BY DEF RowRecord, Row

LEMMA ScreenFacts ==
    ASSUME ScreenTypes
    PROVE  /\ Len(requests) \in Nat
           /\ \A i \in 1 .. Len(requests) :
                 /\ requests[i].type \in {"resize", "attach", "detach", "put"} /\ requests[i].seg \in Nat
                 /\ requests[i].type = "put" => requests[i].picture \in Nat
           /\ \A g \in 1 .. seg :
                 /\ memory[g] \in Seq(RowRecord) /\ Len(memory[g]) \in Nat
                 /\ \A k \in 1 .. Len(memory[g]) : /\ memory[g][k] \in RowRecord
                                                   /\ memory[g][k].picture \in Nat
           /\ rgb.picture \in Nat /\ rgb.size \in Nat
<1>1. requests \in Seq(Request) /\ Len(requests) \in Nat
  BY LenProperties DEF ScreenTypes
<1>2. ASSUME NEW i \in 1 .. Len(requests)
      PROVE  /\ requests[i].type \in {"resize", "attach", "detach", "put"} /\ requests[i].seg \in Nat
             /\ requests[i].type = "put" => requests[i].picture \in Nat
  <2>1. requests[i] \in Request
    BY <1>1, ElementOfSeq
  <2> QED
    BY <2>1 DEF Request
<1>3. ASSUME NEW g \in 1 .. seg
      PROVE  /\ memory[g] \in Seq(RowRecord) /\ Len(memory[g]) \in Nat
             /\ \A k \in 1 .. Len(memory[g]) : /\ memory[g][k] \in RowRecord
                                               /\ memory[g][k].picture \in Nat
  <2>1. memory[g] \in Seq(RowRecord)
    <3>1. memory \in Seq(Seq(RowRecord)) /\ Len(memory) = seg
      BY DEF ScreenTypes
    <3> QED
      BY <3>1, ElementOfSeq
  <2>2. Len(memory[g]) \in Nat
    BY <2>1, LenProperties
  <2>3. \A k \in 1 .. Len(memory[g]) : memory[g][k] \in RowRecord
    BY <2>1, ElementOfSeq
  <2> QED
    BY <2>1, <2>2, <2>3 DEF RowRecord
<1>4. rgb.picture \in Nat /\ rgb.size \in Nat
  BY DEF ScreenTypes
<1> QED
  BY <1>1, <1>2, <1>3, <1>4

\* Before the first picture and after the end.
Starting == receiver \in (ReceiverStates \ Receiving) \cup {"display", "header"}

LEMMA FreshScreen == Fresh /\ copied \in Nat /\ Starting => ScreenInv
<1> SUFFICES ASSUME Fresh, copied \in Nat, Starting
             PROVE  ScreenInv
  OBVIOUS
<1>1. /\ last = 0 /\ seg = 0 /\ sws = 0 /\ rgb = [picture |-> 0, size |-> 0]
      /\ requests = <<>> /\ mapped = {} /\ memory = <<>> /\ screen = [picture |-> 0, rows |-> <<>>]
      /\ Len(requests) = 0 /\ QueueSize \in Nat
      /\ receiver \notin {"resize", "copy", "put", "packet", "decode"}
  BY RenderersAssumption, EmptySeq DEF Fresh, NoPicture, Blank, Starting, ReceiverStates, Receiving
<1>2. screen.picture = 0 /\ screen.rows = <<>> /\ Len(screen.rows) = 0 /\ rgb.picture = 0
  BY <1>1, EmptySeq
<1>3. ScreenTypes
  <2>1. /\ <<>> \in Seq(Request) /\ <<>> \in Seq(Seq(RowRecord)) /\ <<>> \in Seq(RowRecord)
        /\ Len(<<>>) = 0
    BY EmptySeq
  <2>2. /\ seg \in Nat /\ last \in Nat /\ copied \in Nat /\ sws \in Nat
        /\ rgb \in [picture : Nat, size : Nat]
        /\ requests \in Seq(Request) /\ Len(requests) <= QueueSize
        /\ memory \in Seq(Seq(RowRecord)) /\ Len(memory) = seg
        /\ mapped \subseteq 1 .. seg
    BY <1>1, <2>1
  <2>3. receiver \in {"display", "header"} \cup (ReceiverStates \ Receiving)
    BY DEF Starting
  <2> QED
    BY <1>2, <2>1, <2>2, <2>3 DEF ScreenTypes
<1>4. Sized /\ RowsInPlace
  BY <1>1, <1>2 DEF Sized, RowsInPlace, SegmentRows, RequestedRows, CopiedRows, WholePicture, ShownRows
<1>5. Queued
  BY <1>1, <1>2 DEF Queued, OfSegments, InOrder, OneMapped, DetachedFirst, OldDetached, NewAttached,
                    AttachedFirst, LastShown
<1> QED
  BY <1>3, <1>4, <1>5 DEF ScreenInv

LEMMA StaysFresh ==
    ASSUME ConnInv, ScreenInv,
           ReceiverBinds \/ ReceiverBindFails \/ ReceiverAccepts \/ OpenWindow \/ Ends
    PROVE  ScreenInv'
<1>1. Fresh' /\ copied' \in Nat
  <2>1. CASE ReceiverBinds \/ ReceiverBindFails \/ ReceiverAccepts \/ OpenWindow
    <3>1. /\ UNCHANGED <<held, sws, rgb, last, seg, copied, requests, memory, mapped, screen, failed>>
          /\ receiver \in {"bind", "accept", "display"}
      BY <2>1 DEF ReceiverBinds, ReceiverBindFails, ReceiverAccepts, OpenWindow, xserver
    <3>2. Fresh /\ copied \in Nat
      BY <3>1 DEF ScreenInv, ScreenTypes
    <3> QED
      BY <3>1, <3>2 DEF Fresh
  <2>2. CASE Ends
    BY <2>2 DEF Ends, Fresh
  <2> QED
    BY <2>1, <2>2
<1>2. Starting'
  BY DEF Starting, ReceiverBinds, ReceiverBindFails, ReceiverAccepts, OpenWindow, Ends, ReceiverStates, Receiving
<1>3. (Fresh /\ copied \in Nat /\ Starting => ScreenInv)'
  BY FreshScreen, PTL
<1> QED
  BY <1>1, <1>2, <1>3

\* Steps between two pictures.
LEMMA ShowingSame ==
    ASSUME FlowInv', ScreenInv, ReadPacketHeader \/ ReadPacket \/ NotDecoded
    PROVE  ScreenInv'
<1> USE DEF xserver, display
<1>1. /\ receiver \in Showing /\ receiver' \in Showing
      /\ UNCHANGED <<sws, rgb, last, seg, copied, requests, memory, mapped, screen, disturbed>>
  BY DEF ReadPacketHeader, ReadPacket, NotDecoded, Showing, local
<1>2. receiver' = "header" \/ packet'.size \in Nat \ {0}
  <2>1. CASE ReadPacketHeader
    <3>1. packet' \in Heads /\ packet'.type = "phoenix"
      BY <2>1 DEF ReadPacketHeader, FlowInv, HeaderRead, Acceptable
    <3>2. packet' \in [type : {"phoenix"}, size : 1 .. PacketLimit + 1, fmt : {"h264", "raw"}]
      BY <3>1 DEF Heads
    <3> QED
      BY <3>2, RenderersAssumption
  <2>2. CASE ReadPacket
    BY <2>2 DEF ReadPacket, ScreenInv, ScreenTypes, ReceiverStates, Receiving
  <2>3. CASE NotDecoded
    BY <2>3 DEF NotDecoded
  <2> QED
    BY <2>1, <2>2, <2>3
<1>3. ScreenTypes'
  BY <1>1, <1>2 DEF ScreenInv, ScreenTypes, Showing
<1>4. Sized'
  BY <1>1 DEF ScreenInv, Sized, Showing
<1>5. RowsInPlace'
  BY <1>1 DEF ScreenInv, RowsInPlace, SegmentRows, RequestedRows, CopiedRows, WholePicture, ShownRows, Showing
<1>6. Queued'
  BY <1>1 DEF ScreenInv, Queued, OfSegments, InOrder, OneMapped, DetachedFirst, OldDetached, NewAttached,
              AttachedFirst, LastShown, Asks, Showing
<1> QED
  BY <1>3, <1>4, <1>5, <1>6 DEF ScreenInv

LEMMA PictureScreen == ASSUME ScreenInv, Picture PROVE ScreenInv'
<1> USE DEF xserver, display
<1>1. /\ receiver = "decode" /\ UNCHANGED <<packet, last, seg, requests, memory, mapped, screen, disturbed>>
      /\ rgb' = [picture |-> rgb.picture + 1, size |-> packet.size] /\ copied' = 0
      /\ sws' = (IF sws = 0 \/ rgb'.size # last THEN rgb'.size ELSE sws)
      /\ receiver' = (IF rgb'.size # last THEN "resize" ELSE "copy")
  BY DEF Picture
<1>2. packet.size \in Nat \ {0} /\ sws = last /\ last \in Nat /\ rgb.picture \in Nat
  BY <1>1 DEF ScreenInv, ScreenTypes, Sized, ReceiverStates, Receiving
<1>3. /\ rgb'.picture = rgb.picture + 1 /\ rgb'.picture \in Nat \ {0}
      /\ rgb'.size = packet.size /\ rgb'.size \in Nat \ {0}
  BY <1>1, <1>2
<1>4. ScreenTypes'
  <2>1. rgb' \in [picture : Nat, size : Nat] /\ sws' \in Nat /\ copied' \in Nat
    BY <1>1, <1>2, <1>3
  <2>2. receiver' \in {"resize", "copy"}
    BY <1>1
  <2> QED
    BY <1>1, <1>2, <2>1, <2>2 DEF ScreenInv, ScreenTypes
<1>5. Sized'
  BY <1>1, <1>2, <1>3 DEF ScreenInv, Sized
<1>6. RowsInPlace'
  <2>1. ASSUME NEW n \in Nat, n <= rgb.picture
        PROVE  n <= rgb'.picture
    BY <1>2, <1>3, <2>1
  <2>2. SegmentRows'
    <3> SUFFICES ASSUME NEW g \in 1 .. seg, NEW k \in 1 .. Len(memory[g])
                 PROVE  memory[g][k].at = k /\ memory[g][k].picture <= rgb'.picture
      BY <1>1 DEF SegmentRows
    <3>1. memory[g][k].at = k /\ memory[g][k].picture <= rgb.picture /\ memory[g][k].picture \in Nat
      BY ScreenFacts DEF ScreenInv, RowsInPlace, SegmentRows
    <3> QED
      BY <2>1, <3>1
  <2>3. RequestedRows'
    <3> SUFFICES ASSUME NEW i \in 1 .. Len(requests), requests[i].type = "put"
                 PROVE  /\ requests[i].picture <= rgb'.picture
                        /\ \A k \in 1 .. Len(memory[requests[i].seg]) :
                              memory[requests[i].seg][k].picture >= requests[i].picture
      BY <1>1 DEF RequestedRows
    <3>1. /\ requests[i].picture <= rgb.picture
          /\ \A k \in 1 .. Len(memory[requests[i].seg]) :
                memory[requests[i].seg][k].picture >= requests[i].picture
      BY DEF ScreenInv, RowsInPlace, RequestedRows
    <3>2. requests[i].picture \in Nat
      BY ScreenFacts DEF ScreenInv
    <3> QED
      BY <2>1, <3>1, <3>2
  <2>4. CopiedRows' /\ WholePicture' /\ ShownRows'
    BY <1>1 DEF ScreenInv, RowsInPlace, CopiedRows, WholePicture, ShownRows, Showing
  <2> QED
    BY <2>2, <2>3, <2>4 DEF RowsInPlace
<1>7. Queued'
  BY <1>1 DEF ScreenInv, Queued, OfSegments, InOrder, OneMapped, DetachedFirst, OldDetached, NewAttached,
              AttachedFirst, LastShown, Asks, Showing
<1> QED
  BY <1>4, <1>5, <1>6, <1>7 DEF ScreenInv

\* A row more of the picture is in the segment.
LEMMA CopyRowScreen == ASSUME ScreenInv, CopyRow PROVE ScreenInv'
<1> USE DEF xserver, display
<1> DEFINE n == copied + 1
           row == Row(rgb.picture, n)
<1>1. /\ receiver = "copy" /\ UNCHANGED <<packet, sws, rgb, last, seg, requests, mapped, screen, disturbed>>
      /\ copied' = n /\ memory' = [memory EXCEPT ![seg][n] = row]
      /\ receiver' = (IF n = rgb.size THEN "put" ELSE "copy")
  BY DEF CopyRow
<1>2. /\ last > 0 /\ seg > 0 /\ Len(memory[seg]) = last /\ rgb.size = last /\ copied < rgb.size
      /\ last \in Nat /\ seg \in Nat /\ copied \in Nat /\ rgb.picture \in Nat \ {0} /\ sws = last
      /\ memory \in Seq(Seq(RowRecord)) /\ Len(memory) = seg
      /\ \A k \in 1 .. copied : memory[seg][k].picture = rgb.picture
  BY <1>1 DEF ScreenInv, ScreenTypes, Sized, RowsInPlace, CopiedRows
<1>3. n \in 1 .. last /\ seg \in 1 .. seg /\ row \in RowRecord /\ row.picture = rgb.picture /\ row.at = n
  BY <1>2 DEF Row, RowRecord
<1>4. /\ memory[seg] \in Seq(RowRecord)
      /\ \A k \in 1 .. last : /\ memory[seg][k] \in RowRecord /\ memory[seg][k].picture \in Nat
                              /\ memory[seg][k].at = k /\ memory[seg][k].picture <= rgb.picture
  BY <1>2, <1>3, ScreenFacts DEF ScreenInv, RowsInPlace, SegmentRows
<1> HIDE DEF row, n
<1> DEFINE rows == [memory[seg] EXCEPT ![n] = row]
<1>5. /\ rows \in Seq(RowRecord) /\ Len(rows) = last /\ rows[n] = row
      /\ \A k \in 1 .. last : k # n => rows[k] = memory[seg][k]
  BY <1>2, <1>3, <1>4, ExceptSeq
<1>6. memory' = [memory EXCEPT ![seg] = rows]
  BY <1>1
<1> HIDE DEF rows
<1>7. /\ memory' \in Seq(Seq(RowRecord)) /\ Len(memory') = seg /\ memory'[seg] = rows
      /\ \A g \in 1 .. seg : g # seg => memory'[g] = memory[g]
  BY <1>2, <1>3, <1>5, <1>6, ExceptSeq
<1>8. \A k \in 1 .. last : /\ rows[k].at = k /\ rows[k].picture <= rgb.picture
                           /\ rows[k].picture >= memory[seg][k].picture /\ rows[k] \in RowRecord
  <2> TAKE k \in 1 .. last
  <2>1. CASE k = n
    BY <1>2, <1>3, <1>4, <1>5, <2>1
  <2>2. CASE k # n
    BY <1>2, <1>4, <1>5, <2>2
  <2> QED
    BY <2>1, <2>2
<1>9. ScreenTypes'
  <2>1. receiver' \in {"copy", "put"} /\ copied' \in Nat
    BY <1>1, <1>2, <1>3
  <2>2. packet.size \in Nat \ {0}
    BY <1>1 DEF ScreenInv, ScreenTypes, ReceiverStates, Receiving
  <2> QED
    BY <1>1, <1>7, <2>1, <2>2 DEF ScreenInv, ScreenTypes
<1>10. Sized'
  <2>1. Len(memory'[seg]) = last
    BY <1>5, <1>7
  <2>2. n < rgb.size \/ n = rgb.size
    BY <1>2, <1>3
  <2> QED
    BY <1>1, <1>2, <2>1, <2>2 DEF ScreenInv, Sized
<1>11. SegmentRows'
  <2> SUFFICES ASSUME NEW g \in 1 .. seg, NEW k \in 1 .. Len(memory'[g])
               PROVE  memory'[g][k].at = k /\ memory'[g][k].picture <= rgb.picture
    BY <1>1 DEF SegmentRows
  <2>1. CASE g = seg
    BY <1>5, <1>7, <1>8, <2>1
  <2>2. CASE g # seg
    BY <1>7, <2>2 DEF ScreenInv, RowsInPlace, SegmentRows
  <2> QED
    BY <2>1, <2>2
<1>12. RequestedRows'
  <2> SUFFICES ASSUME NEW i \in 1 .. Len(requests), requests[i].type = "put"
               PROVE  /\ requests[i].picture <= rgb.picture
                      /\ \A k \in 1 .. Len(memory'[requests[i].seg]) :
                            memory'[requests[i].seg][k].picture >= requests[i].picture
    BY <1>1 DEF RequestedRows
  <2> DEFINE g == requests[i].seg
             p == requests[i].picture
  <2>1. /\ p <= rgb.picture /\ g \in 1 .. seg /\ p \in Nat
        /\ \A k \in 1 .. Len(memory[g]) : memory[g][k].picture >= p
    BY ScreenFacts DEF ScreenInv, RowsInPlace, RequestedRows, Queued, OfSegments
  <2> HIDE DEF g, p
  <2>2. CASE g # seg
    BY <1>7, <2>1, <2>2 DEF g, p
  <2>3. CASE g = seg
    <3>1. ASSUME NEW k \in 1 .. last
          PROVE  rows[k].picture >= p
      <4>1. rows[k].picture >= memory[seg][k].picture /\ memory[seg][k].picture >= p
        BY <1>2, <1>8, <2>1, <2>3
      <4>2. memory[seg][k].picture \in Nat /\ rows[k].picture \in Nat
        BY <1>4, <1>8 DEF RowRecord
      <4> QED
        BY <2>1, <4>1, <4>2
    <3> QED
      BY <1>5, <1>7, <2>1, <2>3, <3>1 DEF g, p
  <2> QED
    BY <2>2, <2>3
<1>13. ASSUME NEW k \in 1 .. n
       PROVE  rows[k].picture = rgb.picture
  <2>1. CASE k = n
    BY <1>3, <1>5, <2>1
  <2>2. CASE k # n
    <3>1. k \in 1 .. copied /\ k \in 1 .. last
      BY <1>2, <1>3, <2>2 DEF n
    <3> QED
      BY <1>2, <1>5, <2>2, <3>1
  <2> QED
    BY <2>1, <2>2
<1>14. CopiedRows'
  BY <1>1, <1>7, <1>13 DEF CopiedRows
<1>15. WholePicture'
  <2>1. CASE n = rgb.size
    <3>1. ASSUME NEW k \in 1 .. last
          PROVE  rows[k] = Rows(rgb.picture, rgb.size)[k]
      <4>1. rows[k].picture = rgb.picture /\ rows[k].at = k /\ rows[k] \in RowRecord
        BY <1>2, <1>8, <1>13, <2>1
      <4>2. rows[k] = Row(rgb.picture, k)
        BY <4>1, RowEqual
      <4>3. Rows(rgb.picture, rgb.size)[k] = Row(rgb.picture, k)
        <5>1. rgb.picture \in Nat /\ rgb.size \in Nat /\ k \in 1 .. rgb.size
          BY <1>2
        <5> QED
          BY <5>1, RowsFacts
      <4> QED
        BY <4>2, <4>3
    <3>2. Rows(rgb.picture, rgb.size) \in Seq(RowRecord) /\ Len(Rows(rgb.picture, rgb.size)) = last
      <4>1. rgb.picture \in Nat /\ rgb.size \in Nat /\ rgb.size = last
        BY <1>2
      <4> QED
        BY <4>1, RowsFacts
    <3>3. rows = Rows(rgb.picture, rgb.size)
      BY <1>5, <3>1, <3>2, SeqEqual
    <3> QED
      BY <1>1, <1>2, <1>7, <3>3 DEF WholePicture
  <2>2. CASE n # rgb.size
    BY <1>1, <2>2 DEF WholePicture, Showing
  <2> QED
    BY <2>1, <2>2
<1>16. RowsInPlace'
  <2>1. ShownRows'
    BY <1>1 DEF ScreenInv, RowsInPlace, ShownRows
  <2> QED
    BY <1>11, <1>12, <1>14, <1>15, <2>1 DEF RowsInPlace
<1>17. Queued'
  <2>1. receiver' \notin Showing
    BY <1>1 DEF Showing
  <2> QED
    BY <1>1, <2>1 DEF ScreenInv, Queued, OfSegments, InOrder, OneMapped, DetachedFirst, OldDetached, NewAttached,
                      AttachedFirst, LastShown, Asks
<1> QED
  BY <1>9, <1>10, <1>16, <1>17 DEF ScreenInv

\* The segment is asked to be shown.
LEMMA PutScreen == ASSUME ScreenInv, Put PROVE ScreenInv'
<1> USE DEF xserver, display
<1> DEFINE new == [type |-> "put", seg |-> seg, picture |-> rgb.picture]
           n == Len(requests)
<1>1. /\ receiver = "put" /\ receiver' = "decode" /\ n < QueueSize /\ requests' = Append(requests, new)
      /\ UNCHANGED <<packet, sws, rgb, last, seg, copied, memory, mapped, screen, disturbed>>
  BY DEF Put
<1>2. /\ requests \in Seq(Request) /\ n \in Nat /\ QueueSize \in Nat /\ seg \in Nat /\ last \in Nat
      /\ rgb.picture \in Nat \ {0} /\ seg > 0 /\ last > 0 /\ rgb.size = last /\ rgb.size \in Nat
      /\ memory[seg] = Rows(rgb.picture, rgb.size) /\ sws = last
  BY <1>1, LenProperties, RenderersAssumption DEF ScreenInv, ScreenTypes, Sized, RowsInPlace, WholePicture
<1>3. new \in Request /\ new.type = "put" /\ new.seg = seg /\ new.picture = rgb.picture
  BY <1>2 DEF Request
<1> HIDE DEF new
<1>4. /\ requests' \in Seq(Request) /\ Len(requests') = n + 1 /\ requests' # <<>>
      /\ \A i \in 1 .. n : requests'[i] = requests[i]
      /\ requests'[n + 1] = new
  BY <1>1, <1>2, <1>3, AppendProperties
<1> HIDE DEF n
<1>5. \A i \in 1 .. Len(requests') : i \in 1 .. n \/ i = n + 1
  BY <1>2, <1>4
<1>6. ScreenTypes'
  <2>1. Len(requests') <= QueueSize
    BY <1>1, <1>2, <1>4
  <2>2. packet.size \in Nat \ {0}
    BY <1>1 DEF ScreenInv, ScreenTypes, ReceiverStates, Receiving
  <2> QED
    BY <1>1, <1>4, <2>1, <2>2 DEF ScreenInv, ScreenTypes
<1>7. Sized'
  BY <1>1, <1>2 DEF ScreenInv, Sized
<1>8. RequestedRows'
  <2> SUFFICES ASSUME NEW i \in 1 .. Len(requests'), requests'[i].type = "put"
               PROVE  /\ requests'[i].picture <= rgb.picture
                      /\ \A k \in 1 .. Len(memory[requests'[i].seg]) :
                            memory[requests'[i].seg][k].picture >= requests'[i].picture
    BY <1>1 DEF RequestedRows
  <2>1. CASE i \in 1 .. n
    BY <1>4, <2>1 DEF ScreenInv, RowsInPlace, RequestedRows, n
  <2>2. CASE i = n + 1
    <3>1. /\ Len(memory[seg]) = rgb.size
          /\ \A k \in 1 .. rgb.size : memory[seg][k].picture = rgb.picture
      BY <1>2, RowsFacts
    <3> QED
      BY <1>2, <1>3, <1>4, <2>2, <3>1
  <2> QED
    BY <1>5, <2>1, <2>2
<1>9. RowsInPlace'
  <2>1. SegmentRows' /\ CopiedRows' /\ WholePicture' /\ ShownRows'
    BY <1>1, <1>2 DEF ScreenInv, RowsInPlace, SegmentRows, CopiedRows, WholePicture, ShownRows
  <2> QED
    BY <1>8, <2>1 DEF RowsInPlace
<1>10. OfSegments'
  <2> SUFFICES ASSUME NEW i \in 1 .. Len(requests')
               PROVE  requests'[i].seg \in 1 .. seg /\ (requests'[i].type = "detach" => requests'[i].seg < seg)
    BY <1>1 DEF OfSegments
  <2>1. CASE i \in 1 .. n
    BY <1>4, <2>1 DEF ScreenInv, Queued, OfSegments, n
  <2>2. CASE i = n + 1
    BY <1>2, <1>3, <1>4, <2>2
  <2> QED
    BY <1>5, <2>1, <2>2
<1>11. \A i \in 1 .. Len(requests') : requests'[i].type = "attach" => i \in 1 .. n /\ requests'[i] = requests[i]
  BY <1>3, <1>4, <1>5
<1>12. InOrder'
  BY <1>11 DEF ScreenInv, Queued, InOrder, n
<1>13. OneMapped'
  BY <1>1 DEF ScreenInv, Queued, OneMapped
<1>14. ASSUME NEW type, NEW g, NEW i \in 1 .. n + 1, \E k \in 1 .. i - 1 : Asks(k, type, g)
       PROVE  \E k \in 1 .. i - 1 : requests'[k].type = type /\ requests'[k].seg = g
  <2>1. PICK k \in 1 .. i - 1 : Asks(k, type, g)
    BY <1>14
  <2>2. k \in 1 .. n
    BY <1>2, <2>1
  <2>3. requests'[k] = requests[k]
    BY <1>4, <2>2
  <2> QED
    BY <2>1, <2>3 DEF Asks
<1>15. \A i \in 1 .. n : i \in 1 .. n + 1 /\ n + 1 \in 1 .. n + 1 /\ n + 1 - 1 = n
  BY <1>2
<1>16. DetachedFirst'
  <2> SUFFICES ASSUME NEW g \in mapped, NEW i \in 1 .. Len(requests'), requests'[i].type = "attach"
               PROVE  \E k \in 1 .. i - 1 : requests'[k].type = "detach" /\ requests'[k].seg = g
    BY <1>1 DEF DetachedFirst, Asks
  <2>1. i \in 1 .. n /\ requests[i].type = "attach"
    BY <1>11
  <2>2. \E k \in 1 .. i - 1 : Asks(k, "detach", g)
    BY <2>1 DEF ScreenInv, Queued, DetachedFirst, n
  <2> QED
    BY <1>14, <1>15, <2>1, <2>2
<1>17. ASSUME NEW type, NEW g, \E k \in 1 .. n : Asks(k, type, g)
       PROVE  \E k \in 1 .. Len(requests') : requests'[k].type = type /\ requests'[k].seg = g
  <2>1. PICK k \in 1 .. n : Asks(k, type, g)
    BY <1>17
  <2>2. requests'[k] = requests[k] /\ k \in 1 .. Len(requests')
    BY <1>2, <1>4
  <2> QED
    BY <2>1, <2>2 DEF Asks
<1>18. OldDetached'
  <2> SUFFICES ASSUME NEW g \in mapped, g # seg
               PROVE  \E k \in 1 .. Len(requests') : requests'[k].type = "detach" /\ requests'[k].seg = g
    BY <1>1 DEF OldDetached, Asks
  <2>1. \E k \in 1 .. n : Asks(k, "detach", g)
    BY DEF ScreenInv, Queued, OldDetached, n
  <2> QED
    BY <1>17, <2>1
<1>19. seg \in mapped \/ \E k \in 1 .. n : Asks(k, "attach", seg)
  BY <1>2 DEF ScreenInv, Queued, NewAttached, n
<1>20. NewAttached'
  <2>1. \/ seg \in mapped
        \/ \E k \in 1 .. Len(requests') : requests'[k].type = "attach" /\ requests'[k].seg = seg
    BY <1>17, <1>19
  <2> QED
    BY <1>1, <2>1 DEF NewAttached, Asks
<1>21. AttachedFirst'
  <2> SUFFICES ASSUME NEW i \in 1 .. Len(requests'), seg \notin mapped,
                      requests'[i].type = "put", requests'[i].seg = seg
               PROVE  \E k \in 1 .. i - 1 : requests'[k].type = "attach" /\ requests'[k].seg = seg
    BY <1>1 DEF AttachedFirst, Asks
  <2>1. CASE i \in 1 .. n
    <3>1. Asks(i, "put", seg)
      BY <1>1, <1>4, <2>1 DEF Asks
    <3>2. \E k \in 1 .. i - 1 : Asks(k, "attach", seg)
      BY <2>1, <3>1 DEF ScreenInv, Queued, AttachedFirst, n
    <3> QED
      BY <1>14, <1>15, <2>1, <3>2
  <2>2. CASE i = n + 1
    <3>1. \E k \in 1 .. i - 1 : Asks(k, "attach", seg)
      BY <1>2, <1>19, <2>2
    <3>2. i \in 1 .. n + 1
      BY <1>2, <2>2
    <3> QED
      BY <1>14, <3>1, <3>2
  <2> QED
    BY <1>5, <2>1, <2>2
<1>22. LastShown'
  BY <1>1, <1>4 DEF LastShown, new
<1>23. Queued'
  BY <1>10, <1>12, <1>13, <1>16, <1>18, <1>20, <1>21, <1>22 DEF Queued
<1> QED
  BY <1>6, <1>7, <1>9, <1>23 DEF ScreenInv

\* A segment of another size: the old one is detached, if there is one.
\* What a change of size asks of the X server.
LEMMA ResizeAsks ==
    ASSUME ScreenInv, Resize
    PROVE  LET n == Len(requests)
           IN  \E m \in {1, 2} :
                  /\ m = 1 <=> seg = 0
                  /\ requests' \in Seq(Request) /\ Len(requests') = n + m + 1
                  /\ \A i \in 1 .. n : requests'[i] = requests[i] /\ i \in 1 .. n + m + 1
                  /\ n + 1 \in 1 .. n + m
                  /\ requests'[n + 1] = [type |-> "resize", seg |-> seg + 1, size |-> rgb.size]
                  /\ m = 2 => /\ n + 2 \in 1 .. n + m
                              /\ requests'[n + 2] = [type |-> "detach", seg |-> seg]
                  /\ requests'[n + m + 1] = [type |-> "attach", seg |-> seg + 1]
                  /\ \A i \in 1 .. Len(requests') : \/ i \in 1 .. n
                                                    \/ i = n + 1
                                                    \/ i = n + 2 /\ m = 2
                                                    \/ i = n + m + 1
<1> USE DEF xserver, display
<1> DEFINE detach == [type |-> "detach", seg |-> seg]
           attach == [type |-> "attach", seg |-> seg + 1]
           resize == [type |-> "resize", seg |-> seg + 1, size |-> rgb.size]
           old == <<resize>> \o (IF seg = 0 THEN <<>> ELSE <<detach>>)
           m == IF seg = 0 THEN 1 ELSE 2
           n == Len(requests)
<1>1. /\ receiver = "resize" /\ receiver' = "copy" /\ n + 3 <= QueueSize /\ seg' = seg + 1
      /\ requests' = requests \o old \o <<attach>> /\ memory' = Append(memory, Rows(0, rgb.size))
      /\ last' = rgb.size
      /\ UNCHANGED <<packet, sws, rgb, copied, mapped, screen, disturbed>>
  BY DEF Resize, Remade, ResizeRequest, Detaches
<1>2. /\ requests \in Seq(Request) /\ n \in Nat /\ QueueSize \in Nat /\ seg \in Nat
      /\ memory \in Seq(Seq(RowRecord)) /\ Len(memory) = seg /\ mapped \subseteq 1 .. seg
      /\ sws = rgb.size /\ rgb.size \in Nat \ {0} /\ rgb.picture \in Nat \ {0} /\ copied = 0
  <2> HIDE DEF detach, attach, resize, old, m
  <2>1. /\ requests \in Seq(Request) /\ seg \in Nat /\ rgb.size \in Nat /\ rgb.picture \in Nat
        /\ memory \in Seq(Seq(RowRecord)) /\ Len(memory) = seg /\ mapped \subseteq 1 .. seg
    BY DEF ScreenInv, ScreenTypes
  <2>2. sws = rgb.size /\ rgb.size > 0 /\ rgb.picture > 0 /\ copied = 0
    BY <1>1 DEF ScreenInv, Sized
  <2>3. n \in Nat /\ QueueSize \in Nat
    BY <2>1, LenProperties, RenderersAssumption
  <2> QED
    BY <2>1, <2>2, <2>3
<1>3. /\ detach \in Request /\ attach \in Request /\ resize \in Request
      /\ resize.type = "resize" /\ resize.seg = seg + 1 /\ resize.size = rgb.size
      /\ detach.type = "detach" /\ attach.type = "attach" /\ detach.seg = seg /\ attach.seg = seg + 1
  BY <1>2 DEF Request
<1> HIDE DEF detach, attach, resize
<1>4. /\ old \in Seq(Request) /\ Len(old) = m /\ m \in {1, 2}
      /\ old[1] = resize /\ (m = 2 => old[2] = detach)
  <2>1. CASE seg = 0
    <3>1. old = <<resize>>
      BY <1>3, <2>1, ConcatEmptySeq, EmptySeq
    <3>2. <<resize>> \in Seq(Request) /\ Len(<<resize>>) = 1 /\ <<resize>>[1] = resize /\ m = 1
      BY <1>3, <2>1
    <3> HIDE DEF old, m
    <3> QED
      BY ONLY <3>1, <3>2
  <2>2. CASE seg # 0
    <3> DEFINE first == <<resize>>
               second == <<detach>>
    <3>1. /\ first \in Seq(Request) /\ Len(first) = 1 /\ first[1] = resize
          /\ second \in Seq(Request) /\ Len(second) = 1 /\ second[1] = detach
      BY <1>3
    <3>2. old = first \o second /\ m = 2
      BY <2>2
    <3> HIDE DEF first, second, old, m
    <3>3. /\ old \in Seq(Request) /\ Len(old) = 1 + 1
          /\ \A i \in 1 .. 1 + 1 : old[i] = IF i <= 1 THEN first[i] ELSE second[i - 1]
      BY ONLY <3>1, <3>2, ConcatProperties
    <3> QED
      BY ONLY <3>1, <3>2, <3>3
  <2> QED
    BY <2>1, <2>2
<1>5. m = 1 <=> seg = 0
  OBVIOUS
<1> DEFINE before == requests \o old
<1> HIDE DEF old, m
<1>6. /\ before \in Seq(Request) /\ Len(before) = n + m
      /\ \A i \in 1 .. n + m : before[i] = IF i <= n THEN requests[i] ELSE old[i - n]
  BY <1>2, <1>4, ConcatProperties
<1> HIDE DEF before
<1>7. /\ requests' \in Seq(Request) /\ Len(requests') = n + m + 1
      /\ \A i \in 1 .. n + m : requests'[i] = before[i]
      /\ requests'[n + m + 1] = attach
  <2>1. requests' = Append(before, attach)
    <3>1. Append(before, attach) = before \o <<attach>>
      BY <1>3, <1>6, AppendIsConcat
    <3> QED
      BY <1>1, <3>1 DEF before
  <2> QED
    BY <1>3, <1>6, <2>1, AppendProperties
<1> HIDE DEF n
<1>8. \A i \in 1 .. n : requests'[i] = requests[i] /\ i \in 1 .. n + m + 1
  <2> TAKE i \in 1 .. n
  <2>1. i \in 1 .. n + m /\ i \in 1 .. n + m + 1 /\ i <= n
    BY <1>2, <1>4
  <2>2. before[i] = requests[i]
    BY <1>6, <2>1
  <2> QED
    BY <1>7, <2>1, <2>2
<1>9. /\ n + 1 \in 1 .. n + m /\ requests'[n + 1] = resize
      /\ m = 2 => n + 2 \in 1 .. n + m /\ requests'[n + 2] = detach
  <2>1. ASSUME NEW k \in 1 .. m
        PROVE  n + k \in 1 .. n + m /\ requests'[n + k] = old[k]
    <3>1. n + k \in 1 .. n + m /\ ~(n + k <= n) /\ n + k - n = k
      BY <1>2, <1>4
    <3>2. PICK i \in 1 .. n + m : i = n + k
      BY <3>1
    <3>3. ~(i <= n) /\ i - n = k
      BY <1>2, <1>4, <3>2
    <3>4. before[i] = old[k]
      BY <1>6, <3>3
    <3> QED
      BY <1>7, <3>1, <3>2, <3>4
  <2>2. 1 \in 1 .. m /\ (m = 2 => 2 \in 1 .. m)
    BY <1>4
  <2> QED
    BY <1>4, <2>1, <2>2
<1>10. \A i \in 1 .. Len(requests') : \/ i \in 1 .. n
                                      \/ i = n + 1
                                      \/ i = n + 2 /\ m = 2
                                      \/ i = n + m + 1
  <2> TAKE i \in 1 .. Len(requests')
  <2>1. i \in 1 .. n + m + 1
    BY <1>7
  <2>2. CASE m = 1
    BY <1>2, <2>1, <2>2
  <2>3. CASE m = 2
    BY <1>2, <2>1, <2>3
  <2> QED
    BY <1>4, <2>2, <2>3
<1> QED
  BY <1>4, <1>5, <1>7, <1>8, <1>9, <1>10 DEF n, resize, detach, attach

\* The new segment.
LEMMA ResizeMemory ==
    ASSUME ScreenInv, Resize
    PROVE  /\ memory' \in Seq(Seq(RowRecord)) /\ Len(memory') = seg + 1
           /\ \A g \in 1 .. seg : memory'[g] = memory[g]
           /\ memory'[seg + 1] = Rows(0, rgb.size)
           /\ Len(Rows(0, rgb.size)) = rgb.size
           /\ \A k \in 1 .. rgb.size : Rows(0, rgb.size)[k].picture = 0 /\ Rows(0, rgb.size)[k].at = k
<1> USE DEF xserver, display
<1>1. /\ receiver = "resize" /\ memory' = Append(memory, Rows(0, rgb.size))
  BY DEF Resize, Remade
<1>2. memory \in Seq(Seq(RowRecord)) /\ Len(memory) = seg /\ rgb.size \in Nat /\ seg \in Nat
  BY DEF ScreenInv, ScreenTypes
<1>3. /\ Rows(0, rgb.size) \in Seq(RowRecord) /\ Len(Rows(0, rgb.size)) = rgb.size
      /\ \A k \in 1 .. rgb.size : Rows(0, rgb.size)[k].picture = 0 /\ Rows(0, rgb.size)[k].at = k
  <2>1. 0 \in Nat /\ rgb.size \in Nat
    BY <1>2
  <2>2. ASSUME NEW x \in Nat, NEW size \in Nat
        PROVE  /\ Rows(x, size) \in Seq(RowRecord) /\ Len(Rows(x, size)) = size
               /\ \A k \in 1 .. size : Rows(x, size)[k].picture = x /\ Rows(x, size)[k].at = k
    BY RowsFacts
  <2> QED
    BY <2>1, <2>2
<1> DEFINE blank == Rows(0, rgb.size)
<1> HIDE DEF blank
<1>4. blank \in Seq(RowRecord) /\ memory' = Append(memory, blank)
  BY <1>1, <1>3 DEF blank
<1>5. /\ memory' \in Seq(Seq(RowRecord)) /\ Len(memory') = seg + 1
      /\ \A g \in 1 .. seg : memory'[g] = memory[g]
      /\ memory'[seg + 1] = blank
  BY <1>2, <1>4, AppendProperties
<1> QED
  BY <1>3, <1>5 DEF blank

LEMMA ResizeScreen == ASSUME ScreenInv, Resize PROVE ScreenInv'
<1> USE DEF xserver, display
<1> DEFINE detach == [type |-> "detach", seg |-> seg]
           attach == [type |-> "attach", seg |-> seg + 1]
           resize == [type |-> "resize", seg |-> seg + 1, size |-> rgb.size]
           n == Len(requests)
<1>1. /\ receiver = "resize" /\ receiver' = "copy" /\ n + 3 <= QueueSize /\ seg' = seg + 1
      /\ last' = rgb.size
      /\ UNCHANGED <<packet, sws, rgb, copied, mapped, screen, disturbed>>
  BY DEF Resize, Remade
<1>2. /\ requests \in Seq(Request) /\ n \in Nat /\ QueueSize \in Nat /\ seg \in Nat
      /\ memory \in Seq(Seq(RowRecord)) /\ Len(memory) = seg /\ mapped \subseteq 1 .. seg
      /\ sws = rgb.size /\ rgb.size \in Nat \ {0} /\ rgb.picture \in Nat \ {0} /\ copied = 0
  <2> HIDE DEF detach, attach, resize
  <2>1. /\ requests \in Seq(Request) /\ seg \in Nat /\ rgb.size \in Nat /\ rgb.picture \in Nat
        /\ memory \in Seq(Seq(RowRecord)) /\ Len(memory) = seg /\ mapped \subseteq 1 .. seg
    BY DEF ScreenInv, ScreenTypes
  <2>2. sws = rgb.size /\ rgb.size > 0 /\ rgb.picture > 0 /\ copied = 0
    BY <1>1 DEF ScreenInv, Sized
  <2>3. n \in Nat /\ QueueSize \in Nat
    BY <2>1, LenProperties, RenderersAssumption
  <2> QED
    BY <2>1, <2>2, <2>3
<1>3. /\ detach \in Request /\ attach \in Request /\ resize \in Request
      /\ resize.type = "resize" /\ resize.seg = seg + 1 /\ resize.size = rgb.size
      /\ detach.type = "detach" /\ attach.type = "attach" /\ detach.seg = seg /\ attach.seg = seg + 1
  BY <1>2 DEF Request
<1> HIDE DEF detach, attach, resize
<1>4. PICK m \in {1, 2} :
         /\ m = 1 <=> seg = 0
         /\ requests' \in Seq(Request) /\ Len(requests') = n + m + 1
         /\ \A i \in 1 .. n : requests'[i] = requests[i] /\ i \in 1 .. n + m + 1
         /\ n + 1 \in 1 .. n + m /\ requests'[n + 1] = resize
         /\ m = 2 => n + 2 \in 1 .. n + m /\ requests'[n + 2] = detach
         /\ requests'[n + m + 1] = attach
         /\ \A i \in 1 .. Len(requests') : \/ i \in 1 .. n
                                           \/ i = n + 1
                                           \/ i = n + 2 /\ m = 2
                                           \/ i = n + m + 1
  BY ResizeAsks DEF n, resize, detach, attach
<1> HIDE DEF n
<1>5. n + m + 1 \in Nat /\ n + m + 1 > n /\ n + m + 1 - 1 = n + m
  BY <1>2, <1>4
<1>6. /\ memory' \in Seq(Seq(RowRecord)) /\ Len(memory') = seg + 1
      /\ \A g \in 1 .. seg : memory'[g] = memory[g]
      /\ memory'[seg + 1] = Rows(0, rgb.size)
      /\ Len(Rows(0, rgb.size)) = rgb.size
      /\ \A k \in 1 .. rgb.size : Rows(0, rgb.size)[k].picture = 0 /\ Rows(0, rgb.size)[k].at = k
  BY ResizeMemory
<1>7. ScreenTypes'
  <2>1. /\ seg' \in Nat /\ last' \in Nat /\ Len(requests') <= QueueSize /\ Len(memory') = seg'
        /\ mapped \subseteq 1 .. seg'
    BY <1>1, <1>2, <1>4, <1>6
  <2>2. packet.size \in Nat \ {0}
    BY <1>1 DEF ScreenInv, ScreenTypes, ReceiverStates, Receiving
  <2> QED
    BY <1>1, <1>4, <1>6, <2>1, <2>2 DEF ScreenInv, ScreenTypes
<1>8. Sized'
  <2>1. seg' > 0 /\ Len(memory'[seg']) = rgb.size
    BY <1>1, <1>2, <1>6
  <2>2. /\ receiver' = "copy" /\ last' = rgb.size /\ UNCHANGED <<rgb, sws, copied>>
        /\ sws = rgb.size /\ copied < rgb.size /\ rgb.size > 0 /\ rgb.picture > 0
    BY <1>1, <1>2
  <2> QED
    BY ONLY <2>1, <2>2 DEF Sized
<1>9. SegmentRows'
  <2> SUFFICES ASSUME NEW g \in 1 .. seg + 1, NEW k \in 1 .. Len(memory'[g])
               PROVE  memory'[g][k].at = k /\ memory'[g][k].picture <= rgb.picture
    BY <1>1 DEF SegmentRows
  <2>1. CASE g \in 1 .. seg
    BY <1>6, <2>1 DEF ScreenInv, RowsInPlace, SegmentRows
  <2>2. CASE g = seg + 1
    BY <1>2, <1>6, <2>2
  <2> QED
    BY <1>2, <2>1, <2>2
<1>10. \A i \in 1 .. n : requests[i].seg \in 1 .. seg /\ (requests[i].type = "detach" => requests[i].seg < seg)
  BY DEF ScreenInv, Queued, OfSegments, n
<1>11. RequestedRows'
  <2> SUFFICES ASSUME NEW i \in 1 .. Len(requests'), requests'[i].type = "put"
               PROVE  /\ requests'[i].picture <= rgb.picture
                      /\ \A k \in 1 .. Len(memory'[requests'[i].seg]) :
                            memory'[requests'[i].seg][k].picture >= requests'[i].picture
    BY <1>1 DEF RequestedRows
  <2>1. i \in 1 .. n /\ requests'[i] = requests[i]
    BY <1>3, <1>4
  <2>2. requests[i].seg \in 1 .. seg /\ requests[i].type = "put"
    BY <1>10, <2>1
  <2>3. memory'[requests[i].seg] = memory[requests[i].seg]
    BY <1>6, <2>2
  <2>4. /\ requests[i].picture <= rgb.picture
        /\ \A k \in 1 .. Len(memory[requests[i].seg]) :
              memory[requests[i].seg][k].picture >= requests[i].picture
    BY <2>1, <2>2 DEF ScreenInv, RowsInPlace, RequestedRows, n
  <2> QED
    BY <2>1, <2>3, <2>4
<1>12. RowsInPlace'
  <2>1. CopiedRows' /\ WholePicture' /\ ShownRows'
    BY <1>1, <1>2 DEF ScreenInv, RowsInPlace, CopiedRows, WholePicture, ShownRows, Showing
  <2> QED
    BY <1>9, <1>11, <2>1 DEF RowsInPlace
<1>13. OfSegments'
  <2> SUFFICES ASSUME NEW i \in 1 .. Len(requests')
               PROVE  /\ requests'[i].seg \in 1 .. seg + 1
                      /\ requests'[i].type = "detach" => requests'[i].seg < seg + 1
    BY <1>1 DEF OfSegments
  <2>1. CASE i \in 1 .. n
    <3>1. requests'[i] = requests[i] /\ requests[i].seg \in 1 .. seg
      BY <1>4, <1>10, <2>1
    <3> QED
      BY <1>2, <3>1
  <2>2. CASE i = n + 1
    BY <1>2, <1>3, <1>4, <2>2
  <2>3. CASE i = n + 2 /\ m = 2
    BY <1>2, <1>3, <1>4, <2>3
  <2>4. CASE i = n + m + 1
    BY <1>2, <1>3, <1>4, <2>4
  <2> QED
    BY <1>4, <2>1, <2>2, <2>3, <2>4
<1>14. \A i \in 1 .. Len(requests') : requests'[i].type = "attach" =>
          (i \in 1 .. n /\ requests'[i] = requests[i]) \/ (i = n + m + 1 /\ requests'[i].seg = seg + 1)
  BY <1>3, <1>4
<1>15. InOrder'
  <2> SUFFICES ASSUME NEW i \in 1 .. Len(requests'), NEW j \in 1 .. Len(requests'), i < j,
                      requests'[i].type = "attach", requests'[j].type = "attach"
               PROVE  requests'[i].seg < requests'[j].seg
    BY DEF InOrder
  <2>1. CASE i \in 1 .. n /\ j \in 1 .. n
    BY <1>4, <2>1 DEF ScreenInv, Queued, InOrder, n
  <2>2. CASE i \in 1 .. n /\ j = n + m + 1
    <3>1. requests'[i].seg \in 1 .. seg /\ requests'[j].seg = seg + 1
      BY <1>3, <1>4, <1>10, <2>2
    <3> QED
      BY <1>2, <3>1
  <2>3. CASE i = n + m + 1
    BY <1>4, <1>5, <2>3
  <2> QED
    BY <1>14, <2>1, <2>2, <2>3
<1>16. OneMapped'
  BY <1>1 DEF ScreenInv, Queued, OneMapped
<1>17. ASSUME NEW g \in mapped
       PROVE  \E k \in 1 .. n + m : requests'[k].type = "detach" /\ requests'[k].seg = g
  <2>1. CASE g = seg
    <3>1. m = 2
      BY <1>2, <1>4, <2>1
    <3> QED
      BY <1>3, <1>4, <2>1, <3>1
  <2>2. CASE g # seg
    <3>1. PICK k \in 1 .. n : Asks(k, "detach", g)
      BY <2>2 DEF ScreenInv, Queued, OldDetached, n
    <3>2. k \in 1 .. n + m /\ requests'[k] = requests[k]
      BY <1>2, <1>4, <3>1
    <3> QED
      BY <3>1, <3>2 DEF Asks
  <2> QED
    BY <2>1, <2>2
<1>18. DetachedFirst'
  <2> SUFFICES ASSUME NEW g \in mapped, NEW i \in 1 .. Len(requests'), requests'[i].type = "attach"
               PROVE  \E k \in 1 .. i - 1 : requests'[k].type = "detach" /\ requests'[k].seg = g
    BY <1>1 DEF DetachedFirst, Asks
  <2>1. CASE i \in 1 .. n /\ requests'[i] = requests[i]
    <3>1. PICK k \in 1 .. i - 1 : Asks(k, "detach", g)
      BY <2>1 DEF ScreenInv, Queued, DetachedFirst, n
    <3>2. k \in 1 .. n
      BY <1>2, <2>1, <3>1
    <3> QED
      BY <1>4, <3>1, <3>2 DEF Asks
  <2>2. CASE i = n + m + 1
    <3>1. i - 1 = n + m
      BY <1>2, <1>4, <2>2
    <3> QED
      BY <1>17, <3>1
  <2> QED
    BY <1>14, <2>1, <2>2
<1>19. OldDetached'
  <2> SUFFICES ASSUME NEW g \in mapped
               PROVE  \E k \in 1 .. Len(requests') : requests'[k].type = "detach" /\ requests'[k].seg = g
    BY <1>1 DEF OldDetached, Asks
  <2>1. PICK k \in 1 .. n + m : requests'[k].type = "detach" /\ requests'[k].seg = g
    BY <1>17
  <2>2. k \in 1 .. Len(requests')
    BY <1>2, <1>4, <2>1
  <2> QED
    BY <2>1, <2>2
<1>20. NewAttached'
  <2>1. n + m + 1 \in 1 .. Len(requests')
    BY <1>2, <1>4
  <2>2. \E k \in 1 .. Len(requests') : requests'[k].type = "attach" /\ requests'[k].seg = seg + 1
    BY <1>3, <1>4, <2>1
  <2> QED
    BY <1>1, <2>2 DEF NewAttached, Asks
<1>21. AttachedFirst'
  <2> SUFFICES ASSUME NEW i \in 1 .. Len(requests'), requests'[i].type = "put", requests'[i].seg = seg + 1
               PROVE  FALSE
    BY <1>1 DEF AttachedFirst, Asks
  <2>1. i \in 1 .. n /\ requests'[i].seg \in 1 .. seg
    BY <1>3, <1>4, <1>10
  <2> QED
    BY <1>2, <2>1
<1>22. LastShown'
  BY <1>1 DEF LastShown, Showing
<1>23. Queued'
  BY <1>13, <1>15, <1>16, <1>18, <1>19, <1>20, <1>21, <1>22 DEF Queued
<1> QED
  BY <1>7, <1>8, <1>12, <1>23 DEF ScreenInv

\* What a picture leaves in the window.
LEMMA DrawnFacts ==
    ASSUME NEW rows \in Seq(RowRecord), NEW old \in Seq(RowRecord), NEW size \in Nat,
           Len(old) <= size
    PROVE  /\ Drawn(rows, old, size) \in Seq(RowRecord)
           /\ Len(Drawn(rows, old, size)) <= size
           /\ Len(rows) = size => Drawn(rows, old, size) = rows
<1> DEFINE m == IF Len(rows) < size THEN Len(rows) ELSE size
           n == IF m < Len(old) THEN Len(old) ELSE m
           d == [k \in 1 .. n |-> IF k <= m THEN rows[k] ELSE old[k]]
<1>1. Drawn(rows, old, size) = d
  BY DEF Drawn
<1>2. Len(rows) \in Nat /\ Len(old) \in Nat
  BY LenProperties
<1>3. m \in Nat /\ n \in Nat /\ m <= Len(rows) /\ n <= size /\ (n <= m \/ n = Len(old))
  BY <1>2
<1>4. ASSUME NEW k \in 1 .. n
      PROVE  (IF k <= m THEN rows[k] ELSE old[k]) \in RowRecord
  <2>1. CASE k <= m
    <3>1. k \in 1 .. Len(rows)
      BY <1>2, <1>3, <2>1
    <3> QED
      BY <2>1, <3>1, ElementOfSeq
  <2>2. CASE ~(k <= m)
    <3>1. k \in 1 .. Len(old)
      BY <1>2, <1>3, <2>2
    <3> QED
      BY <2>2, <3>1, ElementOfSeq
  <2> QED
    BY <2>1, <2>2
<1>5. Len(rows) = size => m = size /\ n = size
  BY <1>2
<1> HIDE DEF m, n
<1>6. d \in Seq(RowRecord) /\ Len(d) = n /\ \A k \in 1 .. n : d[k] = IF k <= m THEN rows[k] ELSE old[k]
  BY <1>3, <1>4
<1> HIDE DEF d
<1>7. ASSUME Len(rows) = size
      PROVE  d = rows
  <2>1. ASSUME NEW k \in 1 .. size
        PROVE  d[k] = rows[k]
    BY <1>5, <1>6, <1>7, <2>1
  <2> QED
    BY <1>5, <1>6, <1>7, <2>1, SeqEqual
<1> QED
  BY <1>1, <1>3, <1>6, <1>7

\* The X server takes the first request.
LEMMA ServeScreen == ASSUME ScreenInv, WindowInv, ServeRequest PROVE ScreenInv'
<1> USE DEF xserver, display, local
<1> DEFINE r == Head(requests)
           n == Len(requests)
<1>1. /\ requests # <<>> /\ Serves(r) /\ requests' = Tail(requests)
      /\ UNCHANGED <<receiver, packet, sws, rgb, last, seg, copied, memory>>
  BY DEF ServeRequest
<1>2. requests \in Seq(Request) /\ n \in Nat /\ QueueSize \in Nat /\ seg \in Nat /\ n <= QueueSize
  BY LenProperties, RenderersAssumption DEF ScreenInv, ScreenTypes
<1>3. /\ requests' \in Seq(Request) /\ Len(requests') = n - 1 /\ n \in Nat \ {0} /\ r = requests[1]
      /\ \A i \in 1 .. n - 1 : requests'[i] = requests[i + 1]
  BY <1>1, <1>2, HeadTailProperties, EmptySeq
<1> HIDE DEF n
<1>4. \A i \in 1 .. n - 1 : i + 1 \in 1 .. n /\ i + 1 > 1 /\ 1 \in 1 .. n
  BY <1>3
<1>5. \A k \in 1 .. n : k # 1 => k - 1 \in 1 .. n - 1 /\ requests'[k - 1] = requests[k]
  <2> TAKE k \in 1 .. n
  <2>1. k # 1 => k - 1 \in 1 .. n - 1 /\ k - 1 + 1 = k
    BY <1>3
  <2> QED
    BY <1>3, <2>1
<1>6. /\ r.type \in {"resize", "attach", "detach", "put"} /\ r.seg \in 1 .. seg
      /\ r.type = "detach" => r.seg < seg
      /\ 1 \in 1 .. n
  <2>1. 1 \in 1 .. n
    BY <1>3
  <2> QED
    BY <1>3, <2>1, ScreenFacts DEF ScreenInv, Queued, OfSegments, n
<1> HIDE DEF r
\* What it does to the segments it has.
<1>7. /\ r.type = "resize" => mapped' = mapped /\ disturbed' = disturbed
      /\ r.type = "attach" => mapped' = (IF r.seg = seg THEN mapped \cup {r.seg} ELSE mapped)
      /\ r.type = "detach" => mapped' = mapped \ {r.seg}
      /\ r.type = "put" => mapped' = mapped
  BY <1>1, <1>6 DEF Serves
\* What it does to the window.
<1> DEFINE drawn == Drawn(memory[r.seg], screen.rows, win.size)
<1> HIDE DEF drawn
<1>8. /\ screen.picture \in Nat /\ screen.rows \in Seq(RowRecord)
      /\ drawn \in Seq(RowRecord)
      /\ Len(memory[r.seg]) = win.size => drawn = memory[r.seg]
  <2>1. screen.picture \in Nat /\ screen.rows \in Seq(RowRecord) /\ memory[r.seg] \in Seq(RowRecord)
    BY <1>6, ScreenFacts DEF ScreenInv, ScreenTypes
  <2>2. win.size \in Nat /\ Len(screen.rows) <= win.size
    BY DEF WindowInv, WindowTypes, RowsFit
  <2> QED
    BY <2>1, <2>2, DrawnFacts DEF drawn
<1>9. \/ screen' = screen /\ (disturbed' = disturbed \/ disturbed')
      \/ screen' = Blank /\ disturbed' = disturbed
      \/ r.type = "put" /\ r.seg \in mapped /\ screen' = [picture |-> r.picture, rows |-> drawn]
  <2>1. CASE r.type = "resize"
    <3>1. (GivenSize(r.size) \/ UNCHANGED screen) /\ UNCHANGED disturbed
      BY ONLY <1>1, <2>1 DEF Serves
    <3> QED
      BY <3>1 DEF GivenSize
  <2>2. CASE r.type \in {"attach", "detach"} \/ (r.type = "put" /\ r.seg \notin mapped)
    <3>1. UNCHANGED <<screen, disturbed>>
      BY ONLY <1>1, <2>2 DEF Serves
    <3> QED
      BY <3>1
  <2>3. CASE r.type = "put" /\ r.seg \in mapped
    <3>1. /\ screen' = IF win.mapped THEN [picture |-> r.picture, rows |-> drawn] ELSE screen
          /\ disturbed' = (todo # <<>>)
      BY ONLY <1>1, <2>3 DEF Serves, drawn
    <3>2. receiver \in Windowed
      BY <1>1 DEF ScreenInv, ScreenTypes, Fresh, Windowed
    <3>3. ~win.mapped => todo # <<>>
      BY <3>2 DEF WindowInv, WindowTypes
    <3> QED
      BY <2>3, <3>1, <3>3
  <2> QED
    BY <1>6, <2>1, <2>2, <2>3
<1>10. ASSUME r.type = "put", r.seg \in mapped, ~disturbed'
       PROVE  screen' = [picture |-> r.picture, rows |-> memory[r.seg]]
  <2>1. /\ screen' = IF win.mapped THEN [picture |-> r.picture, rows |-> drawn] ELSE screen
        /\ disturbed' = (todo # <<>>)
    BY ONLY <1>1, <1>10 DEF Serves, drawn
  <2>2. todo = <<>>
    BY <1>10, <2>1
  <2>3. receiver \in Windowed
    BY <1>1 DEF ScreenInv, ScreenTypes, Fresh, Windowed
  <2>4. win.mapped
    BY <2>2, <2>3 DEF WindowInv, WindowTypes
  <2>5. Fitted(requests, 1, r.seg, Destined, Len(memory[r.seg]))
    BY <1>3, <1>6, <1>10 DEF WindowInv, PutsFit, n
  <2>6. win.size = Len(memory[r.seg])
    BY <2>2, <2>5 DEF Fitted, Destined
  <2> QED
    BY <1>8, <2>1, <2>4, <2>6
<1>11. r.type = "attach" => mapped = {}
  <2> SUFFICES ASSUME r.type = "attach", NEW g \in mapped
               PROVE  FALSE
    OBVIOUS
  <2>1. \E k \in 1 .. 1 - 1 : Asks(k, "detach", g)
    BY <1>3, <1>6 DEF ScreenInv, Queued, DetachedFirst, n
  <2> QED
    BY <2>1
<1>12. mapped \subseteq 1 .. seg /\ \A g, h \in mapped : g = h
  BY DEF ScreenInv, ScreenTypes, Queued, OneMapped
<1>13. mapped' \subseteq 1 .. seg /\ \A g, h \in mapped' : g = h
  BY <1>6, <1>7, <1>11, <1>12
<1>14. \A g \in mapped' : g \in mapped \/ (g = seg /\ r.type = "attach" /\ r.seg = seg)
  BY <1>6, <1>7
<1>15. \A g \in mapped' : ~(r.type = "detach" /\ r.seg = g)
  BY <1>7
\* What becomes of the segment and of the requests about it.
<1>16. ASSUME NEW g \in mapped', NEW i \in 1 .. n, \E k \in 1 .. i - 1 : Asks(k, "detach", g)
       PROVE  \E k \in 1 .. i - 2 : requests'[k].type = "detach" /\ requests'[k].seg = g
  <2>1. PICK k \in 1 .. i - 1 : Asks(k, "detach", g)
    BY <1>16
  <2>2. k # 1
    BY <1>3, <1>15, <2>1 DEF Asks
  <2>3. k \in 1 .. n /\ k - 1 \in 1 .. i - 2
    BY <1>3, <2>1, <2>2
  <2> QED
    BY <1>5, <2>1, <2>2, <2>3 DEF Asks
<1>17. ASSUME NEW i \in 1 .. n, \/ seg \in mapped
                               \/ \E k \in 1 .. i - 1 : Asks(k, "attach", seg)
       PROVE  \/ seg \in mapped'
              \/ \E k \in 1 .. i - 2 : requests'[k].type = "attach" /\ requests'[k].seg = seg
  <2>1. CASE seg \in mapped
    BY <1>2, <1>6, <1>7, <2>1
  <2>2. ASSUME NEW k \in 1 .. i - 1, Asks(k, "attach", seg)
        PROVE  \/ seg \in mapped'
               \/ \E j \in 1 .. i - 2 : requests'[j].type = "attach" /\ requests'[j].seg = seg
    <3>1. CASE k = 1
      BY <1>3, <1>7, <2>2, <3>1 DEF Asks
    <3>2. CASE k # 1
      <4>1. k \in 1 .. n /\ k - 1 \in 1 .. i - 2
        BY <1>3, <3>2
      <4> QED
        BY <1>5, <2>2, <3>2, <4>1 DEF Asks
    <3> QED
      BY <3>1, <3>2
  <2> QED
    BY <1>17, <2>1, <2>2
<1>18. ScreenTypes'
  <2>1. Len(requests') <= QueueSize
    BY <1>2, <1>3
  <2>2. screen'.picture \in Nat /\ screen'.rows \in Seq(RowRecord)
    <3>1. r.type = "put" => r.picture \in Nat
      BY <1>3, <1>6, ScreenFacts DEF ScreenInv, n
    <3>2. Blank.picture \in Nat /\ Blank.rows \in Seq(RowRecord)
      BY EmptySeq DEF Blank
    <3>3. CASE screen' \in {screen, Blank}
      BY ONLY <1>8, <3>2, <3>3
    <3>4. CASE r.type = "put" /\ screen' = [picture |-> r.picture, rows |-> drawn]
      BY ONLY <1>8, <3>1, <3>4
    <3> QED
      BY <1>9, <3>3, <3>4
  <2>3. receiver \in {"header", "packet", "decode", "resize", "copy", "put"}
    BY <1>1 DEF ScreenInv, ScreenTypes, Fresh
  <2> QED
    BY <1>1, <1>3, <1>13, <2>1, <2>2, <2>3 DEF ScreenInv, ScreenTypes
<1>19. Sized'
  BY <1>1 DEF ScreenInv, Sized
<1>20. RequestedRows'
  <2> SUFFICES ASSUME NEW i \in 1 .. n - 1, requests'[i].type = "put"
               PROVE  /\ requests'[i].picture <= rgb.picture
                      /\ \A k \in 1 .. Len(memory[requests'[i].seg]) :
                            memory[requests'[i].seg][k].picture >= requests'[i].picture
    BY <1>1, <1>3 DEF RequestedRows
  <2>1. i + 1 \in 1 .. n /\ requests'[i] = requests[i + 1]
    BY <1>3, <1>4
  <2> QED
    BY <2>1 DEF ScreenInv, RowsInPlace, RequestedRows, n
<1>21. ShownRows'
  <2> SUFFICES ASSUME ~disturbed', NEW k \in 1 .. Len(screen'.rows)
               PROVE  screen'.rows[k].at = k /\ screen'.rows[k].picture >= screen'.picture
    BY DEF ShownRows
  <2>1. CASE screen' = screen /\ ~disturbed
    BY <2>1 DEF ScreenInv, RowsInPlace, ShownRows
  <2>2. CASE screen' = Blank
    <3>1. Len(screen'.rows) = 0
      BY <2>2, EmptySeq DEF Blank
    <3> QED
      BY <3>1
  <2>3. CASE r.type = "put" /\ r.seg \in mapped
    <3>1. \A x \in 1 .. Len(memory[r.seg]) : memory[r.seg][x].at = x /\ memory[r.seg][x].picture >= r.picture
      BY <1>3, <1>6, <2>3 DEF ScreenInv, RowsInPlace, SegmentRows, RequestedRows, n
    <3>2. screen'.picture = r.picture /\ screen'.rows = memory[r.seg]
      BY <1>10, <2>3
    <3> QED
      BY <3>1, <3>2
  <2> QED
    BY <1>9, <2>1, <2>2, <2>3
<1>22. RowsInPlace'
  <2>1. SegmentRows' /\ CopiedRows' /\ WholePicture'
    BY <1>1 DEF ScreenInv, RowsInPlace, SegmentRows, CopiedRows, WholePicture
  <2> QED
    BY <1>20, <1>21, <2>1 DEF RowsInPlace
<1>23. OfSegments'
  <2> SUFFICES ASSUME NEW i \in 1 .. n - 1
               PROVE  requests'[i].seg \in 1 .. seg /\ (requests'[i].type = "detach" => requests'[i].seg < seg)
    BY <1>1, <1>3 DEF OfSegments
  <2>1. i + 1 \in 1 .. n /\ requests'[i] = requests[i + 1]
    BY <1>3, <1>4
  <2> QED
    BY <2>1 DEF ScreenInv, Queued, OfSegments, n
<1>24. \A i, j \in 1 .. n : i < j /\ requests[i].type = "attach" /\ requests[j].type = "attach" =>
          requests[i].seg < requests[j].seg
  BY DEF ScreenInv, Queued, InOrder, n
<1>25. InOrder'
  <2> SUFFICES ASSUME NEW i \in 1 .. n - 1, NEW j \in 1 .. n - 1, i < j,
                      requests'[i].type = "attach", requests'[j].type = "attach"
               PROVE  requests'[i].seg < requests'[j].seg
    BY <1>3 DEF InOrder
  <2>1. /\ i + 1 \in 1 .. n /\ j + 1 \in 1 .. n /\ i + 1 < j + 1
        /\ requests'[i] = requests[i + 1] /\ requests'[j] = requests[j + 1]
    BY <1>3, <1>4
  <2> QED
    BY <1>24, <2>1
<1>26. DetachedFirst'
  <2> SUFFICES ASSUME NEW g \in mapped', NEW i \in 1 .. n - 1, requests'[i].type = "attach"
               PROVE  \E k \in 1 .. i - 1 : requests'[k].type = "detach" /\ requests'[k].seg = g
    BY <1>3 DEF DetachedFirst, Asks
  <2>1. i + 1 \in 1 .. n /\ requests'[i] = requests[i + 1] /\ i + 1 > 1 /\ i + 1 - 2 = i - 1
    BY <1>3, <1>4
  <2>2. g \in mapped
    <3> SUFFICES ASSUME r.type = "attach", r.seg = seg
                 PROVE  FALSE
      BY <1>14
    <3>1. seg < requests[i + 1].seg /\ requests[i + 1].seg \in 1 .. seg
      <4>1. requests[1].seg < requests[i + 1].seg
        BY <1>3, <1>6, <1>24, <2>1
      <4> QED
        BY <1>3, <2>1, <4>1 DEF ScreenInv, Queued, OfSegments, n
    <3> QED
      BY <1>2, <3>1
  <2>3. \E k \in 1 .. i + 1 - 1 : Asks(k, "detach", g)
    BY <2>1, <2>2 DEF ScreenInv, Queued, DetachedFirst, n
  <2>4. \E k \in 1 .. i + 1 - 2 : requests'[k].type = "detach" /\ requests'[k].seg = g
    BY <1>16, <2>1, <2>3
  <2> QED
    BY <2>1, <2>4
<1>27. OldDetached'
  <2> SUFFICES ASSUME NEW g \in mapped', g # seg
               PROVE  \E k \in 1 .. n - 1 : requests'[k].type = "detach" /\ requests'[k].seg = g
    BY <1>1, <1>3 DEF OldDetached, Asks
  <2>1. PICK k \in 1 .. n : Asks(k, "detach", g)
    BY <1>14 DEF ScreenInv, Queued, OldDetached, n
  <2>2. k # 1
    BY <1>3, <1>15, <2>1 DEF Asks
  <2> QED
    BY <1>5, <2>1, <2>2 DEF Asks
<1>28. NewAttached'
  <2> SUFFICES ASSUME seg > 0, seg \notin mapped'
               PROVE  \E k \in 1 .. n - 1 : requests'[k].type = "attach" /\ requests'[k].seg = seg
    BY <1>1, <1>3 DEF NewAttached, Asks
  <2>1. seg \notin mapped
    BY <1>2, <1>6, <1>7
  <2>2. PICK k \in 1 .. n : Asks(k, "attach", seg)
    BY <2>1 DEF ScreenInv, Queued, NewAttached, n
  <2>3. k # 1
    BY <1>3, <1>7, <2>2 DEF Asks
  <2> QED
    BY <1>5, <2>2, <2>3 DEF Asks
<1>29. AttachedFirst'
  <2> SUFFICES ASSUME NEW i \in 1 .. n - 1, requests'[i].type = "put", requests'[i].seg = seg
               PROVE  \/ seg \in mapped'
                      \/ \E k \in 1 .. i - 1 : requests'[k].type = "attach" /\ requests'[k].seg = seg
    BY <1>1, <1>3 DEF AttachedFirst, Asks
  <2>1. i + 1 \in 1 .. n /\ requests'[i] = requests[i + 1] /\ i + 1 - 2 = i - 1
    BY <1>3, <1>4
  <2>2. seg \in mapped \/ \E k \in 1 .. i + 1 - 1 : Asks(k, "attach", seg)
    BY <2>1 DEF ScreenInv, Queued, AttachedFirst, Asks, n
  <2>3. \/ seg \in mapped'
        \/ \E k \in 1 .. i + 1 - 2 : requests'[k].type = "attach" /\ requests'[k].seg = seg
    BY <1>17, <2>1, <2>2
  <2> QED
    BY <2>1, <2>3
<1>30. LastShown'
  <2> SUFFICES ASSUME receiver \in Showing, rgb.picture > 0
               PROVE  IF requests' = <<>> THEN ~disturbed' => screen'.rows = Rows(rgb.picture, rgb.size)
                      ELSE requests'[Len(requests')] = [type |-> "put", seg |-> seg, picture |-> rgb.picture]
    BY <1>1 DEF LastShown
  <2>1. requests[n] = [type |-> "put", seg |-> seg, picture |-> rgb.picture]
    BY <1>1 DEF ScreenInv, Queued, LastShown, n
  <2>2. CASE n = 1
    <3>1. r.type = "put" /\ r.seg = seg /\ r.picture = rgb.picture
      BY <1>3, <2>1, <2>2
    <3>2. seg \in mapped
      <4>1. seg \in mapped \/ \E k \in 1 .. 1 - 1 : Asks(k, "attach", seg)
        BY <1>3, <1>6, <3>1 DEF ScreenInv, Queued, AttachedFirst, Asks, n
      <4> QED
        BY <4>1
    <3>3. memory[seg] = Rows(rgb.picture, rgb.size)
      BY DEF ScreenInv, RowsInPlace, WholePicture
    <3>4. ~disturbed' => screen'.rows = Rows(rgb.picture, rgb.size)
      BY <1>10, <3>1, <3>2, <3>3
    <3>5. requests' = <<>>
      BY <1>3, <2>2, EmptySeq
    <3> QED
      BY <3>4, <3>5
  <2>3. CASE n # 1
    <3>1. n - 1 \in 1 .. n - 1 /\ n - 1 + 1 = n /\ Len(requests') = n - 1
      BY <1>3, <2>3
    <3>2. requests'[n - 1] = requests[n] /\ requests' # <<>>
      BY <1>3, <3>1, EmptySeq
    <3> QED
      BY <2>1, <3>1, <3>2
  <2> QED
    BY <2>2, <2>3
<1>31. Queued'
  <2>1. OneMapped'
    BY <1>13 DEF OneMapped
  <2> QED
    BY <1>23, <1>25, <1>26, <1>27, <1>28, <1>29, <1>30, <2>1 DEF Queued
<1> QED
  BY <1>18, <1>19, <1>22, <1>31 DEF ScreenInv

LEMMA FittedPrefix ==
    ASSUME NEW q, NEW p, NEW i \in Nat, NEW g, NEW d, NEW m,
           \A k \in 1 .. i - 1 : p[k] = q[k], Fitted(q, i, g, d, m)
    PROVE  Fitted(p, i, g, d, m)
<1>1. ASSUME NEW k \in 1 .. i - 1, NEW j \in k + 1 .. i - 1
      PROVE  j \in 1 .. i - 1
  OBVIOUS
<1> QED
  BY <1>1 DEF Fitted

LEMMA FittedPast ==
    ASSUME NEW q, NEW i \in Nat \ {0}, NEW g, NEW d, NEW m,
           q[i].type # "resize", Fitted(q, i, g, d, m)
    PROVE  Fitted(q, i + 1, g, d, m)
<1>1. i + 1 - 1 = i /\ \A k \in 1 .. i - 1 : k \in 1 .. i
  OBVIOUS
<1>2. CASE d = m /\ \A j \in 1 .. i - 1 : q[j].type # "resize"
  <2>1. \A j \in 1 .. i : j \in 1 .. i - 1 \/ j = i
    OBVIOUS
  <2> QED
    BY <1>1, <1>2, <2>1 DEF Fitted
<1>3. ASSUME NEW k \in 1 .. i - 1, q[k].type = "resize", q[k].seg = g,
             \A j \in k + 1 .. i - 1 : q[j].type # "resize"
      PROVE  Fitted(q, i + 1, g, d, m)
  <2>1. \A j \in k + 1 .. i : j \in k + 1 .. i - 1 \/ j = i
    OBVIOUS
  <2>2. \A j \in k + 1 .. i : q[j].type # "resize"
    BY <1>3, <2>1
  <2> QED
    BY <1>1, <1>3, <2>2 DEF Fitted
<1> QED
  BY <1>2, <1>3 DEF Fitted

\* The first request is taken.
LEMMA FittedTail ==
    ASSUME NEW q, NEW p, NEW i \in Nat, NEW g, NEW d, NEW m, NEW e,
           \A k \in 1 .. i : p[k] = q[k + 1], Fitted(q, i + 2, g, d, m),
           q[1].type = "resize" /\ q[1].seg = g => e = m,
           q[1].type # "resize" => e = d
    PROVE  Fitted(p, i + 1, g, e, m)
<1>1. i + 2 - 1 = i + 1 /\ i + 1 - 1 = i /\ 1 \in 1 .. i + 1
  OBVIOUS
<1>2. ASSUME NEW j \in 1 .. i
      PROVE  j + 1 \in 1 .. i + 1
  OBVIOUS
<1>3. ASSUME \A j \in 1 .. i + 1 : q[j].type # "resize", d = m
      PROVE  Fitted(p, i + 1, g, e, m)
  BY <1>1, <1>2, <1>3 DEF Fitted
<1>4. ASSUME NEW k \in 1 .. i + 1, q[k].type = "resize", q[k].seg = g,
             \A j \in k + 1 .. i + 1 : q[j].type # "resize"
      PROVE  Fitted(p, i + 1, g, e, m)
  <2>1. CASE k = 1
    <3>1. ASSUME NEW j \in 1 .. i
          PROVE  p[j].type # "resize"
      <4>1. j + 1 \in k + 1 .. i + 1
        BY <2>1
      <4> QED
        BY <1>4, <4>1
    <3> QED
      BY <1>1, <1>4, <2>1, <3>1 DEF Fitted
  <2>2. CASE k # 1
    <3>1. k - 1 \in 1 .. i /\ k - 1 + 1 = k
      BY <2>2
    <3>2. p[k - 1] = q[k]
      BY <3>1
    <3>3. ASSUME NEW j \in k - 1 + 1 .. i
          PROVE  p[j].type # "resize"
      <4>1. j \in 1 .. i /\ j + 1 \in k + 1 .. i + 1
        BY <2>2
      <4> QED
        BY <1>4, <4>1
    <3> QED
      BY <1>1, <1>4, <3>1, <3>2, <3>3 DEF Fitted
  <2> QED
    BY <2>1, <2>2
<1> QED
  BY <1>1, <1>3, <1>4 DEF Fitted

\* The receiver has no window, or one nothing was asked of yet.
LEMMA FreshWindow ==
    requests = <<>> /\ seg = 0 /\ screen = Blank /\ WindowTypes => WindowInv
<1> SUFFICES ASSUME requests = <<>>, seg = 0, screen = Blank, WindowTypes
             PROVE  WindowInv
  OBVIOUS
<1>1. Len(requests) = 0 /\ Len(screen.rows) = 0 /\ win.size \in Nat
  BY EmptySeq DEF Blank, WindowTypes
<1>2. RowsFit /\ ResizesFit /\ PutsFit
  BY <1>1 DEF RowsFit, ResizesFit, PutsFit
<1> QED
  BY <1>2 DEF WindowInv

LEMMA FreshWindowStep ==
    ASSUME ScreenInv, WindowInv,
           ReceiverBinds \/ ReceiverBindFails \/ ReceiverAccepts \/ OpenWindow \/ Ends
    PROVE  WindowInv'
<1> USE DEF xserver, display
<1>1. requests' = <<>> /\ seg' = 0 /\ screen' = Blank
  <2>1. CASE ReceiverBinds \/ ReceiverBindFails \/ ReceiverAccepts \/ OpenWindow
    <3>1. receiver \in {"bind", "accept", "display"} /\ UNCHANGED <<requests, seg, screen>>
      BY <2>1 DEF ReceiverBinds, ReceiverBindFails, ReceiverAccepts, OpenWindow
    <3> QED
      BY <3>1 DEF ScreenInv, ScreenTypes, Fresh
  <2>2. CASE Ends
    BY <2>2 DEF Ends
  <2> QED
    BY <2>1, <2>2
<1>2. WindowTypes'
  <2>1. CASE ReceiverBinds \/ ReceiverBindFails \/ ReceiverAccepts
    <3>1. UNCHANGED <<win, managed, todo>> /\ receiver' \notin Windowed
      BY <2>1 DEF ReceiverBinds, ReceiverBindFails, ReceiverAccepts, Windowed
    <3> QED
      BY <3>1 DEF WindowInv, WindowTypes
  <2>2. CASE OpenWindow
    <3>1. WindowSize \in Nat /\ <<>> \in Seq([type : {"map", "resize"}, size : Nat])
      BY RenderersAssumption, EmptySeq
    <3> DEFINE x == [type |-> "map", size |-> WindowSize]
    <3>2. <<x>> \in Seq([type : {"map", "resize"}, size : Nat]) /\ <<x>> # <<>>
      BY <3>1
    <3> HIDE DEF x
    <3>3. /\ managed' \in BOOLEAN /\ win' = [mapped |-> ~managed', size |-> WindowSize]
          /\ todo' = IF managed' THEN <<x>> ELSE <<>>
      BY <2>2 DEF OpenWindow, x
    <3>4. win' \in [mapped : BOOLEAN, size : Nat] /\ (~win'.mapped => managed')
      BY <3>1, <3>3
    <3>5. CASE managed'
      BY <3>2, <3>3, <3>4, <3>5 DEF WindowTypes
    <3>6. CASE ~managed'
      BY <3>1, <3>3, <3>4, <3>6 DEF WindowTypes
    <3> QED
      BY <3>5, <3>6
  <2>3. CASE Ends
    <3>1. win' = NoWindow /\ managed' = FALSE /\ todo' = <<>> /\ receiver' = "ended"
      BY <2>3 DEF Ends
    <3>2. NoWindow \in [mapped : BOOLEAN, size : Nat] /\ <<>> \in Seq([type : {"map", "resize"}, size : Nat])
      BY EmptySeq DEF NoWindow
    <3> QED
      BY <3>1, <3>2 DEF WindowTypes, Windowed
  <2> QED
    BY <2>1, <2>2, <2>3
<1>3. (requests = <<>> /\ seg = 0 /\ screen = Blank /\ WindowTypes => WindowInv)'
  BY FreshWindow, PTL
<1> QED
  BY <1>1, <1>2, <1>3

\* Steps that ask nothing of the window.
LEMMA WindowSame ==
    ASSUME ScreenInv, WindowInv, UNCHANGED <<requests, seg, win, managed, todo>>,
           screen' \in {screen, Blank}, receiver' \in Windowed => receiver \in Windowed,
           \A g \in 1 .. seg : Len(memory'[g]) = Len(memory[g])
    PROVE  WindowInv'
<1>1. WindowTypes'
  BY DEF WindowInv, WindowTypes
<1>2. RowsFit'
  <2>1. Len(Blank.rows) = 0 /\ win.size \in Nat
    BY EmptySeq DEF Blank, WindowInv, WindowTypes
  <2> QED
    BY <2>1 DEF WindowInv, RowsFit
<1>3. \A i \in 1 .. Len(requests) : requests[i].seg \in 1 .. seg
  BY DEF ScreenInv, Queued, OfSegments
<1>4. ResizesFit'
  BY <1>3 DEF WindowInv, ResizesFit
<1>5. PutsFit'
  <2>1. Destined' = Destined
    BY DEF Destined
  <2>2. seg > 0 => seg \in 1 .. seg
    BY DEF ScreenInv, ScreenTypes
  <2> QED
    BY <1>3, <2>1, <2>2 DEF WindowInv, PutsFit
<1> QED
  BY <1>1, <1>2, <1>4, <1>5 DEF WindowInv

\* A picture more is asked to be shown.
LEMMA PutWindow == ASSUME ScreenInv, WindowInv, Put PROVE WindowInv'
<1> USE DEF xserver, display
<1> DEFINE new == [type |-> "put", seg |-> seg, picture |-> rgb.picture]
           n == Len(requests)
           d == Destined
<1>1. /\ receiver = "put" /\ receiver' = "decode" /\ requests' = Append(requests, new)
      /\ UNCHANGED <<seg, memory, screen, win, managed, todo>>
  BY DEF Put
<1>2. /\ requests \in Seq(Request) /\ n \in Nat /\ seg \in Nat /\ seg > 0
      /\ new \in Request /\ new.type = "put" /\ new.seg = seg
  <2>1. requests \in Seq(Request) /\ seg \in Nat /\ seg > 0 /\ rgb.picture \in Nat
    BY <1>1 DEF ScreenInv, ScreenTypes, Sized
  <2> QED
    BY <2>1, LenProperties DEF Request
<1> HIDE DEF new
<1>3. /\ Len(requests') = n + 1 /\ requests'[n + 1] = new
      /\ \A i \in 1 .. n : requests'[i] = requests[i]
  BY <1>1, <1>2, AppendProperties
<1>4. /\ \A i \in 1 .. n : requests[i].type = "put" =>
            Fitted(requests, i, requests[i].seg, d, Len(memory[requests[i].seg]))
      /\ Fitted(requests, n + 1, seg, d, Len(memory[seg]))
      /\ Destined' = d
  BY <1>1, <1>2 DEF WindowInv, PutsFit, Destined
<1>5. \A i \in 1 .. n : requests[i].type = "resize" => requests[i].size = Len(memory[requests[i].seg])
  BY DEF WindowInv, ResizesFit
<1> HIDE DEF n, d
<1>6. WindowTypes' /\ RowsFit'
  BY <1>1 DEF WindowInv, WindowTypes, RowsFit, Windowed
<1>7. \A i \in 1 .. n + 1 : i \in Nat /\ (i \in 1 .. n \/ i = n + 1)
  BY <1>2
<1>8. ResizesFit'
  BY <1>1, <1>2, <1>3, <1>5, <1>7 DEF ResizesFit
<1>9. ASSUME NEW i \in 1 .. n + 1, NEW g, NEW m, Fitted(requests, i, g, d, m)
      PROVE  Fitted(requests', i, g, d, m)
  <2>1. \A k \in 1 .. i - 1 : requests'[k] = requests[k]
    BY <1>2, <1>3
  <2> QED
    BY <1>7, <1>9, <2>1, FittedPrefix
<1>10. ASSUME NEW i \in 1 .. n + 1, requests'[i].type = "put"
       PROVE  Fitted(requests', i, requests'[i].seg, d, Len(memory[requests'[i].seg]))
  <2>1. CASE i \in 1 .. n
    BY <1>3, <1>4, <1>9, <1>10, <2>1
  <2>2. CASE i = n + 1
    BY <1>2, <1>3, <1>4, <1>9, <2>2
  <2> QED
    BY <1>7, <2>1, <2>2
<1>11. Fitted(requests', n + 2, seg, d, Len(memory[seg]))
  <2>1. n + 1 \in Nat \ {0} /\ n + 1 \in 1 .. n + 1 /\ n + 1 + 1 = n + 2
    BY <1>2
  <2>2. Fitted(requests', n + 1, seg, d, Len(memory[seg])) /\ requests'[n + 1].type # "resize"
    BY <1>2, <1>3, <1>4, <1>9, <2>1
  <2>3. Fitted(requests', n + 1 + 1, seg, d, Len(memory[seg]))
    BY ONLY <2>1, <2>2, FittedPast
  <2> QED
    BY <2>1, <2>3
<1>12. PutsFit'
  <2>1. Len(requests') + 1 = n + 2
    BY <1>2, <1>3
  <2> QED
    BY <1>1, <1>3, <1>4, <1>10, <1>11, <2>1 DEF PutsFit
<1> QED
  BY <1>6, <1>8, <1>12 DEF WindowInv

\* Another size is asked for.
LEMMA ResizeWindow == ASSUME ScreenInv, WindowInv, Resize PROVE WindowInv'
<1> USE DEF xserver, display
<1> DEFINE n == Len(requests)
           d == Destined
           resize == [type |-> "resize", seg |-> seg + 1, size |-> rgb.size]
           detach == [type |-> "detach", seg |-> seg]
           attach == [type |-> "attach", seg |-> seg + 1]
<1>1. /\ receiver = "resize" /\ receiver' = "copy" /\ seg' = seg + 1
      /\ UNCHANGED <<screen, win, managed, todo>>
  BY DEF Resize, Remade
<1>2. n \in Nat /\ seg \in Nat /\ rgb.size \in Nat
  BY LenProperties DEF ScreenInv, ScreenTypes
<1>3. /\ resize.type = "resize" /\ resize.seg = seg + 1 /\ resize.size = rgb.size
      /\ detach.type = "detach" /\ attach.type = "attach"
  OBVIOUS
<1> HIDE DEF detach, attach, resize
<1>4. PICK m \in {1, 2} :
         /\ Len(requests') = n + m + 1
         /\ \A i \in 1 .. n : requests'[i] = requests[i]
         /\ n + 1 \in 1 .. n + m /\ requests'[n + 1] = resize
         /\ m = 2 => requests'[n + 2] = detach
         /\ requests'[n + m + 1] = attach
         /\ \A i \in 1 .. Len(requests') : \/ i \in 1 .. n
                                           \/ i = n + 1
                                           \/ i = n + 2 /\ m = 2
                                           \/ i = n + m + 1
  BY ResizeAsks DEF n, resize, detach, attach
<1>5. /\ \A g \in 1 .. seg : memory'[g] = memory[g]
      /\ Len(memory'[seg + 1]) = rgb.size
  BY ResizeMemory
<1>6. Destined' = d
  BY <1>1 DEF Destined
<1>7. \A i \in 1 .. n : requests[i].seg \in 1 .. seg
  BY DEF ScreenInv, Queued, OfSegments, n
<1>8. \A i \in 1 .. n : requests[i].type = "put" =>
         Fitted(requests, i, requests[i].seg, d, Len(memory[requests[i].seg]))
  BY DEF WindowInv, PutsFit, n
<1>9. \A i \in 1 .. n : requests[i].type = "resize" => requests[i].size = Len(memory[requests[i].seg])
  BY DEF WindowInv, ResizesFit, n
<1> HIDE DEF n, d
<1>10. WindowTypes' /\ RowsFit'
  BY <1>1 DEF WindowInv, WindowTypes, RowsFit, Windowed
<1>11. ResizesFit'
  <2> SUFFICES ASSUME NEW i \in 1 .. Len(requests'), requests'[i].type = "resize"
               PROVE  requests'[i].size = Len(memory'[requests'[i].seg])
    BY DEF ResizesFit
  <2>1. CASE i \in 1 .. n
    BY <1>4, <1>5, <1>7, <1>9, <2>1
  <2>2. CASE i = n + 1
    BY <1>3, <1>4, <1>5, <2>2
  <2> QED
    BY <1>3, <1>4, <2>1, <2>2
<1>12. ASSUME NEW i \in 1 .. Len(requests'), requests'[i].type = "put"
       PROVE  Fitted(requests', i, requests'[i].seg, d, Len(memory'[requests'[i].seg]))
  <2>1. i \in 1 .. n
    BY <1>3, <1>4, <1>12
  <2>2. \A k \in 1 .. i - 1 : k \in 1 .. n
    BY <1>2, <2>1
  <2>3. \A k \in 1 .. i - 1 : requests'[k] = requests[k]
    BY <1>4, <2>2
  <2>4. i \in Nat /\ Fitted(requests, i, requests[i].seg, d, Len(memory[requests[i].seg]))
    BY <1>2, <1>4, <1>8, <1>12, <2>1
  <2>5. Fitted(requests', i, requests[i].seg, d, Len(memory[requests[i].seg]))
    BY <2>3, <2>4, FittedPrefix
  <2> QED
    BY <1>4, <1>5, <1>7, <2>1, <2>5
<1>13. Fitted(requests', Len(requests') + 1, seg + 1, d, Len(memory'[seg + 1]))
  <2>1. n + 1 \in 1 .. Len(requests') + 1 - 1
    BY <1>2, <1>4
  <2>2. ASSUME NEW j \in n + 1 + 1 .. Len(requests') + 1 - 1
        PROVE  requests'[j].type # "resize"
    <3>1. j \in 1 .. Len(requests') /\ j # n + 1 /\ j \notin 1 .. n
      BY <1>2, <1>4
    <3> QED
      BY <1>3, <1>4, <3>1
  <2> QED
    BY <1>3, <1>4, <2>1, <2>2 DEF Fitted
<1>14. PutsFit'
  BY <1>1, <1>6, <1>12, <1>13 DEF PutsFit
<1> QED
  BY <1>10, <1>11, <1>14 DEF WindowInv

\* The X server takes the first request.
LEMMA ServeWindow == ASSUME ScreenInv, WindowInv, ServeRequest PROVE WindowInv'
<1> USE DEF xserver, display, local
<1> DEFINE r == Head(requests)
           n == Len(requests)
           d == Destined
           e == Destined'
<1>1. /\ requests # <<>> /\ Serves(r) /\ requests' = Tail(requests)
      /\ UNCHANGED <<receiver, seg, memory, managed>>
  BY DEF ServeRequest
<1>2. requests \in Seq(Request) /\ seg \in Nat
  BY DEF ScreenInv, ScreenTypes
<1>3. /\ n \in Nat \ {0} /\ Len(requests') = n - 1 /\ r = requests[1] /\ 1 \in 1 .. n
      /\ \A i \in 1 .. n - 1 : requests'[i] = requests[i + 1]
  <2>1. n \in Nat /\ n # 0
    BY <1>1, <1>2, LenProperties, EmptySeq
  <2> QED
    BY <1>1, <1>2, <2>1, HeadTailProperties
<1>4. r.type \in {"resize", "attach", "detach", "put"} /\ r.seg \in 1 .. seg
  BY <1>3, ScreenFacts DEF ScreenInv, Queued, OfSegments
<1>5. \A i \in 1 .. n : requests[i].seg \in 1 .. seg
  BY DEF ScreenInv, Queued, OfSegments
<1>6. r.type = "resize" => r.size = Len(memory[r.seg]) /\ r.size \in Nat
  <2>1. r.type = "resize" => r.size = Len(memory[r.seg])
    BY <1>3 DEF WindowInv, ResizesFit
  <2> QED
    BY <1>4, <2>1, ScreenFacts DEF ScreenInv
<1>7. /\ \A i \in 1 .. n : requests[i].type = "put" =>
            Fitted(requests, i, requests[i].seg, d, Len(memory[requests[i].seg]))
      /\ seg > 0 => Fitted(requests, n + 1, seg, d, Len(memory[seg]))
      /\ \A i \in 1 .. n : requests[i].type = "resize" => requests[i].size = Len(memory[requests[i].seg])
  BY DEF WindowInv, PutsFit, ResizesFit
<1>8. /\ win \in [mapped : BOOLEAN, size : Nat] /\ managed \in BOOLEAN
      /\ todo \in Seq([type : {"map", "resize"}, size : Nat])
      /\ ~managed => todo = <<>>
      /\ receiver \in Windowed /\ ~win.mapped => todo # <<>>
      /\ Len(screen.rows) <= win.size
  BY DEF WindowInv, WindowTypes, RowsFit
<1> HIDE DEF r, n
\* What it does to the window.
<1>9. /\ WindowTypes' /\ RowsFit'
      /\ e = IF r.type = "resize" THEN r.size ELSE d
  <2>1. CASE r.type = "resize" /\ managed
    <3> DEFINE x == [type |-> "resize", size |-> r.size]
    <3>1. x \in [type : {"map", "resize"}, size : Nat] /\ x.size = r.size
      BY <1>6, <2>1
    <3>2. todo' = Append(todo, x) /\ UNCHANGED <<win, screen>>
      BY <1>1, <2>1 DEF Serves
    <3> HIDE DEF x
    <3>3. /\ todo' \in Seq([type : {"map", "resize"}, size : Nat])
          /\ Len(todo') = Len(todo) + 1 /\ todo'[Len(todo) + 1] = x /\ Len(todo) \in Nat
      BY <1>8, <3>1, <3>2, AppendProperties, LenProperties
    <3>4. todo' # <<>>
      BY <3>3, EmptySeq
    <3> QED
      BY <1>1, <1>8, <2>1, <3>1, <3>2, <3>3, <3>4 DEF WindowTypes, RowsFit, Destined
  <2>2. CASE r.type = "resize" /\ ~managed
    <3>1. GivenSize(r.size) /\ UNCHANGED todo
      BY <1>1, <2>2 DEF Serves
    <3>2. /\ win' = [win EXCEPT !.size = r.size]
          /\ screen' = IF r.size = win.size THEN screen ELSE Blank
      BY <3>1 DEF GivenSize
    <3>3. /\ win' \in [mapped : BOOLEAN, size : Nat] /\ win'.mapped = win.mapped
          /\ win'.size = r.size /\ todo' = <<>>
      BY <1>6, <1>8, <2>2, <3>1, <3>2
    <3>4. Len(screen'.rows) <= win'.size
      <4>1. Len(Blank.rows) = 0
        BY EmptySeq DEF Blank
      <4> QED
        BY <1>6, <1>8, <2>2, <3>2, <3>3, <4>1
    <3> QED
      BY <1>1, <1>8, <2>2, <3>1, <3>3, <3>4 DEF WindowTypes, RowsFit, Destined
  <2>3. CASE r.type # "resize"
    <3>1. UNCHANGED <<win, todo>>
      BY <1>1, <1>4, <2>3 DEF Serves
    <3>2. screen' = screen \/ screen'.rows = Drawn(memory[r.seg], screen.rows, win.size)
      BY <1>1, <1>4, <2>3 DEF Serves
    <3>3. Len(Drawn(memory[r.seg], screen.rows, win.size)) <= win.size
      <4>1. memory[r.seg] \in Seq(RowRecord) /\ screen.rows \in Seq(RowRecord) /\ win.size \in Nat
        BY <1>4, <1>8, ScreenFacts DEF ScreenInv, ScreenTypes
      <4> QED
        BY <1>8, <4>1, DrawnFacts
    <3>4. Len(screen'.rows) <= win.size
      BY <1>8, <3>2, <3>3
    <3> QED
      BY <1>1, <1>8, <2>3, <3>1, <3>4 DEF WindowTypes, RowsFit, Destined
  <2> QED
    BY <1>8, <2>1, <2>2, <2>3
<1> HIDE DEF d, e
<1>10. \A i \in 1 .. n : i - 1 \in Nat /\ i - 1 + 1 = i /\ i - 1 + 2 = i + 1 /\ i + 1 - 1 = i
  BY <1>3
<1>11. ASSUME NEW i \in 1 .. n, NEW g \in 1 .. seg,
              Fitted(requests, i + 1, g, d, Len(memory[g]))
       PROVE  Fitted(requests', i, g, e, Len(memory[g]))
  <2>1. \A k \in 1 .. i - 1 : requests'[k] = requests[k + 1]
    BY <1>3
  <2>2. requests[1].type = "resize" /\ requests[1].seg = g => e = Len(memory[g])
    BY <1>3, <1>6, <1>9
  <2>3. requests[1].type # "resize" => e = d
    BY <1>3, <1>9
  <2>4. Fitted(requests, i - 1 + 2, g, d, Len(memory[g])) /\ i - 1 \in Nat
    BY <1>10, <1>11
  <2>5. Fitted(requests', i - 1 + 1, g, e, Len(memory[g]))
    BY ONLY <2>1, <2>2, <2>3, <2>4, FittedTail
  <2> QED
    BY <1>10, <2>5
<1>12. ResizesFit'
  <2> SUFFICES ASSUME NEW i \in 1 .. n - 1, requests'[i].type = "resize"
               PROVE  requests'[i].size = Len(memory[requests'[i].seg])
    BY <1>1, <1>3 DEF ResizesFit
  <2>1. i + 1 \in 1 .. n /\ requests'[i] = requests[i + 1]
    BY <1>3
  <2> QED
    BY <1>7, <2>1
<1>13. ASSUME NEW i \in 1 .. n - 1, requests'[i].type = "put"
       PROVE  Fitted(requests', i, requests'[i].seg, e, Len(memory[requests'[i].seg]))
  <2>1. i \in 1 .. n /\ i + 1 \in 1 .. n /\ requests'[i] = requests[i + 1]
    BY <1>3
  <2>2. Fitted(requests, i + 1, requests'[i].seg, d, Len(memory[requests'[i].seg]))
    BY <1>7, <1>13, <2>1
  <2> QED
    BY <1>5, <1>11, <2>1, <2>2
<1>14. seg > 0 => Fitted(requests', n, seg, e, Len(memory[seg]))
  <2>1. n \in 1 .. n /\ (seg > 0 => seg \in 1 .. seg)
    BY <1>2, <1>3
  <2> QED
    BY <1>7, <1>11, <2>1
<1>15. PutsFit'
  <2>1. Len(requests') + 1 = n
    BY <1>3
  <2> QED
    BY <1>1, <1>3, <1>13, <1>14, <2>1 DEF PutsFit, e
<1> QED
  BY <1>9, <1>12, <1>15 DEF WindowInv

\* The window manager maps the window, or gives it a size it was asked for.
LEMMA ManagerWindow == ASSUME ScreenInv, WindowInv, ManagerActs PROVE WindowInv'
<1> USE DEF display, local
<1> DEFINE d == Destined
           W == [type : {"map", "resize"}, size : Nat]
<1>1. /\ todo # <<>> /\ todo' = Tail(todo)
      /\ win' = [mapped |-> TRUE, size |-> Head(todo).size]
      /\ screen' = IF win' = win THEN screen ELSE Blank
      /\ UNCHANGED <<receiver, seg, requests, memory, managed>>
  BY DEF ManagerActs
<1>2. /\ todo \in Seq(W) /\ managed \in BOOLEAN /\ (~managed => todo = <<>>)
      /\ Len(screen.rows) <= win.size
  BY DEF WindowInv, WindowTypes, RowsFit
<1>3. /\ Head(todo) \in W /\ Head(todo) = todo[1] /\ todo' \in Seq(W)
      /\ Len(todo) \in Nat \ {0} /\ Len(todo') = Len(todo) - 1
      /\ \A i \in 1 .. Len(todo) - 1 : todo'[i] = todo[i + 1]
  <2> HIDE DEF W
  <2>1. Len(todo) \in Nat /\ Len(todo) # 0
    BY <1>1, <1>2, LenProperties, EmptySeq
  <2>2. /\ Head(todo) = todo[1] /\ Tail(todo) \in Seq(W) /\ Len(Tail(todo)) = Len(todo) - 1
        /\ \A i \in 1 .. Len(todo) - 1 : Tail(todo)[i] = todo[i + 1]
    BY <1>1, <1>2, <2>1, HeadTailProperties
  <2>3. todo[1] \in W
    BY <1>2, <2>1, ElementOfSeq
  <2> QED
    BY <1>1, <2>1, <2>2, <2>3
<1>4. win' \in [mapped : BOOLEAN, size : Nat] /\ win'.mapped /\ win'.size = Head(todo).size
  BY <1>1, <1>3
<1>5. WindowTypes'
  <2>1. managed
    BY <1>1, <1>2
  <2> QED
    BY <1>1, <1>3, <1>4, <2>1 DEF WindowTypes
<1>6. RowsFit'
  <2>1. Len(Blank.rows) = 0
    BY EmptySeq DEF Blank
  <2> QED
    BY <1>1, <1>2, <1>4, <2>1 DEF RowsFit
<1>7. Destined' = d
  <2>1. CASE Len(todo) = 1
    <3>1. todo' = <<>>
      BY <1>3, <2>1, EmptySeq
    <3> QED
      BY <1>1, <1>3, <1>4, <2>1, <3>1 DEF Destined
  <2>2. CASE Len(todo) # 1
    <3>1. todo' # <<>> /\ Len(todo') \in 1 .. Len(todo) - 1 /\ Len(todo') + 1 = Len(todo)
      BY <1>3, <2>2, EmptySeq
    <3>2. todo'[Len(todo')] = todo[Len(todo)]
      BY <1>3, <3>1
    <3> QED
      BY <1>1, <3>1, <3>2 DEF Destined
  <2> QED
    BY <2>1, <2>2
<1>8. ResizesFit' /\ PutsFit'
  BY <1>1, <1>7 DEF WindowInv, ResizesFit, PutsFit
<1> QED
  BY <1>5, <1>6, <1>8 DEF WindowInv

\* What the window loses.
LEMMA WindowScreen == ASSUME ScreenInv, ManagerActs \/ Covered PROVE ScreenInv'
<1> USE DEF display, local
<1>1. /\ screen' \in {screen, Blank} /\ disturbed'
      /\ UNCHANGED <<receiver, packet, held, sws, rgb, last, seg, copied, requests, memory, mapped, failed>>
  BY DEF ManagerActs, Covered
<1>2. Blank.picture \in Nat /\ Blank.rows \in Seq(RowRecord)
  BY EmptySeq DEF Blank
<1>3. ScreenTypes' /\ Sized'
  BY <1>1, <1>2 DEF ScreenInv, ScreenTypes, Sized, Fresh
<1>4. RowsInPlace'
  BY <1>1 DEF ScreenInv, RowsInPlace, SegmentRows, RequestedRows, CopiedRows, WholePicture, ShownRows
<1>5. Queued'
  BY <1>1 DEF ScreenInv, Queued, OfSegments, InOrder, OneMapped, DetachedFirst, OldDetached, NewAttached,
              AttachedFirst, LastShown, Asks
<1> QED
  BY <1>3, <1>4, <1>5 DEF ScreenInv

\* A row copied leaves a segment its size.
LEMMA CopyRowLengths ==
    ASSUME ScreenInv, CopyRow
    PROVE  \A g \in 1 .. seg : Len(memory'[g]) = Len(memory[g])
<1> DEFINE n == copied + 1
           row == Row(rgb.picture, n)
           rows == [memory[seg] EXCEPT ![n] = row]
<1>1. receiver = "copy" /\ memory' = [memory EXCEPT ![seg] = rows]
  BY DEF CopyRow
<1>2. /\ seg \in 1 .. seg /\ Len(memory[seg]) = last /\ n \in 1 .. last
      /\ memory \in Seq(Seq(RowRecord)) /\ Len(memory) = seg
      /\ rgb.picture \in Nat /\ n \in Nat
  BY <1>1 DEF ScreenInv, ScreenTypes, Sized
<1>3. row \in RowRecord
  BY <1>2 DEF Row, RowRecord
<1>4. memory[seg] \in Seq(RowRecord)
  BY <1>2, ScreenFacts DEF ScreenInv
<1> HIDE DEF row, n
<1>5. rows \in Seq(RowRecord) /\ Len(rows) = Len(memory[seg])
  BY <1>2, <1>3, <1>4, ExceptSeq
<1> HIDE DEF rows
<1>6. memory'[seg] = rows /\ \A g \in 1 .. seg : g # seg => memory'[g] = memory[g]
  BY <1>1, <1>2, <1>5, ExceptSeq
<1> QED
  BY <1>5, <1>6

LEMMA InitScreen == ASSUME Init PROVE ScreenInv /\ WindowInv
<1>1. Fresh /\ copied \in Nat /\ Starting
  BY DEF Init, ReceiverInit, Fresh, Starting, ReceiverStates, Receiving
<1>2. WindowTypes
  <2>1. NoWindow \in [mapped : BOOLEAN, size : Nat]
        /\ <<>> \in Seq([type : {"map", "resize"}, size : Nat])
    BY EmptySeq DEF NoWindow
  <2> QED
    BY <2>1 DEF Init, ReceiverInit, WindowTypes, Windowed
<1> QED
  BY <1>1, <1>2, FreshScreen, FreshWindow DEF Fresh

LEMMA NextScreen ==
    ASSUME ConnInv, FlowInv, ScreenInv, WindowInv, [Next]_vars
    PROVE  ScreenInv' /\ WindowInv'
<1>1. FlowInv'
  BY NextFlow
<1>2. ASSUME UNCHANGED receiverVars
      PROVE  ScreenInv' /\ WindowInv'
  <2>1. /\ UNCHANGED <<receiver, packet, held, sws, rgb, last, seg, copied, requests, memory, mapped, screen, failed>>
        /\ UNCHANGED <<win, managed, todo, disturbed>>
    BY <1>2 DEF receiverVars, local, xserver, display
  <2>2. ScreenTypes' /\ Sized'
    BY <2>1 DEF ScreenInv, ScreenTypes, Sized, Fresh
  <2>3. RowsInPlace'
    BY <2>1 DEF ScreenInv, RowsInPlace, SegmentRows, RequestedRows, CopiedRows, WholePicture, ShownRows
  <2>4. Queued'
    BY <2>1 DEF ScreenInv, Queued, OfSegments, InOrder, OneMapped, DetachedFirst, OldDetached, NewAttached,
                AttachedFirst, LastShown, Asks
  <2>5. WindowInv'
    BY <2>1, WindowSame
  <2> QED
    BY <2>2, <2>3, <2>4, <2>5 DEF ScreenInv
<1>3. ASSUME NEW s \in Sender, Connects(s) \/ Begin(s) \/ Continue(s) \/ End(s)
      PROVE  UNCHANGED receiverVars
  BY <1>3 DEF Connects, Begin, Continue, End, ServersVars
<1>4. CASE SenderNext \/ IgniteStep \/ GhostStep \/ UNCHANGED vars
  BY <1>2, <1>3, <1>4 DEF SenderNext, IgniteStep, GhostStep, vars
<1>5. CASE ReceiverStep \/ ReceiverBreaks
  <2>1. CASE ReceiverBinds \/ ReceiverBindFails \/ ReceiverAccepts \/ OpenWindow \/ Ends
    BY <2>1, StaysFresh, FreshWindowStep
  <2>2. CASE ReadPacketHeader \/ ReadPacket \/ NotDecoded \/ Picture
    <3>1. /\ UNCHANGED <<requests, seg, win, managed, todo, screen, memory>>
          /\ receiver \in Windowed
      BY <2>2 DEF ReadPacketHeader, ReadPacket, NotDecoded, Picture, Windowed, local, xserver, display
    <3>2. WindowInv'
      BY <3>1, WindowSame
    <3>3. ScreenInv'
      BY <1>1, <2>2, ShowingSame, PictureScreen
    <3> QED
      BY <3>2, <3>3
  <2>3. CASE CopyRow
    <3>1. /\ UNCHANGED <<requests, seg, win, managed, todo, screen>> /\ receiver \in Windowed
          /\ memory' = [memory EXCEPT ![seg][copied'] = Row(rgb.picture, copied')]
      BY <2>3 DEF CopyRow, Windowed, xserver, display
    <3>2. WindowInv'
      BY <3>1, <2>3, WindowSame, CopyRowLengths
    <3> QED
      BY <2>3, <3>2, CopyRowScreen
  <2>4. CASE Resize
    BY <2>4, ResizeScreen, ResizeWindow
  <2>5. CASE Put
    BY <2>5, PutScreen, PutWindow
  <2> QED
    BY <1>5, <2>1, <2>2, <2>3, <2>4, <2>5
       DEF ReceiverStep, ReceiverBreaks, ReceiverNext, PeerEnds, NoDisplay, ErrorEnds
<1>6. CASE XServerStep
  BY <1>6, ServeScreen, ServeWindow DEF XServerStep
<1>7. CASE WindowStep
  <2>1. CASE ManagerActs
    BY <2>1, WindowScreen, ManagerWindow
  <2>2. CASE Covered
    <3>1. /\ screen' = Blank
          /\ UNCHANGED <<receiver, requests, seg, win, managed, todo, memory>>
      BY <2>2 DEF Covered, local
    <3> QED
      BY <2>2, <3>1, WindowScreen, WindowSame
  <2> QED
    BY <1>7, <2>1, <2>2 DEF WindowStep
<1> QED
  BY <1>4, <1>5, <1>6, <1>7 DEF Next

-----------------------------------------------------------------------------
(* The theorems                                                            *)

LEMMA AlwaysRInv == Spec => []RInv
<1>1. Init => RInv
  BY InitConn, InitFlow, InitScreen DEF RInv
<1>2. RInv /\ [Next]_vars => RInv'
  BY NextConn, NextFlow, NextScreen DEF RInv
<1> QED
  BY <1>1, <1>2, PTL DEF Spec

\* The places and types of the two programs, and what the connections of a
\* sender are to those they serve, agree.
THEOREM TypeCorrect == Spec => []TypeOK
<1>1. RInv => TypeOK
  <2> SUFFICES ASSUME RInv
               PROVE  TypeOK
    OBVIOUS
  <2>1. /\ listener \in {"none", "ghost", "receiver"}
        /\ listener = "ghost" <=> ghost \notin {"none", "bind", "ended", "exited"}
        /\ listener = "receiver" <=> receiver \notin {"bind", "deaf", "ended"}
    BY DEF RInv, ConnInv, OneListener, Idle
  <2>2. ASSUME NEW s \in Sender
        PROVE  /\ conn[s] = "open" <=> s \in client \cup peer
               /\ conn[s] = "waiting" <=> \E i \in DOMAIN backlog : backlog[i] = s
               /\ Len(stream[s]) <= Room
    <3>1. DOMAIN backlog = 1 .. Len(backlog)
      BY DEF RInv, ConnInv, ConnTypes
    <3> QED
      BY <3>1 DEF RInv, ConnInv, Connected, InBacklog, FlowInv, FlowTypes
  <2>3. engine <=> ghost # "none"
    BY DEF RInv, ConnInv, ConnTypes
  <2>4. GhostLimit \in Nat
    BY RenderersAssumption
  <2>5. header.size \in 0 .. GhostLimit
    BY <2>4 DEF RInv, FlowInv, HeaderRead, Drawable, NoHeader
  <2>6. ghost \in {"pixels", "draw"} => header.size \in 1 .. Len(pixels)
    <3>1. Len(pixels) \in Nat
      BY LenProperties DEF RInv, FlowInv, FlowTypes
    <3> QED
      BY <2>4, <3>1 DEF RInv, FlowInv, HeaderRead, Drawable
  <2>7. Len(requests) <= QueueSize
    BY DEF RInv, ScreenInv, ScreenTypes
  <2>8. receiver \in {"copy", "put"} => sws = rgb.size /\ Len(memory[seg]) = rgb.size /\ copied <= rgb.size
    <3>1. copied \in Nat /\ rgb.size \in Nat
      BY DEF RInv, ScreenInv, ScreenTypes
    <3> QED
      BY <3>1 DEF RInv, ScreenInv, Sized
  <2> QED
    BY <2>1, <2>2, <2>3, <2>5, <2>6, <2>7, <2>8 DEF TypeOK
<1> QED
  BY <1>1, AlwaysRInv, PTL

\* A picture libcyxv draws (handle_client, libcyxv.c) is one that its sender
\* sent, whole: the buffer keeps nothing of an earlier one, of a larger one or
\* of one that the end of the stream cut off.
THEOREM GhostPicturesAreWhole == Spec => []GhostFramesAreWhole
<1>1. RInv => GhostFramesAreWhole
  BY DEF RInv, FlowInv
<1> QED
  BY <1>1, AlwaysRInv, PTL

\* What the receiver's window shows is, row by row, the picture asked for or a
\* later one copied over it, and once the X server has caught up the last one
\* decoded, whole: the window is resized before the picture that needs it is
\* shown, and segments may go before the server has heard of them
\* (phoenix_receiver.c:189-222).  Excepted is a window covered since, and one
\* whose manager had yet to map or resize it.
THEOREM CurrentPictureIsShown == Spec => []ScreenIsCurrent
<1>1. RInv => ScreenIsCurrent
  <2> SUFFICES ASSUME RInv, ~disturbed
               PROVE  /\ \A k \in DOMAIN screen.rows : /\ screen.rows[k].at = k
                                                       /\ screen.rows[k].picture >= screen.picture
                      /\ requests = <<>> /\ receiver \in Showing /\ rgb.picture > 0 =>
                            screen.rows = Rows(rgb.picture, rgb.size)
    BY DEF ScreenIsCurrent, Showing
  <2>1. DOMAIN screen.rows = 1 .. Len(screen.rows)
    BY DEF RInv, ScreenInv, ScreenTypes
  <2>2. \A k \in DOMAIN screen.rows : /\ screen.rows[k].at = k
                                      /\ screen.rows[k].picture >= screen.picture
    BY <2>1 DEF RInv, ScreenInv, RowsInPlace, ShownRows
  <2>3. requests = <<>> /\ receiver \in Showing /\ rgb.picture > 0 =>
           screen.rows = Rows(rgb.picture, rgb.size)
    BY DEF RInv, ScreenInv, Queued, LastShown
  <2> QED
    BY <2>2, <2>3
<1> QED
  BY <1>1, AlwaysRInv, PTL

\* Changes of size do not pile up shared memory (phoenix_receiver.c): beside
\* the receiver's segment the X server keeps at most one alive, and none when it
\* has caught up.
THEOREM SegmentsAreReleased == Spec => []SegmentsReleased
<1>1. RInv => SegmentsReleased
  <2> SUFFICES ASSUME RInv
               PROVE  SegmentsReleased
    OBVIOUS
  <2>1. Cardinality(mapped \ {seg}) <= 1
    <3>1. CASE mapped \ {seg} = {}
      BY <3>1, FS_EmptySet
    <3>2. CASE mapped \ {seg} # {}
      <4>1. PICK g \in mapped \ {seg} : TRUE
        BY <3>2
      <4>2. mapped \ {seg} = {g}
        BY <4>1 DEF RInv, ScreenInv, Queued, OneMapped
      <4>3. Cardinality({g}) = 1
        BY FS_Singleton
      <4> QED
        BY <4>2, <4>3
    <3> QED
      BY <3>1, <3>2
  <2>2. requests = <<>> => mapped \subseteq {seg}
    <3>1. requests = <<>> => Len(requests) = 0
      BY EmptySeq
    <3> QED
      BY <3>1 DEF RInv, ScreenInv, Queued, OldDetached
  <2> QED
    BY <2>1, <2>2 DEF SegmentsReleased
<1> QED
  BY <1>1, AlwaysRInv, PTL
=============================================================================
