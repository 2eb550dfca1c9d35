---------------------------- MODULE GhostServer ----------------------------
(***************************************************************************)
(* libcyxv.c: the first request to the fake XVideo extension starts a      *)
(* thread inside XWin.exe that serves port 9999, one sender after another, *)
(* and draws the pictures they send.  A picture of size n has n pieces.    *)
(***************************************************************************)
EXTENDS Wire

CONSTANT GhostLimit \* the largest size, 8192 squared

VARIABLES engine,  \* engine_started
          ghost,   \* where phoenix_server is
          client,  \* the sender whose connection it handles, a set of at most one
          header,  \* the header it has read
          pixels,  \* the buffer; its length is pixels_cap
          window   \* the pieces drawn last
ghostVars == <<engine, ghost, client, header, pixels, window>>

NoHeader == [type |-> "none", size |-> 0]
Raw == [of |-> NoHeader, at |-> 0] \* what malloc returns

GhostInit == /\ engine = FALSE
             /\ ghost = "none"
             /\ client = {}
             /\ header = NoHeader
             /\ pixels = <<>>
             /\ window = <<>>

-----------------------------------------------------------------------------
\* FakeXvDispatch; every request but the first only returns.
Ignite == /\ ~engine
          /\ engine' = TRUE
          /\ ghost' = "bind"
          /\ UNCHANGED <<wire, client, header, pixels, window>>

Bind == /\ ghost = "bind"
        /\ Listens("ghost")
        /\ ghost' = "display"
        /\ UNCHANGED <<backlog, conn, stream, shut, engine, client, header, pixels, window>>

\* The thread returns, and engine_started stays set.
BindFails == /\ ghost = "bind"
             /\ listener # "none"
             /\ ghost' = "ended"
             /\ UNCHANGED <<wire, engine, client, header, pixels, window>>

OpenDisplay == /\ ghost = "display"
               /\ ghost' = "accept"
               /\ UNCHANGED <<wire, engine, client, header, pixels, window>>

OpenDisplayFails == /\ ghost = "display"
                    /\ ghost' = "ended"
                    /\ StopsListening({})
                    /\ UNCHANGED <<engine, client, header, pixels, window>>

Accept == /\ ghost = "accept"
          /\ \E s \in Sender : Accepts(s) /\ client' = {s}
          /\ ghost' = "header"
          /\ UNCHANGED <<listener, stream, shut, engine, header, pixels, window>>

-----------------------------------------------------------------------------
(* handle_client                                                           *)

\* The sentinel, a size of 0 or one too large ends the connection, and so does
\* a Phoenix header: its width, in the other byte order, is too large.
MutDrawable(h) == h.size \in 1 .. GhostLimit \* mutant: the header is taken for a picture's
Drawable(h) == h.type = "ghost" /\ h.size \in 1 .. GhostLimit

\* Mutant: the buffer is not grown for a larger picture.
MutGrown(n) == IF pixels = <<>> THEN [k \in 1 .. n |-> Raw] ELSE pixels
Grown(n) == IF n > Len(pixels) THEN [k \in 1 .. n |-> Raw] ELSE pixels

ReadHeader == /\ ghost = "header"
              /\ \E s \in client :
                    /\ HasSent(s, 1)
                    /\ Takes(s, 1)
                    /\ IF Drawable(stream[s][1])
                       THEN /\ header' = stream[s][1]
                            /\ pixels' = Grown(header'.size)
                            /\ ghost' = "pixels"
                       ELSE /\ ghost' = "hangup"
                            /\ UNCHANGED <<header, pixels>>
              /\ UNCHANGED <<listener, backlog, conn, shut, engine, client, window>>

MallocFails == /\ ghost = "header"
               /\ \E s \in client :
                     /\ HasSent(s, 1)
                     /\ Drawable(stream[s][1]) /\ stream[s][1].size > Len(pixels)
                     /\ Takes(s, 1)
               /\ pixels' = <<>>
               /\ ghost' = "hangup"
               /\ UNCHANGED <<listener, backlog, conn, shut, engine, client, header, window>>

\* Mutant: a picture cut short by the end of the stream is drawn.
MutReadPixels == /\ ghost = "pixels"
                 /\ \E s \in client :
                       LET n == IF HasSent(s, header.size) THEN header.size ELSE Len(stream[s])
                       IN  /\ n = header.size \/ s \in shut
                           /\ pixels' = [k \in DOMAIN pixels |->
                                             IF k <= n THEN stream[s][k] ELSE pixels[k]]
                           /\ Takes(s, n)
                 /\ ghost' = "draw"
                 /\ UNCHANGED <<listener, backlog, conn, shut, engine, client, header, window>>
ReadPixels == /\ ghost = "pixels"
              /\ \E s \in client :
                    /\ HasSent(s, header.size)
                    /\ pixels' = [k \in DOMAIN pixels |->
                                      IF k <= header.size THEN stream[s][k] ELSE pixels[k]]
                    /\ Takes(s, header.size)
              /\ ghost' = "draw"
              /\ UNCHANGED <<listener, backlog, conn, shut, engine, client, header, window>>

\* recv_all returns -1.
StreamEnds == /\ \E s \in client : \/ ghost = "header" /\ AtEnd(s, 1)
                                   \/ ghost = "pixels" /\ AtEnd(s, header.size)
              /\ ghost' = "hangup"
              /\ UNCHANGED <<wire, engine, client, header, pixels, window>>

\* XPutImage of the first pieces of the buffer.
Draw == /\ ghost = "draw"
        /\ window' = SubSeq(pixels, 1, header.size)
        /\ ghost' = "header"
        /\ UNCHANGED <<wire, engine, client, header, pixels>>

\* XCreateImage returns no image.
NotDrawn == /\ ghost = "draw"
            /\ ghost' = "header"
            /\ UNCHANGED <<wire, engine, client, header, pixels, window>>

\* The XID is the sender's, and may be no drawable's.  The error of XCreateGC or
\* XPutImage, of this picture or of one before, is read while Xlib sends, and
\* its default handler ends the process: XWin.exe, with the X server in it.
XErrorExits == /\ ghost = "draw"
               /\ ghost' = "exited"
               /\ client' = {}
               /\ pixels' = <<>> /\ header' = NoHeader /\ window' = <<>>
               /\ StopsListening(client)
               /\ UNCHANGED engine

\* Mutant: the thread ends with its first connection.
MutHangUp == /\ ghost = "hangup"
             /\ pixels' = <<>> /\ header' = NoHeader
             /\ client' = {}
             /\ ghost' = "ended"
             /\ Closes(client)
             /\ UNCHANGED <<listener, backlog, engine, window>>
HangUp == /\ ghost = "hangup"
          /\ pixels' = <<>> /\ header' = NoHeader
          /\ client' = {}
          /\ ghost' = "accept"
          /\ Closes(client)
          /\ UNCHANGED <<listener, backlog, engine, window>>

GhostNext == Bind \/ BindFails \/ OpenDisplay \/ OpenDisplayFails \/ Accept
             \/ ReadHeader \/ MallocFails \/ ReadPixels \/ StreamEnds
             \/ Draw \/ NotDrawn \/ XErrorExits \/ HangUp
=============================================================================
