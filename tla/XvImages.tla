------------------------------ MODULE XvImages ------------------------------
(***************************************************************************)
(* The life of one XV image: the client asks for its layout                *)
(* (h_QueryImageAttributes), fills a buffer by it and by the entry of      *)
(* g_formats, sends or shares a buffer (h_PutImage, h_ShmPutImage), and    *)
(* the render thread converts it (yv12_to_bgra, yuy2_to_bgra,              *)
(* nv12_to_bgra).  A put names any size and comes with any amount of data: *)
(* the handlers check neither, so the properties say for which puts they   *)
(* hold.                                                                   *)
(*                                                                         *)
(* The data is the index arithmetic, with the widths of its integers:      *)
(* which bytes of the buffer each output pixel is made of, and where it    *)
(* goes.                                                                   *)
(* The client side is external.                                            *)
(*                                                                         *)
(* Its specification's names say Image: XvProofs extends this module and   *)
(* XvReplies both.                                                         *)
(***************************************************************************)
EXTENDS Integers, Sequences

CONSTANTS DimMod,   \* 2^16: widths and heights are uint16_t in requests and replies
          IntMod,   \* 2^32: int and uint32_t
          Amounts   \* how many bytes of image a client may send or share

ASSUME ImagesAssumption == /\ DimMod \in Nat \ {0} /\ DimMod % 2 = 0
                           /\ IntMod \in Nat \ {0} /\ IntMod % 2 = 0
                           /\ Amounts \subseteq Nat

VARIABLES phase,    \* "idle", "laid_out", "rendering", "drawn"
          cc,       \* the image's fourcc, or "none"
          reply,    \* what QueryImageAttributes answered
          req,      \* the put request the client made of it
          copied,   \* bytes h_PutImage copied; 0 for a shared-memory image
          pos,      \* the converter's loop counters r and c
          out       \* the pixels converted so far: where each went, and the
                    \* bytes it was made of
imageVars == <<phase, cc, reply, req, copied, pos, out>>

Fourcc == {"YV12", "I420", "YUY2", "UYVY", "NV12"}

\* g_formats
Planar(planes, order) == [planes |-> planes, packed |-> FALSE, vert |-> 2, order |-> order]
Packed(order) == [planes |-> 1, packed |-> TRUE, vert |-> 1, order |-> order]
Format == [YV12 |-> Planar(3, <<"Y", "V", "U">>),
           I420 |-> Planar(3, <<"Y", "U", "V">>),
           YUY2 |-> Packed(<<"Y", "U", "Y", "V">>),
           UYVY |-> Packed(<<"U", "Y", "V", "Y">>),
           NV12 |-> Planar(2, <<"Y", "U", "V">>)]

-----------------------------------------------------------------------------
(* Integers of 32 bits.  A signed product that is too large is undefined;  *)
(* the build's multiplication wraps.                                       *)

Unsigned(n) == n % IntMod
Signed(n) == ((n + IntMod \div 2) % IntMod) - IntMod \div 2
Quotient(n, d) == IF n >= 0 THEN n \div d ELSE - ((- n) \div d)

\* The sizes none of whose products wraps: the largest is the index into bgra.
Fits(w, h) == 4 * (w * h) <= IntMod \div 2

-----------------------------------------------------------------------------
(* The server's layout: image_attrs                                        *)

Layout(pitches, offsets, size) == [pitches |-> pitches, offsets |-> offsets, size |-> size]
PackedAttrs(w, h) == Layout(<<w * 2>>, <<0>>, Unsigned(Signed(2 * (w * h))))
MutPlanarAttrs(w, h) == \* mutant: the third plane starts a row after the second
    LET y == Unsigned(Signed(w * h))
        c == Unsigned(Quotient(Signed(w * h), 4))
    IN  Layout(<<w, w \div 2, w \div 2>>, <<0, y, Unsigned(y + w \div 2)>>, Unsigned(y + 2 * c))
PlanarAttrs(w, h) ==
    LET y == Unsigned(Signed(w * h))
        c == Unsigned(Quotient(Signed(w * h), 4))
    IN  Layout(<<w, w \div 2, w \div 2>>, <<0, y, Unsigned(y + c)>>, Unsigned(y + 2 * c))
MutSemiPlanarAttrs(w, h) == \* mutant: room for one chroma component only
    LET y == Unsigned(Signed(w * h))
        c == Unsigned(Quotient(Signed(w * h), 4))
    IN  Layout(<<w, w>>, <<0, y>>, Unsigned(y + c))
SemiPlanarAttrs(w, h) ==
    LET y == Unsigned(Signed(w * h))
        c == Unsigned(Quotient(Signed(w * h), 2))
    IN  Layout(<<w, w>>, <<0, y>>, Unsigned(y + c))

Attrs(f, w, h) == CASE f \in {"YV12", "I420"} -> PlanarAttrs(w, h)
                    [] f = "NV12" -> SemiPlanarAttrs(w, h)
                    [] f \in {"YUY2", "UYVY"} -> PackedAttrs(w, h)

\* (n + 1) & ~1
Even(n) == ((n + 1) \div 2) * 2

-----------------------------------------------------------------------------
(* The client's layout: where it stores the sample of component k of pixel *)
(* <<r, c>>, by the reply and the format alone                             *)

Positions(f, k) == {i \in DOMAIN Format[f].order : Format[f].order[i] = k}
Lowest(S) == CHOOSE i \in S : \A j \in S : i <= j
Highest(S) == CHOOSE i \in S : \A j \in S : i >= j

\* Packed: two pixels share a group of four bytes, their Ys in order.
PackedSample(f, a, k, r, c) ==
    a.offsets[1] + r * a.pitches[1] + (c \div 2) * 4
      + (IF c % 2 = 0 THEN Lowest(Positions(f, k)) ELSE Highest(Positions(f, k))) - 1

\* A plane for each component, or one of pairs for U and V.
PlanarSample(f, a, k, r, c) ==
    LET i == Lowest(Positions(f, k))
    IN  CASE k = "Y" -> a.offsets[1] + r * a.pitches[1] + c
          [] k # "Y" /\ Format[f].planes = 3 ->
               a.offsets[i] + (r \div Format[f].vert) * a.pitches[i] + c \div 2
          [] OTHER -> a.offsets[2] + (r \div Format[f].vert) * a.pitches[2]
                        + 2 * (c \div 2) + (i - 2)

ClientSample(f, a, k, r, c) ==
    IF Format[f].packed THEN PackedSample(f, a, k, r, c) ELSE PlanarSample(f, a, k, r, c)

-----------------------------------------------------------------------------
(* The converters: the byte pixel <<r, c>> goes to, and those it is made of *)

Written(to, y, u, v) == [to |-> to, Y |-> y, U |-> u, V |-> v]
To(w, r, c) == Signed(4 * (r * w)) + 4 * c

MutYv12(i420, w, h, r, c) == \* mutant: the planes are not exchanged for I420
    LET uv == (r \div 2) * (w \div 2) + c \div 2
        first == Signed(w * h)
        second == first + (w \div 2) * (h \div 2)
    IN  Written(To(w, r, c), Signed(r * w + c), second + uv, first + uv)
Yv12(i420, w, h, r, c) ==
    LET uv == (r \div 2) * (w \div 2) + c \div 2
        first == Signed(w * h)
        second == first + (w \div 2) * (h \div 2)
    IN  Written(To(w, r, c), Signed(r * w + c), (IF i420 THEN first ELSE second) + uv,
                                             (IF i420 THEN second ELSE first) + uv)

\* One pass of the loop makes two pixels of four bytes, from an even c; where
\* the width is odd, the second lies behind the row.
Yuy2(w, r, c) == LET p == Signed(2 * (r * w)) + 2 * c
                 IN  << Written(To(w, r, c), p, p + 1, p + 3),
                        Written(To(w, r, c) + 4, p + 2, p + 1, p + 3) >>

Nv12(w, h, r, c) == LET uv == Signed(w * h) + (r \div 2) * w + 2 * (c \div 2)
                    IN  Written(To(w, r, c), Signed(r * w + c), uv, uv + 1)

\* The switch of render_frame: the pixels one pass of the chosen loop makes.
Pass(f, w, h, r, c) ==
    CASE f = "YV12" -> << Yv12(FALSE, w, h, r, c) >>
      [] f = "I420" -> << Yv12(TRUE, w, h, r, c) >>
      [] f \in {"YUY2", "UYVY"} -> Yuy2(w, r, c)
      [] f = "NV12" -> << Nv12(w, h, r, c) >>

-----------------------------------------------------------------------------
NoReply == [width |-> 0, height |-> 0, planes |-> 0, length |-> 0,
            attrs |-> [pitches |-> <<>>, offsets |-> <<>>, size |-> 0]]
NoReq == [width |-> 0, height |-> 0, bytes |-> 0]

ImageInit == /\ phase = "idle"
             /\ cc = "none"
             /\ reply = NoReply
             /\ req = NoReq
             /\ copied = 0
             /\ pos = <<0, 0>>
             /\ out = <<>>

\* The reply gives the layout of the size rounded up to be even, and that size
\* in 16 bits, in which the largest is 0.
h_QueryImageAttributes(f, width, height) ==
    /\ phase = "idle"
    /\ LET w == Even(width)
           h == Even(height)
           a == Attrs(f, w, h)
       IN  reply' = [width |-> w % DimMod, height |-> h % DimMod, planes |-> Len(a.pitches),
                     length |-> 2 * Len(a.pitches), attrs |-> a]
    /\ cc' = f
    /\ phase' = "laid_out"
    /\ UNCHANGED <<req, copied, pos, out>>

\* The client puts an image of any size, with any amount of data.  h_PutImage
\* copies as many bytes as image_attrs finds for that size, and ignores the
\* request if these are none; h_ShmPutImage copies none.  That it drops a frame
\* for want of memory or of room in the ring is FramePath's.
Put(inline, w, h, bytes) ==
    /\ phase = "laid_out"
    /\ LET size == Attrs(cc, w, h).size
       IN  /\ inline => size > 0
           /\ copied' = IF inline THEN size ELSE 0
    /\ req' = [width |-> w, height |-> h, bytes |-> bytes]
    /\ phase' = IF w = 0 \/ h = 0 THEN "drawn" ELSE "rendering"
    /\ UNCHANGED <<cc, reply, pos, out>>

\* A pass of the converter's inner loop.
Row == pos[1]
Col == pos[2]
Convert == /\ phase = "rendering"
           /\ LET px == Pass(cc, req.width, req.height, Row, Col)
                  next == Col + Len(px)
              IN  /\ out' = out \o px
                  /\ pos' = IF next < req.width THEN <<Row, next>> ELSE <<Row + 1, 0>>
           /\ phase' = IF pos'[1] = req.height THEN "drawn" ELSE phase
           /\ UNCHANGED <<cc, reply, req, copied>>

\* XPutImage of the whole bgra buffer, at the image's own size: the destination
\* size of the request is not looked at.
MutDrawn == /\ phase = "drawn" \* mutant: the bgra buffer is used again as it is
            /\ phase' = "idle"
            /\ reply' = NoReply
            /\ req' = NoReq
            /\ copied' = 0
            /\ pos' = <<0, 0>>
            /\ cc' = "none"
            /\ UNCHANGED out
Drawn == /\ phase = "drawn"
         /\ phase' = "idle"
         /\ reply' = NoReply
         /\ req' = NoReq
         /\ copied' = 0
         /\ pos' = <<0, 0>>
         /\ out' = <<>>
         /\ cc' = "none"

Dim == 0 .. DimMod - 1
ImageNext == \/ \E f \in Fourcc, w, h \in Dim : h_QueryImageAttributes(f, w, h)
             \/ \E inline \in BOOLEAN, w, h \in Dim, bytes \in Amounts : Put(inline, w, h, bytes)
             \/ Convert
             \/ Drawn

ImageSpec == ImageInit /\ [][ImageNext]_imageVars /\ WF_imageVars(Convert)

-----------------------------------------------------------------------------
Pixel(i) == <<(i - 1) \div req.width, (i - 1) % req.width>>
Component == {"Y", "U", "V"}

ImageTypeOK ==
    /\ phase \in {"idle", "laid_out", "rendering", "drawn"}
    /\ cc \in (IF phase = "idle" THEN {"none"} ELSE Fourcc)
    /\ reply.width \in Dim /\ reply.height \in Dim
    /\ req.width \in Dim /\ req.height \in Dim /\ req.bytes \in Amounts \cup {0}
    /\ copied \in 0 .. IntMod - 1
    /\ pos \in Dim \X Dim
    /\ phase \in {"idle", "laid_out"} => out = <<>>

\* For YV12, I420, YUY2 and NV12, every pixel is converted from the bytes in
\* which a client that follows the advertised layout stored its samples, goes to
\* its own place, and none is left out: of a picture of the size the reply named,
\* as libXv puts it, whose products fit 32 bits.  UYVY is excepted: line 281
\* gives it the converter of YUY2, which takes its chroma for luma.
FollowsReply == /\ req.width = reply.width /\ req.height = reply.height
                /\ Fits(req.width, req.height)
SamplesAreRight == FollowsReply =>
    /\ phase = "drawn" => Len(out) = req.width * req.height
    /\ \A i \in DOMAIN out :
         /\ out[i].to = 4 * (i - 1)
         /\ cc # "UYVY" => \A k \in Component :
               out[i][k] = ClientSample(cc, reply.attrs, k, Pixel(i)[1], Pixel(i)[2])

\* A converter reads no byte outside the image, be it copied or shared, and
\* writes none outside bgra, if the size of the put is even in both directions,
\* its products fit, and the data is as long as image_attrs says: no handler
\* sees to any of the three (an odd size reads on behind the image at lines 236,
\* 248 and 259, and too little data is copied at line 616 all the same).
WellFormed == /\ req.width % 2 = 0 /\ req.height % 2 = 0
              /\ Fits(req.width, req.height)
              /\ phase \in {"rendering", "drawn"}
              /\ Attrs(cc, req.width, req.height).size <= req.bytes
ReadsInside == WellFormed =>
    \A i \in DOMAIN out :
        /\ \A k \in Component :
             out[i][k] \in 0 .. (IF copied > 0 THEN copied ELSE req.bytes) - 1
        /\ out[i].to \in 0 .. 4 * (req.width * req.height) - 4

\* The planes a client fills do not overlap: no two samples share a byte that
\* are not the same sample by the format's subsampling, if the products of the
\* size fit 32 bits.
Same(f, k, p, q) == IF k = "Y" THEN p = q
                    ELSE p[1] \div Format[f].vert = q[1] \div Format[f].vert
                         /\ p[2] \div 2 = q[2] \div 2
PlanesApart ==
    phase = "laid_out" /\ Fits(reply.width, reply.height) =>
        LET px == (0 .. reply.height - 1) \X (0 .. reply.width - 1)
            At(k, p) == ClientSample(cc, reply.attrs, k, p[1], p[2])
        IN  \A k, l \in Component : \A p, q \in px :
              At(k, p) = At(l, q) => k = l /\ Same(cc, k, p, q)
=============================================================================
