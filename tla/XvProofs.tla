------------------------------- MODULE XvProofs -------------------------------
(***************************************************************************)
(* A client's replies come whole, in order and under their own numbers,    *)
(* for any window and any range of the numbers that exceeds it: there is   *)
(* no confusion when the 16 bits wrap.  And its images are converted from  *)
(* the bytes it put them in, for every size that fits the integers.        *)
(***************************************************************************)
EXTENDS XvReplies, XvImages, SequenceTheorems, TLAPS

-----------------------------------------------------------------------------
(* The numbers                                                             *)

\* The number d before n.
Back(n, d) == IF n >= d THEN n - d ELSE n - d + SeqMod

SentTypes == /\ sent \in Seq([request : Requests, number : 0 .. SeqMod - 1])
             /\ requests \in Seq(Requests)
             /\ Len(sent) <= Window + 1 /\ Len(requests) <= Len(sent)
             /\ number \in 0 .. SeqMod - 1 /\ seq \in 0 .. SeqMod - 1
             /\ canWrite \in BOOLEAN

\* Requests the server has handled, of those sent.
Handled == Len(sent) - Len(requests)

\* The client's numbers and the server's count are the same, though one is
\* carried in no request.
Counted == /\ \A i \in 1 .. Len(sent) : sent[i].number = Back(number, Len(sent) + 1 - i)
           /\ seq = Back(number, Len(requests) + 1)
           /\ \A i \in 1 .. Len(requests) : requests[i] = sent[Handled + i].request

NumInv == SentTypes /\ Counted

-----------------------------------------------------------------------------
(* The stream                                                              *)

Pieces(r) == Len(ReplyTo(r).writes)
Piece(r, i) == Data(ReplyTo(r).writes[i])

\* Words of the reply to r after its first k pieces.
Left(r, k) ==
    IF r.op = "QueryAdaptors"
    THEN IF k = 0 THEN 7 ELSE IF k = 1 THEN 4 ELSE IF k = 2 THEN 2 ELSE 0
    ELSE IF r.op = "QueryEncodings" THEN IF k = 0 THEN 7 ELSE IF k = 1 THEN 2 ELSE 0
    ELSE IF r.op = "ListImageFormats" THEN 160 - 32 * k
    ELSE IF r.op = "QueryImageAttributes" THEN 2 * r.planes - k
    ELSE 0

\* At p begins the reply to the i-th request sent.
Answers(p, i) == wire[p] = Header(sent[i].request, sent[i].number)

\* Each header is that of a handled request, and its data follows it.
HeaderAt(p) == /\ \E i \in 1 .. Handled : Answers(p, i)
               /\ \A i \in 1 .. Handled : Answers(p, i) =>
                    LET r == sent[i].request IN
                    /\ p + Pieces(r) <= Len(wire)
                    /\ \A k \in 1 .. Pieces(r) : wire[p + k] = Piece(r, k)
                    /\ p + Pieces(r) < Len(wire) => IsHeader(wire[p + Pieces(r) + 1])
                    /\ canWrite \/ r = GetInputFocus
Whole == \A p \in 1 .. Len(wire) : IsHeader(wire[p]) => HeaderAt(p)

\* Replies are in the order of the requests.
InOrder == \A p, q \in 1 .. Len(wire) : \A i, j \in 1 .. Handled :
              p < q /\ Answers(p, i) /\ Answers(q, j) => i < j

\* Whatever has to be answered, is.
Answered == \A i \in 1 .. Handled :
              canWrite /\ ~Silent(sent[i].request) => \E p \in 1 .. Len(wire) : Answers(p, i)

\* What the client needs is what is left of the reply to r, k pieces of it read.
Front(r, k) == LET m == Pieces(r) - k IN
               /\ m <= Len(wire)
               /\ \A j \in 1 .. m : wire[j] = Piece(r, k + j)
               /\ m < Len(wire) => IsHeader(wire[m + 1])
               /\ need = Left(r, k)
Reading == \E r \in Requests : \E k \in 0 .. Pieces(r) : Front(r, k)

Write == [request : Requests, number : 0 .. SeqMod - 1, words : 0 .. 160] \cup [words : 0 .. 160]
WireTypes == wire \in Seq(Write)

WireInv == WireTypes /\ Whole /\ InOrder /\ Answered /\ Reading

Undisturbed == canWrite => ~missed /\ ~mixedUp

IInv == NumInv /\ WireInv /\ Undisturbed

-----------------------------------------------------------------------------
(* The replies                                                             *)

LEMMA RequestOps ==
  ASSUME NEW r \in Requests
  PROVE  /\ r = [op |-> r.op, planes |-> r.planes] /\ r.planes \in 0 .. 3
         /\ r.op # "QueryImageAttributes" => r.planes = 0
         /\ r \in Asking \cup {GetInputFocus} => ~Silent(r)
  BY DEF Requests, Asking, Telling, GetInputFocus, Simple, Request, Silent

LEMMA TwoJoin ==
  ASSUME NEW a \in Nat, NEW b \in Nat
  PROVE  <<a>> \o <<b>> = <<a, b>>
<1> DEFINE s == <<a>> \o <<b>>
           t == <<a, b>>
<1>1. s \in Seq(Nat) /\ Len(s) = 2 /\ s[1] = a /\ s[2] = b
  BY ConcatProperties
<1>2. t \in Seq(Nat) /\ Len(t) = 2 /\ t[1] = a /\ t[2] = b
  OBVIOUS
<1>3. \A i \in 1 .. 2 : s[i] = t[i]
  <2> SUFFICES ASSUME NEW i \in 1 .. 2
               PROVE  s[i] = t[i]
    OBVIOUS
  <2>1. i = 1 \/ i = 2
    OBVIOUS
  <2> QED
    BY <2>1, <1>1, <1>2
<1> HIDE DEF s, t
<1>4. s = t
  BY <1>1, <1>2, <1>3, SeqEqual
<1> QED
  BY <1>4 DEF s, t

LEMMA ThreeJoin ==
  ASSUME NEW a \in Nat, NEW b \in Nat, NEW c \in Nat
  PROVE  <<a, b>> \o <<c>> = <<a, b, c>>
<1> DEFINE s == <<a, b>> \o <<c>>
           t == <<a, b, c>>
<1>1. s \in Seq(Nat) /\ Len(s) = 3 /\ s[1] = a /\ s[2] = b /\ s[3] = c
  BY ConcatProperties
<1>2. t \in Seq(Nat) /\ Len(t) = 3 /\ t[1] = a /\ t[2] = b /\ t[3] = c
  OBVIOUS
<1>3. \A i \in 1 .. 3 : s[i] = t[i]
  <2> SUFFICES ASSUME NEW i \in 1 .. 3
               PROVE  s[i] = t[i]
    OBVIOUS
  <2>1. i = 1 \/ i = 2 \/ i = 3
    OBVIOUS
  <2> QED
    BY <2>1, <1>1, <1>2
<1> HIDE DEF s, t
<1>4. s = t
  BY <1>1, <1>2, <1>3, SeqEqual
<1> QED
  BY <1>4 DEF s, t

LEMMA NameOfEight == Name(8) = <<8>>
  BY DEF Name, Padding

LEMMA ReplyValue ==
  ASSUME NEW r \in Requests
  PROVE  /\ r.op = "QueryAdaptors" => ReplyTo(r) = Reply(7, <<12, 8, 8>>)
         /\ r.op = "QueryEncodings" => ReplyTo(r) = Reply(7, <<20, 8>>)
         /\ r.op = "ListImageFormats" => ReplyTo(r) = Reply(160, [i \in 1 .. 5 |-> 128])
         /\ r.op = "QueryImageAttributes" =>
              ReplyTo(r) = Reply(2 * r.planes, [i \in 1 .. 2 * r.planes |-> 4])
         /\ r.op \notin {"QueryAdaptors", "QueryEncodings", "ListImageFormats",
                         "QueryImageAttributes"} => ReplyTo(r) = Reply(0, <<>>)
<1>1. QueryAdaptors = Reply(7, <<12, 8, 8>>)
  <2>1. Padding(8) = 0 /\ (12 + 8 + 0 + 8) \div 4 = 7
    BY DEF Padding
  <2>2. <<12>> \o <<8>> \o <<8>> = <<12, 8, 8>>
    BY TwoJoin, ThreeJoin
  <2> QED
    BY <2>1, <2>2, NameOfEight, Zenon
    DEF QueryAdaptors, AdaptorInfo, AdaptorName, FormatEntry, Reply
<1>2. QueryEncodings = Reply(7, <<20, 8>>)
  <2>1. Padding(8) = 0 /\ (20 + 8 + 0) \div 4 = 7
    BY DEF Padding
  <2>2. <<20>> \o <<8>> = <<20, 8>>
    BY TwoJoin
  <2> QED
    BY <2>1, <2>2, NameOfEight DEF QueryEncodings, EncodingInfo, EncodingName, Reply
<1>3. ListImageFormats = Reply(160, [i \in 1 .. 5 |-> 128])
  BY DEF ListImageFormats, NumFormats, ImageFormatInfo, Reply
<1> QED
  BY <1>1, <1>2, <1>3, Zenon DEF ReplyTo, QueryImageAttributes, HeaderOnly

LEMMA PieceFacts ==
  ASSUME NEW r \in Requests
  PROVE  /\ ReplyTo(r).writes \in Seq(Nat) /\ Pieces(r) \in Nat
         /\ ReplyTo(r).length = Left(r, 0) /\ Left(r, Pieces(r)) = 0
         /\ \A k \in 0 .. Pieces(r) : Left(r, k) \in 0 .. 160
         /\ \A k \in 1 .. Pieces(r) : /\ Piece(r, k) \in [words : 0 .. 160]
                                      /\ Left(r, k - 1) = Piece(r, k).words + Left(r, k)
<1>1. \A n \in {4, 8, 12, 20, 128} : Data(n) = [words |-> n \div 4]
  BY DEF Data, Padding
<1>2. CASE r.op = "QueryAdaptors"
  <2>1. ReplyTo(r) = Reply(7, <<12, 8, 8>>)
    BY <1>2, ReplyValue
  <2> DEFINE w == ReplyTo(r).writes
  <2>2. w = <<12, 8, 8>> /\ ReplyTo(r).length = 7
    BY <2>1 DEF Reply
  <2>3. w \in Seq(Nat) /\ Len(w) = 3 /\ w[1] = 12 /\ w[2] = 8 /\ w[3] = 8
    BY <2>2
  <2> HIDE DEF w
  <2>4. Data(w[1]) = [words |-> 3] /\ Data(w[2]) = [words |-> 2] /\ Data(w[3]) = [words |-> 2]
    BY <2>3, <1>1
  <2> QED
    BY <2>2, <2>3, <2>4, <1>2 DEF Left, Pieces, Piece, w
<1>3. CASE r.op = "QueryEncodings"
  <2>1. ReplyTo(r) = Reply(7, <<20, 8>>)
    BY <1>3, ReplyValue
  <2> DEFINE w == ReplyTo(r).writes
  <2>2. w = <<20, 8>> /\ ReplyTo(r).length = 7
    BY <2>1 DEF Reply
  <2>3. w \in Seq(Nat) /\ Len(w) = 2 /\ w[1] = 20 /\ w[2] = 8
    BY <2>2
  <2> HIDE DEF w
  <2>4. Data(w[1]) = [words |-> 5] /\ Data(w[2]) = [words |-> 2]
    BY <2>3, <1>1
  <2> QED
    BY <2>2, <2>3, <2>4, <1>3 DEF Left, Pieces, Piece, w
<1>4. CASE r.op = "ListImageFormats"
  <2>1. ReplyTo(r) = Reply(160, [i \in 1 .. 5 |-> 128])
    BY <1>4, ReplyValue
  <2> DEFINE w == ReplyTo(r).writes
  <2>2. w = [i \in 1 .. 5 |-> 128] /\ ReplyTo(r).length = 160
    BY <2>1 DEF Reply
  <2>3. w \in Seq(Nat) /\ Len(w) = 5 /\ \A i \in 1 .. 5 : w[i] = 128
    BY <2>2
  <2> HIDE DEF w
  <2>4. \A i \in 1 .. 5 : Data(w[i]) = [words |-> 32]
    BY <2>3, <1>1
  <2> QED
    BY <2>2, <2>3, <2>4, <1>4 DEF Left, Pieces, Piece, w
<1>5. CASE r.op = "QueryImageAttributes"
  <2>1. ReplyTo(r) = Reply(2 * r.planes, [i \in 1 .. 2 * r.planes |-> 4]) /\ r.planes \in 0 .. 3
    BY <1>5, ReplyValue, RequestOps
  <2> DEFINE w == ReplyTo(r).writes
  <2>2. w = [i \in 1 .. 2 * r.planes |-> 4] /\ ReplyTo(r).length = 2 * r.planes
    BY <2>1 DEF Reply
  <2>3. w \in Seq(Nat) /\ Len(w) = 2 * r.planes /\ \A i \in 1 .. 2 * r.planes : w[i] = 4
    BY <2>1, <2>2
  <2> HIDE DEF w
  <2>4. \A i \in 1 .. 2 * r.planes : Data(w[i]) = [words |-> 1]
    BY <2>3, <1>1
  <2>5. Pieces(r) = 2 * r.planes /\ \A i \in 1 .. 2 * r.planes : Piece(r, i) = [words |-> 1]
    BY <2>3, <2>4 DEF Pieces, Piece, w
  <2>6. \A k \in 0 .. 2 * r.planes : Left(r, k) = 2 * r.planes - k
    BY <1>5 DEF Left
  <2> DEFINE n == 2 * r.planes
  <2>7. n \in 0 .. 6
    BY <2>1
  <2>8. \A k \in 1 .. n : Piece(r, k) = [words |-> 1] /\ Left(r, k - 1) = n - (k - 1) /\ Left(r, k) = n - k
    BY <2>1, <2>5, <2>6
  <2>9. ReplyTo(r).writes \in Seq(Nat) /\ ReplyTo(r).length = n /\ Pieces(r) = n
    BY <2>2, <2>3, <2>5 DEF w
  <2>10. \A k \in 0 .. n : Left(r, k) = n - k
    BY <2>6
  <2> HIDE DEF n
  <2>11. Left(r, 0) = n /\ Left(r, n) = 0 /\ \A k \in 0 .. n : Left(r, k) \in 0 .. 160
    BY <2>7, <2>10
  <2>12. ASSUME NEW k \in 1 .. n
         PROVE  Piece(r, k) \in [words : 0 .. 160] /\ Left(r, k - 1) = Piece(r, k).words + Left(r, k)
    <3>1. Piece(r, k) = [words |-> 1] /\ Left(r, k - 1) = n - (k - 1) /\ Left(r, k) = n - k
      BY <2>8
    <3>2. Piece(r, k).words = 1 /\ Piece(r, k) \in [words : 0 .. 160]
      BY <3>1
    <3> QED
      BY <3>1, <3>2, <2>7
  <2> QED
    BY <2>7, <2>9, <2>11, <2>12
<1>6. CASE r.op \notin {"QueryAdaptors", "QueryEncodings", "ListImageFormats",
                        "QueryImageAttributes"}
  <2>1. ReplyTo(r) = Reply(0, <<>>)
    BY <1>6, ReplyValue
  <2>2. ReplyTo(r).writes = <<>> /\ ReplyTo(r).length = 0
    BY <2>1 DEF Reply
  <2>3. ReplyTo(r).writes \in Seq(Nat) /\ Pieces(r) = 0
    BY <2>2 DEF Pieces
  <2>4. Left(r, 0) = 0
    BY <1>6 DEF Left
  <2> QED
    BY <2>2, <2>3, <2>4
<1> QED
  BY <1>2, <1>3, <1>4, <1>5, <1>6

LEMMA HeaderFacts ==
  ASSUME NEW r \in Requests, NEW n \in 0 .. SeqMod - 1
  PROVE  /\ Header(r, n) \in Write /\ IsHeader(Header(r, n))
         /\ Header(r, n).request = r /\ Header(r, n).number = n
         /\ Header(r, n).words = Left(r, 0)
<1>1. ReplyTo(r).length = Left(r, 0) /\ Left(r, 0) \in 0 .. 160
  BY PieceFacts
<1>2. Header(r, n) = [request |-> r, number |-> n, words |-> Left(r, 0)]
  BY <1>1 DEF Header
<1> QED
  BY <1>1, <1>2 DEF IsHeader, Write

LEMMA DataFacts == ASSUME NEW d \in [words : 0 .. 160] PROVE d \in Write /\ ~IsHeader(d)
<1>1. d = [words |-> d.words]
  OBVIOUS
<1>2. "request" \notin DOMAIN [words |-> d.words]
  OBVIOUS
<1> QED
  BY <1>1, <1>2 DEF Write, IsHeader

LEMMA StreamFacts ==
  ASSUME NEW r \in Requests, NEW n \in 0 .. SeqMod - 1
  PROVE  /\ Stream(r, n) \in Seq(Write) /\ Len(Stream(r, n)) = 1 + Pieces(r)
         /\ Stream(r, n)[1] = Header(r, n)
         /\ \A k \in 1 .. Pieces(r) : Stream(r, n)[1 + k] = Piece(r, k)
<1> DEFINE w == ReplyTo(r).writes
           d == [i \in DOMAIN w |-> Data(w[i])]
<1>1. w \in Seq(Nat) /\ DOMAIN w = 1 .. Pieces(r) /\ Pieces(r) \in Nat
  BY PieceFacts DEF Pieces
<1>2. \A i \in 1 .. Pieces(r) : d[i] = Piece(r, i) /\ d[i] \in Write
  BY <1>1, PieceFacts, DataFacts DEF Piece
<1>3. d \in Seq(Write) /\ Len(d) = Pieces(r)
  BY <1>1, <1>2
<1>4. <<Header(r, n)>> \in Seq(Write) /\ Len(<<Header(r, n)>>) = 1
  BY HeaderFacts
<1>5. Stream(r, n) = <<Header(r, n)>> \o d
  BY DEF Stream
<1> HIDE DEF d, w
<1>6. /\ Stream(r, n) \in Seq(Write) /\ Len(Stream(r, n)) = 1 + Pieces(r)
      /\ \A i \in 1 .. 1 + Pieces(r) :
           Stream(r, n)[i] = IF i <= 1 THEN <<Header(r, n)>>[i] ELSE d[i - 1]
  BY <1>3, <1>4, <1>5, ConcatProperties
<1> QED
  BY <1>1, <1>2, <1>6

-----------------------------------------------------------------------------
(* Numbers and counts agree                                                *)

LEMMA BackFacts ==
  ASSUME NEW n \in 0 .. SeqMod - 1, NEW d \in 1 .. SeqMod
  PROVE  /\ Back(n, d) \in 0 .. SeqMod - 1
         /\ \A e \in 1 .. SeqMod : Back(n, d) = Back(n, e) => d = e
  BY RepliesAssumption DEF Back

LEMMA Following ==
  ASSUME NEW n \in 0 .. SeqMod - 1
  PROVE  (n + 1) % SeqMod = IF n + 1 = SeqMod THEN 0 ELSE n + 1
  BY RepliesAssumption

LEMMA BackNext ==
  ASSUME NEW n \in 0 .. SeqMod - 1
  PROVE  /\ (n + 1) % SeqMod \in 0 .. SeqMod - 1
         /\ Back((n + 1) % SeqMod, 1) = n
         /\ \A d \in 1 .. SeqMod - 1 : Back((n + 1) % SeqMod, d + 1) = Back(n, d)
         /\ \A d \in 1 .. SeqMod - 1 : (Back(n, d + 1) + 1) % SeqMod = Back(n, d)
<1>1. \A m \in 0 .. SeqMod - 1 : (m + 1) % SeqMod = IF m + 1 = SeqMod THEN 0 ELSE m + 1
  BY Following
<1>2. \A d \in 1 .. SeqMod - 1 : Back(n, d + 1) \in 0 .. SeqMod - 1
  BY BackFacts, RepliesAssumption
<1>3. ASSUME NEW d \in 1 .. SeqMod - 1
      PROVE  (Back(n, d + 1) + 1) % SeqMod = Back(n, d)
  <2>1. (Back(n, d + 1) + 1) % SeqMod
          = IF Back(n, d + 1) + 1 = SeqMod THEN 0 ELSE Back(n, d + 1) + 1
    BY <1>1, <1>2
  <2> QED
    BY <2>1, RepliesAssumption DEF Back
<1>4. (n + 1) % SeqMod = IF n + 1 = SeqMod THEN 0 ELSE n + 1
  BY <1>1
<1>5. Back((n + 1) % SeqMod, 1) = n
  BY <1>4, RepliesAssumption DEF Back
<1>6. ASSUME NEW d \in 1 .. SeqMod - 1
      PROVE  Back((n + 1) % SeqMod, d + 1) = Back(n, d)
  BY <1>4, RepliesAssumption DEF Back
<1>7. (n + 1) % SeqMod \in 0 .. SeqMod - 1
  BY <1>4, RepliesAssumption
<1> QED
  BY <1>3, <1>5, <1>6, <1>7

\* No two requests on their way have one number.
LEMMA NumbersDiffer ==
  ASSUME NumInv
  PROVE  /\ \A i, j \in 1 .. Len(sent) : sent[i].number = sent[j].number => i = j
         /\ Len(sent) \in Nat /\ Len(requests) \in Nat /\ Handled \in 0 .. Len(sent)
         /\ \A i \in 1 .. Len(sent) : /\ sent[i].request \in Requests
                                      /\ sent[i].number \in 0 .. SeqMod - 1
<1>1. Len(sent) \in Nat /\ Len(requests) \in Nat /\ Handled \in 0 .. Len(sent)
  BY DEF NumInv, SentTypes, Handled
<1>2. ASSUME NEW i \in 1 .. Len(sent)
      PROVE  sent[i].request \in Requests /\ sent[i].number \in 0 .. SeqMod - 1
  <2>1. sent[i] \in [request : Requests, number : 0 .. SeqMod - 1]
    BY ElementOfSeq DEF NumInv, SentTypes
  <2> QED
    BY <2>1
<1>3. ASSUME NEW i \in 1 .. Len(sent), NEW j \in 1 .. Len(sent), sent[i].number = sent[j].number
      PROVE  i = j
  <2>1. Len(sent) + 1 - i \in 1 .. SeqMod /\ Len(sent) + 1 - j \in 1 .. SeqMod
    BY <1>1, RepliesAssumption DEF NumInv, SentTypes
  <2>2. Back(number, Len(sent) + 1 - i) = Back(number, Len(sent) + 1 - j)
    BY <1>3 DEF NumInv, Counted
  <2>3. Len(sent) + 1 - i = Len(sent) + 1 - j
    BY <2>1, <2>2, BackFacts DEF NumInv, SentTypes
  <2> QED
    BY <1>1, <2>3
<1> QED
  BY <1>1, <1>2, <1>3

LEMMA SendNum ==
  ASSUME NumInv, NEW r \in Requests, Send(r), Len(sent) <= Window
  PROVE  /\ NumInv' /\ Handled' = Handled /\ Len(sent') = Len(sent) + 1
         /\ \A i \in 1 .. Len(sent) : sent'[i] = sent[i]
<1> DEFINE L == Len(sent)
           R == Len(requests)
           e == [request |-> r, number |-> number]
<1>1. /\ sent \in Seq([request : Requests, number : 0 .. SeqMod - 1]) /\ requests \in Seq(Requests)
      /\ L \in Nat /\ R \in Nat /\ L <= Window /\ R <= L /\ number \in 0 .. SeqMod - 1
  BY DEF NumInv, SentTypes
<1>2. e \in [request : Requests, number : 0 .. SeqMod - 1]
  BY <1>1
<1>13. /\ \A i \in 1 .. L : sent[i].number = Back(number, L + 1 - i)
       /\ seq = Back(number, R + 1)
       /\ \A i \in 1 .. R : requests[i] = sent[L - R + i].request
  BY DEF NumInv, Counted, Handled
<1> HIDE DEF e
<1>3. sent' = Append(sent, e) /\ requests' = Append(requests, r) /\ number' = (number + 1) % SeqMod
      /\ UNCHANGED <<seq, canWrite>>
  BY DEF Send, e
<1>4. /\ sent' \in Seq([request : Requests, number : 0 .. SeqMod - 1]) /\ Len(sent') = L + 1
      /\ \A i \in 1 .. L : sent'[i] = sent[i]
      /\ sent'[L + 1] = e
  BY <1>1, <1>2, <1>3
<1>5. /\ requests' \in Seq(Requests) /\ Len(requests') = R + 1
      /\ \A i \in 1 .. R : requests'[i] = requests[i]
      /\ requests'[R + 1] = r
  BY <1>1, <1>3
<1>6. number' \in 0 .. SeqMod - 1
  BY <1>1, <1>3, BackNext
<1>7. Handled' = L - R /\ Handled = L - R
  BY <1>1, <1>4, <1>5 DEF Handled
<1> HIDE DEF L, R
<1>8. SentTypes'
  <2>1. Len(sent') <= Window + 1 /\ Len(requests') <= Len(sent')
    BY <1>1, <1>4, <1>5, RepliesAssumption
  <2>2. seq' \in 0 .. SeqMod - 1 /\ canWrite' \in BOOLEAN
    BY <1>3 DEF NumInv, SentTypes
  <2> QED
    BY <2>1, <2>2, <1>4, <1>5, <1>6 DEF SentTypes
<1>9. ASSUME NEW i \in 1 .. L + 1
      PROVE  sent'[i].number = Back(number', L + 2 - i)
  <2>1. CASE i = L + 1
    <3>1. sent'[i].number = number
      BY <2>1, <1>4 DEF e
    <3>2. L + 2 - i = 1
      BY <2>1, <1>1
    <3> QED
      BY <3>1, <3>2, <1>1, <1>3, BackNext
  <2>2. CASE i <= L
    <3>1. sent'[i].number = Back(number, L + 1 - i)
      <4>1. i \in 1 .. L
        BY <2>2, <1>1
      <4>2. sent'[i] = sent[i]
        BY <4>1, <1>4
      <4> QED
        BY <4>1, <4>2, <1>13
    <3>2. L + 1 - i \in 1 .. SeqMod - 1 /\ L + 2 - i = (L + 1 - i) + 1
      BY <2>2, <1>1, RepliesAssumption
    <3>3. Back(number', (L + 1 - i) + 1) = Back(number, L + 1 - i)
      BY <3>2, <1>1, <1>3, BackNext
    <3> QED
      BY <3>1, <3>2, <3>3
  <2> QED
    BY <2>1, <2>2, <1>1
<1>10. seq' = Back(number', R + 2)
  <2>1. seq = Back(number, R + 1)
    BY <1>13
  <2>2. R + 1 \in 1 .. SeqMod - 1 /\ R + 2 = (R + 1) + 1
    BY <1>1, RepliesAssumption
  <2> QED
    BY <2>1, <2>2, <1>1, <1>3, BackNext
<1>11. ASSUME NEW i \in 1 .. R + 1
       PROVE  requests'[i] = sent'[L - R + i].request
  <2>1. CASE i = R + 1
    <3>1. L - R + i = L + 1
      BY <2>1, <1>1
    <3> QED
      BY <2>1, <3>1, <1>4, <1>5 DEF e
  <2>2. CASE i <= R
    <3>1. requests[i] = sent[L - R + i].request
      BY <2>2, <1>1, <1>13
    <3>2. L - R + i \in 1 .. L
      BY <2>2, <1>1
    <3>3. sent'[L - R + i] = sent[L - R + i]
      BY <3>2, <1>4
    <3>4. requests'[i] = requests[i]
      BY <2>2, <1>1, <1>5
    <3> QED
      BY <3>1, <3>3, <3>4
  <2> QED
    BY <2>1, <2>2, <1>1
<1>12. Counted'
  <2>1. Len(sent') + 1 = L + 2 /\ Len(requests') + 1 = R + 2
    BY <1>1, <1>4, <1>5
  <2>2. ASSUME NEW i \in 1 .. Len(sent')
        PROVE  sent'[i].number = Back(number', Len(sent') + 1 - i)
    <3>1. i \in 1 .. L + 1 /\ Len(sent') + 1 - i = L + 2 - i
      BY <1>1, <1>4
    <3> QED
      BY <3>1, <1>9
  <2>3. seq' = Back(number', Len(requests') + 1)
    BY <2>1, <1>10
  <2>4. \A i \in 1 .. Len(requests') : requests'[i] = sent'[Handled' + i].request
    BY <1>5, <1>7, <1>11
  <2> QED
    BY <2>2, <2>3, <2>4 DEF Counted
<1> QED
  BY <1>4, <1>7, <1>8, <1>12 DEF NumInv, L

LEMMA DispatchNum ==
  ASSUME NumInv, Dispatch
  PROVE  /\ NumInv' /\ Handled' = Handled + 1 /\ Handled < Len(sent)
         /\ Head(requests) = sent[Handled + 1].request /\ seq' = sent[Handled + 1].number
<1> DEFINE L == Len(sent)
           R == Len(requests)
<1>1. /\ sent \in Seq([request : Requests, number : 0 .. SeqMod - 1]) /\ requests \in Seq(Requests)
      /\ L \in Nat /\ R \in Nat /\ L <= Window + 1 /\ R <= L /\ number \in 0 .. SeqMod - 1
  BY DEF NumInv, SentTypes
<1>2. /\ \A i \in 1 .. L : sent[i].number = Back(number, L + 1 - i)
      /\ seq = Back(number, R + 1)
      /\ \A i \in 1 .. R : requests[i] = sent[L - R + i].request
  BY DEF NumInv, Counted, Handled
<1>3. requests # <<>> /\ requests' = Tail(requests) /\ seq' = (seq + 1) % SeqMod
      /\ UNCHANGED <<sent, number, canWrite>>
  BY DEF Dispatch, Count, client
<1>4. /\ R >= 1 /\ Head(requests) = requests[1]
      /\ requests' \in Seq(Requests) /\ Len(requests') = R - 1
      /\ \A i \in 1 .. R - 1 : requests'[i] = requests[i + 1]
  <2>1. R # 0 /\ Head(requests) = requests[1] /\ Tail(requests) \in Seq(Requests)
        /\ Len(Tail(requests)) = R - 1
    BY <1>1, <1>3, EmptySeq, HeadTailProperties
  <2>2. \A i \in 1 .. Len(Tail(requests)) : Tail(requests)[i] = requests[i + 1]
    BY <1>1, <1>3, HeadTailProperties
  <2> QED
    BY <2>1, <2>2, <1>1, <1>3
<1>5. Handled = L - R /\ Handled' = L - R + 1
  BY <1>1, <1>3, <1>4 DEF Handled
<1> HIDE DEF L, R
<1>6. seq' = Back(number, R)
  <2>1. R \in 1 .. SeqMod - 1
    BY <1>1, <1>4, RepliesAssumption
  <2> QED
    BY <2>1, <1>1, <1>2, <1>3, BackNext
<1>7. seq' \in 0 .. SeqMod - 1
  <2>1. R \in 1 .. SeqMod
    BY <1>1, <1>4, RepliesAssumption
  <2> QED
    BY <2>1, <1>1, <1>6, BackFacts
<1>8. sent[L - R + 1].number = seq' /\ sent[L - R + 1].request = Head(requests)
  <2>1. L - R + 1 \in 1 .. L /\ L + 1 - (L - R + 1) = R /\ 1 \in 1 .. R
    BY <1>1, <1>4
  <2> QED
    BY <2>1, <1>2, <1>4, <1>6
<1>9. SentTypes'
  <2>1. L = Len(sent)
    BY DEF L
  <2>2. Len(sent') <= Window + 1 /\ Len(requests') <= Len(sent')
    BY <2>1, <1>1, <1>3, <1>4
  <2>3. canWrite' \in BOOLEAN
    BY <1>3 DEF NumInv, SentTypes
  <2> QED
    BY <2>2, <2>3, <1>1, <1>3, <1>4, <1>7 DEF SentTypes
<1>10. Counted'
  <2>1. L = Len(sent) /\ L = Len(sent') /\ Len(requests') = R - 1
    BY <1>3, <1>4 DEF L
  <2>2. \A i \in 1 .. Len(sent') : sent'[i].number = Back(number', Len(sent') + 1 - i)
    BY <2>1, <1>2, <1>3
  <2>3. seq' = Back(number', Len(requests') + 1)
    <3>1. Len(requests') + 1 = R
      BY <2>1, <1>1
    <3> QED
      BY <3>1, <1>3, <1>6
  <2>4. ASSUME NEW i \in 1 .. Len(requests')
        PROVE  requests'[i] = sent'[Handled' + i].request
    <3>1. i + 1 \in 1 .. R /\ L - R + 1 + i = L - R + (i + 1) /\ i \in 1 .. R - 1
      BY <2>1, <1>1
    <3>2. requests'[i] = requests[i + 1]
      BY <3>1, <1>4
    <3>3. requests[i + 1] = sent[L - R + (i + 1)].request
      BY <3>1, <1>2
    <3> QED
      BY <3>1, <3>2, <3>3, <1>3, <1>5
  <2> QED
    BY <2>2, <2>3, <2>4 DEF Counted
<1> QED
  BY <1>1, <1>4, <1>5, <1>8, <1>9, <1>10 DEF NumInv, L

\* The client takes its first n requests for handled, and they are.
LEMMA ForgetNum ==
  ASSUME NumInv, NEW n \in 1 .. Handled, sent' = SubSeq(sent, n + 1, Len(sent)),
         UNCHANGED <<number, requests, seq, canWrite>>
  PROVE  /\ NumInv' /\ Handled' = Handled - n
         /\ \A i \in 1 .. Handled - n : sent'[i] = sent[n + i]
<1> DEFINE L == Len(sent)
           R == Len(requests)
           S == [request : Requests, number : 0 .. SeqMod - 1]
<1>1. /\ sent \in Seq(S) /\ requests \in Seq(Requests)
      /\ L \in Nat /\ R \in Nat /\ L <= Window + 1 /\ R <= L /\ number \in 0 .. SeqMod - 1
  BY DEF NumInv, SentTypes
<1>2. /\ \A i \in 1 .. L : sent[i].number = Back(number, L + 1 - i)
      /\ seq = Back(number, R + 1)
      /\ \A i \in 1 .. R : requests[i] = sent[L - R + i].request
  BY DEF NumInv, Counted, Handled
<1>3. Handled = L - R /\ n \in 1 .. L - R
  BY DEF Handled
<1> HIDE DEF S
<1>4. sent' \in Seq(S) /\ Len(sent') = L - n /\ \A i \in 1 .. L - n : sent'[i] = sent[n + i]
  <2>1. n + 1 \in 1 .. Len(sent) + 1 /\ Len(sent) \in 0 .. Len(sent)
    BY <1>1, <1>3
  <2>2. /\ SubSeq(sent, n + 1, L) \in Seq(S)
        /\ Len(SubSeq(sent, n + 1, L)) = IF n + 1 <= L THEN L - (n + 1) + 1 ELSE 0
        /\ \A i \in 1 .. L - (n + 1) + 1 : SubSeq(sent, n + 1, L)[i] = sent[n + 1 + i - 1]
    BY <2>1, <1>1, <1>3, SubSeqProperties
  <2>3. Len(SubSeq(sent, n + 1, L)) = L - n /\ L - (n + 1) + 1 = L - n
    BY <2>2, <1>1, <1>3
  <2>4. \A i \in 1 .. L - n : n + 1 + i - 1 = n + i
    BY <1>1, <1>3
  <2> QED
    BY <2>2, <2>3, <2>4
<1>5. Handled' = L - R - n
  BY <1>1, <1>3, <1>4 DEF Handled
<1> HIDE DEF L, R
<1>6. SentTypes'
  <2>1. Len(sent') <= Window + 1 /\ Len(requests') <= Len(sent')
    <3>1. Len(requests') = R
      BY DEF R
    <3> QED
      BY <3>1, <1>1, <1>3, <1>4, RepliesAssumption
  <2>2. seq' \in 0 .. SeqMod - 1 /\ canWrite' \in BOOLEAN /\ number' \in 0 .. SeqMod - 1
    BY DEF NumInv, SentTypes
  <2> QED
    BY <2>1, <2>2, <1>1, <1>4 DEF SentTypes, S
<1>7. Counted'
  <2>4. ASSUME NEW i \in 1 .. L - n
        PROVE  sent'[i].number = Back(number, L - n + 1 - i)
    <3>1. n + i \in 1 .. L /\ L + 1 - (n + i) = L - n + 1 - i
      BY <1>1, <1>3
    <3>2. sent'[i] = sent[n + i]
      BY <1>4
    <3>3. sent[n + i].number = Back(number, L + 1 - (n + i))
      BY <3>1, <1>2
    <3> QED
      BY <3>1, <3>2, <3>3
  <2>1. \A i \in 1 .. Len(sent') : sent'[i].number = Back(number', Len(sent') + 1 - i)
    BY <2>4, <1>4
  <2>2. seq' = Back(number', Len(requests') + 1)
    BY <1>2 DEF R
  <2>3. ASSUME NEW i \in 1 .. Len(requests')
        PROVE  requests'[i] = sent'[Handled' + i].request
    <3>1. i \in 1 .. R
      BY DEF R
    <3>2. L - R - n + i \in 1 .. L - n /\ n + (L - R - n + i) = L - R + i
      BY <3>1, <1>1, <1>3
    <3>3. sent'[L - R - n + i] = sent[L - R + i]
      BY <3>2, <1>4
    <3> QED
      BY <3>1, <3>3, <1>2, <1>5
  <2> QED
    BY <2>1, <2>2, <2>3 DEF Counted
<1>8. \A i \in 1 .. L - R - n : sent'[i] = sent[n + i]
  BY <1>1, <1>3, <1>4
<1> QED
  BY <1>1, <1>3, <1>5, <1>6, <1>7, <1>8 DEF NumInv

-----------------------------------------------------------------------------
(* The stream stays whole                                                  *)

\* A header answers one request, and data none.
LEMMA OneAnswer ==
  ASSUME NumInv, WireTypes, NEW p \in 1 .. Len(wire), NEW i \in 1 .. Len(sent), Answers(p, i)
  PROVE  /\ IsHeader(wire[p]) /\ wire[p].number = sent[i].number
         /\ wire[p].request = sent[i].request /\ wire[p].words = Left(sent[i].request, 0)
         /\ \A j \in 1 .. Len(sent) : Answers(p, j) => i = j
<1>1. \A j \in 1 .. Len(sent) : sent[j].request \in Requests /\ sent[j].number \in 0 .. SeqMod - 1
  BY NumbersDiffer
<1>2. \A j \in 1 .. Len(sent) : Answers(p, j) => wire[p].number = sent[j].number
  BY <1>1, HeaderFacts DEF Answers
<1>3. \A j \in 1 .. Len(sent) : Answers(p, j) => i = j
  BY <1>2, NumbersDiffer
<1> QED
  BY <1>1, <1>3, HeaderFacts DEF Answers

LEMMA UnchangedWire ==
  ASSUME WireInv, Handled' = Handled, UNCHANGED <<wire, need, canWrite>>,
         \A i \in 1 .. Handled : sent'[i] = sent[i]
  PROVE  WireInv'
<1>1. \A p \in 1 .. Len(wire) : \A i \in 1 .. Handled : Answers(p, i)' <=> Answers(p, i)
  BY DEF Answers
<1>2. WireTypes' /\ Reading'
  BY DEF WireInv, WireTypes, Reading, Front
<1>3. Whole'
  BY <1>1 DEF WireInv, Whole, HeaderAt
<1>4. InOrder' /\ Answered'
  BY <1>1 DEF WireInv, InOrder, Answered
<1> QED
  BY <1>2, <1>3, <1>4 DEF WireInv

\* A request that gets no reply is handled.
LEMMA SilentWire ==
  ASSUME NumInv, WireInv, Handled' = Handled + 1, Handled < Len(sent),
         UNCHANGED <<sent, wire, need, canWrite>>,
         Silent(sent[Handled + 1].request) \/ ~canWrite
  PROVE  WireInv'
<1>1. Handled \in Nat /\ Len(sent) \in Nat
  BY NumbersDiffer
<1>2. \A p \in 1 .. Len(wire) : IsHeader(wire[p]) => ~Answers(p, Handled + 1)
  <2> SUFFICES ASSUME NEW p \in 1 .. Len(wire), IsHeader(wire[p]), Answers(p, Handled + 1)
               PROVE  FALSE
    OBVIOUS
  <2>1. PICK i \in 1 .. Handled : Answers(p, i)
    BY DEF WireInv, Whole, HeaderAt
  <2>2. i \in 1 .. Len(sent) /\ Handled + 1 \in 1 .. Len(sent) /\ i # Handled + 1
    BY <1>1
  <2> QED
    BY <2>1, <2>2, OneAnswer DEF WireInv
<1>3. \A p \in 1 .. Len(wire) : ~Answers(p, Handled + 1)
  <2>1. Handled + 1 \in 1 .. Len(sent)
    BY <1>1
  <2> QED
    BY <2>1, <1>2, OneAnswer DEF WireInv
<1>4. \A p \in 1 .. Len(wire) : \A i \in 1 .. Handled + 1 :
         /\ Answers(p, i)' <=> Answers(p, i)
         /\ Answers(p, i) => i \in 1 .. Handled
  BY <1>1, <1>3 DEF Answers
<1>5. WireTypes' /\ Reading'
  BY DEF WireInv, WireTypes, Reading, Front
<1>6. Whole'
  BY <1>1, <1>4 DEF WireInv, Whole, HeaderAt
<1>7. InOrder'
  BY <1>4 DEF WireInv, InOrder
<1>8. Answered'
  <2>1. \A i \in 1 .. Handled + 1 : i \in 1 .. Handled \/ i = Handled + 1
    BY <1>1
  <2>2. \A i \in 1 .. Handled : i \in 1 .. Handled + 1
    BY <1>1
  <2> QED
    BY <2>1, <2>2, <1>4 DEF WireInv, Answered
<1> QED
  BY <1>5, <1>6, <1>7, <1>8 DEF WireInv

\* With m writes of a reply to come, the next one is the reply's too.
LEMMA PieceAfter ==
  ASSUME NEW n \in Nat, NEW k \in 0 .. n, NEW m, m = n - k, 1 \in 1 .. m
  PROVE  k + 1 \in 1 .. n /\ m - 1 = n - (k + 1)
  OBVIOUS

\* What a write takes off what the client needs.
LEMMA WordsLeft ==
  ASSUME NEW d \in 0 .. 160, NEW e \in 0 .. 160, NEW f, f = d + e
  PROVE  f - d = e /\ d <= f
  OBVIOUS

\* The data of a reply is inside the stream that one write less leaves.
LEMMA DataInside ==
  ASSUME NEW l \in Nat, NEW p \in Nat, NEW m \in Nat, 1 <= p, p + m <= l - 1
  PROVE  /\ \A k \in 1 .. m : p + k \in 1 .. l - 1 /\ p + k + 1 = p + 1 + k
         /\ p + m < l - 1 => /\ p + m + 1 \in 1 .. l - 1 /\ p + 1 + m < l
                            /\ p + m + 1 + 1 = p + 1 + m + 1
  OBVIOUS

\* The client reads one write, and takes its first n requests for handled.
LEMMA ReadWire ==
  ASSUME WireInv, wire # <<>>, wire' = Tail(wire), canWrite' = canWrite,
         Handled \in Nat, NEW n \in 0 .. Handled, Handled' = Handled - n,
         \A i \in 1 .. Handled : sent[i].request \in Requests,
         \A i \in 1 .. Handled - n : sent'[i] = sent[n + i],
         \A p \in 2 .. Len(wire) : \A i \in 1 .. Handled : Answers(p, i) => i > n,
         \A i \in 1 .. Handled : Answers(1, i) => i <= n
  PROVE  /\ WireTypes' /\ Whole' /\ InOrder' /\ Answered'
         /\ Len(wire) \in Nat \ {0} /\ Len(wire') = Len(wire) - 1
         /\ \A p \in 1 .. Len(wire) - 1 : wire'[p] = wire[p + 1]
<1>1. /\ wire' \in Seq(Write) /\ Len(wire) \in Nat \ {0} /\ Len(wire') = Len(wire) - 1
      /\ \A p \in 1 .. Len(wire) - 1 : wire'[p] = wire[p + 1]
  <2>1. wire \in Seq(Write)
    BY DEF WireInv, WireTypes
  <2>2. Len(wire) # 0 /\ Tail(wire) \in Seq(Write) /\ Len(Tail(wire)) = Len(wire) - 1
    BY <2>1, EmptySeq, HeadTailProperties
  <2>3. \A p \in 1 .. Len(Tail(wire)) : Tail(wire)[p] = wire[p + 1]
    BY <2>1, HeadTailProperties
  <2> QED
    BY <2>1, <2>2, <2>3
<1>2. \A p \in 1 .. Len(wire) - 1 : \A i \in 1 .. Handled - n :
         Answers(p, i)' <=> Answers(p + 1, n + i)
  BY <1>1 DEF Answers
<1>3. \A p \in 1 .. Len(wire) - 1 : p + 1 \in 1 .. Len(wire) /\ p + 1 \in 2 .. Len(wire)
  BY <1>1
<1>4. \A i \in 1 .. Handled - n : n + i \in 1 .. Handled
  OBVIOUS
<1>5. Whole'
  <2> SUFFICES ASSUME NEW p \in 1 .. Len(wire) - 1, IsHeader(wire'[p])
               PROVE  HeaderAt(p)'
    BY <1>1 DEF Whole
  <2>1. IsHeader(wire[p + 1]) /\ HeaderAt(p + 1)
    BY <1>1, <1>3 DEF WireInv, Whole
  <2>2. PICK j \in 1 .. Handled : Answers(p + 1, j)
    BY <2>1 DEF HeaderAt
  <2>3. j - n \in 1 .. Handled - n /\ n + (j - n) = j
    <3>1. j > n
      BY <2>2, <1>3
    <3> QED
      BY <3>1
  <2>4. \E i \in 1 .. Handled' : Answers(p, i)'
    BY <2>2, <2>3, <1>2
  <2>5. ASSUME NEW i \in 1 .. Handled', Answers(p, i)'
        PROVE  LET r == sent'[i].request IN
               /\ p + Pieces(r) <= Len(wire')
               /\ \A k \in 1 .. Pieces(r) : wire'[p + k] = Piece(r, k)
               /\ p + Pieces(r) < Len(wire') => IsHeader(wire'[p + Pieces(r) + 1])
               /\ canWrite' \/ r = GetInputFocus
    <3> DEFINE r == sent[n + i].request
               P == Pieces(r)
    <3>1. n + i \in 1 .. Handled /\ Answers(p + 1, n + i) /\ sent'[i] = sent[n + i]
      BY <2>5, <1>2, <1>4
    <3>2. /\ p + 1 + P <= Len(wire)
          /\ \A k \in 1 .. P : wire[p + 1 + k] = Piece(r, k)
          /\ p + 1 + P < Len(wire) => IsHeader(wire[p + 1 + P + 1])
          /\ canWrite \/ r = GetInputFocus
      BY <2>1, <3>1 DEF HeaderAt
    <3>3. P \in Nat
      BY <3>1, PieceFacts
    <3> HIDE DEF r, P
    <3>4. /\ p + P <= Len(wire) - 1 /\ Len(wire) \in Nat /\ p \in Nat /\ 1 <= p
          /\ \A k \in 1 .. P : p + k \in 1 .. Len(wire) - 1 /\ p + k + 1 = p + 1 + k
          /\ p + P < Len(wire) - 1 =>
               /\ p + P + 1 \in 1 .. Len(wire) - 1 /\ p + 1 + P < Len(wire)
               /\ p + P + 1 + 1 = p + 1 + P + 1
      <4>1. p + P <= Len(wire) - 1 /\ Len(wire) \in Nat /\ p \in Nat /\ 1 <= p
        BY <1>1, <3>2, <3>3
      <4> QED
        BY ONLY <4>1, <3>3, DataInside
    <3>5. ASSUME NEW k \in 1 .. P
          PROVE  wire'[p + k] = Piece(r, k)
      BY <3>4, <3>5, <1>1, <3>2
    <3>6. ASSUME p + P < Len(wire) - 1
          PROVE  IsHeader(wire'[p + P + 1])
      BY <3>4, <3>6, <1>1, <3>2
    <3> QED
      BY <1>1, <3>1, <3>2, <3>4, <3>5, <3>6 DEF r, P
  <2> QED
    BY <2>4, <2>5 DEF HeaderAt
<1>6. InOrder'
  <2> SUFFICES ASSUME NEW p \in 1 .. Len(wire) - 1, NEW q \in 1 .. Len(wire) - 1,
                      NEW i \in 1 .. Handled - n, NEW j \in 1 .. Handled - n,
                      p < q, Answers(p, i)', Answers(q, j)'
               PROVE  i < j
    BY <1>1 DEF InOrder
  <2>1. Answers(p + 1, n + i) /\ Answers(q + 1, n + j) /\ p + 1 < q + 1
    BY <1>2
  <2>2. n + i < n + j
    BY <2>1, <1>3, <1>4 DEF WireInv, InOrder
  <2> QED
    BY <2>2
<1>7. Answered'
  <2> SUFFICES ASSUME NEW i \in 1 .. Handled - n, canWrite', ~Silent(sent'[i].request)
               PROVE  \E p \in 1 .. Len(wire) - 1 : Answers(p, i)'
    BY <1>1 DEF Answered
  <2>1. PICK q \in 1 .. Len(wire) : Answers(q, n + i)
    BY <1>4 DEF WireInv, Answered
  <2>2. q # 1
    <3>1. n + i \in 1 .. Handled /\ ~(n + i <= n)
      BY <1>4
    <3> QED
      BY <2>1, <3>1
  <2>3. q - 1 \in 1 .. Len(wire) - 1 /\ (q - 1) + 1 = q
    BY <1>1, <2>2
  <2> QED
    BY <2>1, <2>3, <1>2
<1> QED
  BY <1>1, <1>5, <1>6, <1>7 DEF WireTypes

\* A request is handled and its reply written.
LEMMA WriteWire ==
  ASSUME NumInv, WireInv, NEW L \in Nat, Len(wire) = L, NEW H \in Nat, Handled = H,
         Handled' = H + 1, H < Len(sent),
         UNCHANGED <<sent, need, canWrite>>,
         NEW r, r = sent[H + 1].request, canWrite \/ r = GetInputFocus,
         wire' = wire \o Stream(r, sent[H + 1].number)
  PROVE  WireInv'
<1> DEFINE P == Pieces(r)
           n == sent[H + 1].number
<1>1. /\ H \in Nat /\ Len(sent) \in Nat /\ H + 1 \in 1 .. Len(sent)
      /\ \A i \in 1 .. H : i \in 1 .. Len(sent) /\ i \in 1 .. H + 1
      /\ \A i \in 1 .. H + 1 : i \in 1 .. H \/ i = H + 1
  BY NumbersDiffer
<1>2. r \in Requests /\ n \in 0 .. SeqMod - 1
  BY <1>1, NumbersDiffer
<1>3. P \in Nat /\ \A k \in 1 .. P : Piece(r, k) \in [words : 0 .. 160]
  BY <1>2, PieceFacts
<1>4. /\ wire' \in Seq(Write) /\ L \in Nat /\ Len(wire') = L + 1 + P
      /\ \A p \in 1 .. L : wire'[p] = wire[p]
      /\ wire'[L + 1] = Header(r, n)
      /\ \A k \in 1 .. P : wire'[L + 1 + k] = Piece(r, k)
  <2> DEFINE s == Stream(r, n)
  <2>1. /\ s \in Seq(Write) /\ Len(s) = 1 + P /\ s[1] = Header(r, n)
        /\ \A k \in 1 .. P : s[1 + k] = Piece(r, k)
    BY <1>2, StreamFacts
  <2>2. wire \in Seq(Write) /\ L \in Nat /\ wire' = wire \o s
    BY DEF WireInv, WireTypes
  <2> HIDE DEF s, P
  <2>3. /\ wire' \in Seq(Write) /\ Len(wire') = L + (1 + P)
        /\ \A i \in 1 .. L + (1 + P) : wire'[i] = IF i <= L THEN wire[i] ELSE s[i - L]
    <3>1. wire \in Seq(Write) /\ Len(wire) = L /\ s \in Seq(Write) /\ Len(s) = 1 + P
      BY <2>1, <2>2
    <3>2. /\ wire \o s \in Seq(Write) /\ Len(wire \o s) = Len(wire) + Len(s)
          /\ \A i \in 1 .. Len(wire) + Len(s) :
               (wire \o s)[i] = IF i <= Len(wire) THEN wire[i] ELSE s[i - Len(wire)]
      BY <3>1, ConcatProperties
    <3> QED
      BY <3>1, <3>2, <2>2
  <2>4. \A p \in 1 .. L : wire'[p] = wire[p]
    BY <1>3, <2>2, <2>3
  <2>5. wire'[L + 1] = s[1]
    <3>1. L + 1 \in 1 .. L + (1 + P) /\ ~(L + 1 <= L) /\ L + 1 - L = 1
      BY <1>3, <2>2
    <3> QED
      BY <3>1, <2>3
  <2>6. ASSUME NEW k \in 1 .. P
        PROVE  wire'[L + 1 + k] = s[1 + k]
    <3>1. L + 1 + k \in 1 .. L + (1 + P) /\ ~(L + 1 + k <= L) /\ L + 1 + k - L = 1 + k
      BY <1>3, <2>2
    <3> QED
      BY <3>1, <2>3
  <2>7. \A k \in 1 .. P : wire'[L + 1 + k] = Piece(r, k)
    BY <2>1, <2>6
  <2>8. Len(wire') = L + 1 + P
    BY <2>2, <2>3, <1>3
  <2> QED
    BY ONLY <2>1, <2>2, <2>3, <2>4, <2>5, <2>7, <2>8
\* No data begins a reply.
<1>5. /\ \A k \in 1 .. P : ~IsHeader(wire'[L + 1 + k]) /\ \A i \in 1 .. H + 1 : ~Answers(L + 1 + k, i)'
      /\ IsHeader(wire'[L + 1])
  <2>1. ASSUME NEW k \in 1 .. P
        PROVE  ~IsHeader(wire'[L + 1 + k]) /\ \A i \in 1 .. H + 1 : ~Answers(L + 1 + k, i)'
    <3>1. ~IsHeader(wire'[L + 1 + k])
      BY <1>3, <1>4, DataFacts
    <3>2. ASSUME NEW i \in 1 .. H + 1
          PROVE  wire'[L + 1 + k] # Header(sent[i].request, sent[i].number)
      <4>1. sent[i].request \in Requests /\ sent[i].number \in 0 .. SeqMod - 1
        BY <1>1, NumbersDiffer
      <4> QED
        BY <4>1, <3>1, HeaderFacts
    <3> QED
      BY <3>1, <3>2 DEF Answers
  <2>2. IsHeader(wire'[L + 1])
    BY <1>2, <1>4, HeaderFacts
  <2> QED
    BY <2>1, <2>2
<1>6. ASSUME NEW p \in 1 .. L, NEW i \in 1 .. H + 1
      PROVE  /\ Answers(p, i)' <=> Answers(p, i)
             /\ Answers(p, i) => i \in 1 .. H
  <2>1. Answers(p, i)' <=> Answers(p, i)
    BY <1>4 DEF Answers
  <2>2. ASSUME Answers(p, i), i = H + 1
        PROVE  FALSE
    <3>1. IsHeader(wire[p])
      BY <2>2, <1>1, OneAnswer DEF WireInv
    <3>2. PICK j \in 1 .. H : Answers(p, j)
      BY <3>1 DEF WireInv, Whole, HeaderAt
    <3>3. i = j
      BY <2>2, <3>2, <1>1, OneAnswer DEF WireInv
    <3> QED
      BY <3>2, <3>3, <2>2, <1>1
  <2> QED
    BY <2>1, <2>2, <1>1
<1>7. \A i \in 1 .. H + 1 : Answers(L + 1, i)' <=> i = H + 1
  <2> SUFFICES ASSUME NEW i \in 1 .. H + 1
               PROVE  Answers(L + 1, i)' <=> i = H + 1
    OBVIOUS
  <2>1. /\ sent[i].number \in 0 .. SeqMod - 1 /\ sent[i].request \in Requests
        /\ i \in 1 .. Len(sent)
    BY <1>1, NumbersDiffer
  <2>2. Header(r, n).number = n
        /\ Header(sent[i].request, sent[i].number).number = sent[i].number
    BY <2>1, <1>2, HeaderFacts
  <2>3. Header(sent[i].request, sent[i].number) = Header(r, n) => i = H + 1
    BY <2>1, <2>2, <1>1, NumbersDiffer
  <2> QED
    BY <2>3, <1>4 DEF Answers
<1>t. L \in Nat /\ P \in Nat
  BY <1>3
<1>8. \A p \in 1 .. L + 1 + P : \/ p \in 1 .. L
                               \/ p = L + 1
                               \/ \E k \in 1 .. P : p = L + 1 + k
  <2> SUFFICES ASSUME NEW p \in 1 .. L + 1 + P, p > L + 1
               PROVE  \E k \in 1 .. P : p = L + 1 + k
    BY <1>t
  <2> HIDE DEF P
  <2>1. p - L - 1 \in 1 .. P /\ p = L + 1 + (p - L - 1)
    BY <1>t
  <2> QED
    BY <2>1
<1>9. Handled' = H + 1
  OBVIOUS
<1> HIDE DEF P, n
<1>10. Whole'
  <2>1. ASSUME NEW p \in 1 .. L, IsHeader(wire[p])
        PROVE  HeaderAt(p)'
    <3>1. HeaderAt(p)
      BY <2>1 DEF WireInv, Whole
    <3>2. \E i \in 1 .. Handled' : Answers(p, i)'
      <4>1. PICK i \in 1 .. H : Answers(p, i)
        BY <3>1 DEF HeaderAt
      <4> QED
        BY <4>1, <1>1, <1>6, <1>9
    <3>3. ASSUME NEW i \in 1 .. H + 1, Answers(p, i)'
          PROVE  LET x == sent'[i].request IN
                 /\ p + Pieces(x) <= Len(wire')
                 /\ \A k \in 1 .. Pieces(x) : wire'[p + k] = Piece(x, k)
                 /\ p + Pieces(x) < Len(wire') => IsHeader(wire'[p + Pieces(x) + 1])
                 /\ canWrite' \/ x = GetInputFocus
      <4> DEFINE x == sent[i].request
                 Q == Pieces(x)
      <4>1. i \in 1 .. H /\ Answers(p, i)
        BY <3>3, <1>6
      <4>2. /\ p + Q <= L
            /\ \A k \in 1 .. Q : wire[p + k] = Piece(x, k)
            /\ p + Q < L => IsHeader(wire[p + Q + 1])
            /\ canWrite \/ x = GetInputFocus
        BY <3>1, <4>1 DEF HeaderAt
      <4>3. Q \in Nat
        BY <1>1, <4>1, NumbersDiffer, PieceFacts
      <4> HIDE DEF x, Q
      <4>4. \A k \in 1 .. Q : wire'[p + k] = Piece(x, k)
        BY <4>2, <4>3, <1>4
      <4>5. IsHeader(wire'[p + Q + 1])
        <5>1. CASE p + Q < L
          <6>1. p + Q + 1 \in 1 .. L
            BY <5>1, <4>3, <1>4
          <6> QED
            BY <6>1, <5>1, <4>2, <1>4
        <5>2. CASE p + Q = L
          BY <5>2, <1>5
        <5>3. p + Q < L \/ p + Q = L
          BY <4>2, <4>3
        <5> QED
          BY <5>1, <5>2, <5>3
      <4>6. p + Q <= Len(wire')
        BY <4>2, <4>3, <1>3, <1>4
      <4> QED
        BY <4>2, <4>4, <4>5, <4>6 DEF x, Q
    <3> QED
      BY <3>2, <3>3, <1>9 DEF HeaderAt
  <2>2. HeaderAt(L + 1)'
    <3>1. \E i \in 1 .. Handled' : Answers(L + 1, i)'
      BY <1>1, <1>7, <1>9
    <3>2. ASSUME NEW i \in 1 .. H + 1, Answers(L + 1, i)'
          PROVE  sent'[i].request = r
      BY <3>2, <1>7
    <3>3. L + 1 + P <= Len(wire')
      BY <1>3, <1>4
    <3>4. \A k \in 1 .. P : wire'[L + 1 + k] = Piece(r, k)
      BY <1>4
    <3>5. ~(L + 1 + P < Len(wire'))
      BY <1>3, <1>4
    <3>6. ASSUME NEW i \in 1 .. H + 1, Answers(L + 1, i)'
          PROVE  LET x == sent'[i].request IN
                 /\ L + 1 + Pieces(x) <= Len(wire')
                 /\ \A k \in 1 .. Pieces(x) : wire'[L + 1 + k] = Piece(x, k)
                 /\ L + 1 + Pieces(x) < Len(wire') => IsHeader(wire'[L + 1 + Pieces(x) + 1])
                 /\ canWrite' \/ x = GetInputFocus
      <4>1. sent'[i].request = r
        BY <3>2, <3>6
      <4> QED
        BY <4>1, <3>3, <3>4, <3>5 DEF P
    <3> QED
      BY <3>1, <3>6, <1>9 DEF HeaderAt
  <2> SUFFICES ASSUME NEW p \in 1 .. L + 1 + P, IsHeader(wire'[p])
               PROVE  HeaderAt(p)'
    BY <1>4 DEF Whole
  <2>3. CASE p \in 1 .. L
    BY <2>1, <2>3, <1>4
  <2> QED
    BY <2>2, <2>3, <1>5, <1>8
<1>11. InOrder'
  <2> SUFFICES ASSUME NEW p \in 1 .. L + 1 + P, NEW q \in 1 .. L + 1 + P,
                      NEW i \in 1 .. H + 1, NEW j \in 1 .. H + 1,
                      p < q, Answers(p, i)', Answers(q, j)'
               PROVE  i < j
    BY <1>4, <1>9 DEF InOrder
  <2>1. p \in 1 .. L \/ p = L + 1
    BY <1>5, <1>8
  <2>2. q \in 1 .. L \/ q = L + 1
    BY <1>5, <1>8
  <2>3. CASE q \in 1 .. L
    <3>1. p \in 1 .. L
      BY <2>1, <2>3, <1>4
    <3>2. Answers(p, i) /\ Answers(q, j) /\ i \in 1 .. H /\ j \in 1 .. H
      BY <2>3, <3>1, <1>6
    <3> QED
      BY <2>3, <3>1, <3>2 DEF WireInv, InOrder
  <2>4. CASE q = L + 1
    <3>1. p \in 1 .. L
      BY <2>1, <2>4, <1>4
    <3>2. i \in 1 .. H /\ j = H + 1
      BY <3>1, <2>4, <1>6, <1>7
    <3> QED
      BY <3>2, <1>1
  <2> QED
    BY <2>2, <2>3, <2>4
<1>12. Answered'
  <2> SUFFICES ASSUME NEW i \in 1 .. H + 1, canWrite', ~Silent(sent'[i].request)
               PROVE  \E p \in 1 .. L + 1 + P : Answers(p, i)'
    BY <1>4, <1>9 DEF Answered
  <2>1. CASE i \in 1 .. H
    <3>1. PICK p \in 1 .. L : Answers(p, i)
      BY <2>1 DEF WireInv, Answered
    <3>2. p \in 1 .. L + 1 + P
      BY <1>t
    <3> QED
      BY <3>1, <3>2, <1>6
  <2>2. CASE i = H + 1
    <3>1. L + 1 \in 1 .. L + 1 + P
      BY <1>t
    <3> QED
      BY <2>2, <3>1, <1>7
  <2> QED
    BY <2>1, <2>2, <1>1
<1>13. Reading'
  <2>1. PICK x \in Requests : \E k \in 0 .. Pieces(x) : Front(x, k)
    BY DEF WireInv, Reading
  <2>2. PICK k \in 0 .. Pieces(x) : Front(x, k)
    BY <2>1
  <2> DEFINE m == Pieces(x) - k
  <2>3. /\ m \in Nat /\ m <= L /\ need = Left(x, k)
        /\ \A j \in 1 .. m : wire[j] = Piece(x, k + j)
        /\ m < L => IsHeader(wire[m + 1])
    BY <2>2, PieceFacts DEF Front
  <2> HIDE DEF m
  <2>4. ASSUME NEW j \in 1 .. m
        PROVE  wire'[j] = Piece(x, k + j)
    <3>1. j \in 1 .. L
      BY <2>3, <1>t
    <3> QED
      BY <3>1, <2>3, <1>4
  <2>5. IsHeader(wire'[m + 1])
    <3>1. CASE m < L
      <4>1. m + 1 \in 1 .. L
        BY <3>1, <2>3, <1>t
      <4> QED
        BY <4>1, <3>1, <2>3, <1>4
    <3>2. CASE m = L
      BY <3>2, <1>5
    <3>3. m < L \/ m = L
      BY <2>3
    <3> QED
      BY <3>1, <3>2, <3>3
  <2>6. m <= Len(wire')
    BY <2>3, <1>3, <1>4
  <2>7. Front(x, k)'
    BY <2>3, <2>4, <2>5, <2>6 DEF Front, m
  <2> QED
    BY <2>7 DEF Reading
<1> QED
  BY <1>4, <1>10, <1>11, <1>12, <1>13 DEF WireInv, WireTypes

-----------------------------------------------------------------------------
(* The steps                                                               *)

LEMMA SendKeepsIInv ==
  ASSUME IInv, NEW r \in Requests, Send(r), Len(sent) <= Window
  PROVE  IInv'
<1>1. NumInv' /\ Handled' = Handled /\ \A i \in 1 .. Len(sent) : sent'[i] = sent[i]
  BY SendNum DEF IInv
<1>2. \A i \in 1 .. Handled : i \in 1 .. Len(sent)
  BY NumbersDiffer DEF IInv
<1>3. UNCHANGED <<wire, need, canWrite, missed, mixedUp>>
  BY DEF Send
<1>4. WireInv'
  BY <1>1, <1>2, <1>3, UnchangedWire DEF IInv
<1> QED
  BY <1>1, <1>3, <1>4 DEF IInv, Undisturbed

LEMMA DispatchKeepsIInv == ASSUME IInv, Dispatch PROVE IInv'
<1> DEFINE r == Head(requests)
           writes == ~Silent(r) /\ (canWrite \/ r = GetInputFocus)
<1>1. /\ NumInv' /\ Handled' = Handled + 1 /\ Handled < Len(sent)
      /\ r = sent[Handled + 1].request /\ seq' = sent[Handled + 1].number
  BY DispatchNum DEF IInv
<1>2. wire' = IF writes THEN wire \o Stream(r, seq') ELSE wire
  BY DEF Dispatch
<1>3. UNCHANGED <<sent, need, canWrite, missed, mixedUp>>
  BY DEF Dispatch, client
<1>4. Handled \in Nat /\ Len(wire) \in Nat
  BY NumbersDiffer DEF IInv, WireInv, WireTypes
<1> HIDE DEF r
<1>5. CASE writes
  <2>1. wire' = wire \o Stream(r, sent[Handled + 1].number)
    BY <1>1, <1>2, <1>5
  <2>2. WireInv'
    BY <1>1, <1>3, <1>4, <1>5, <2>1, WriteWire DEF IInv
  <2> QED
    BY <1>1, <1>3, <2>2 DEF IInv, Undisturbed
<1>6. CASE ~writes
  <2>1. wire' = wire
    BY <1>2, <1>6
  <2>2. Silent(r) \/ ~canWrite
    BY <1>6
  <2>3. WireInv'
    BY <1>1, <1>3, <2>1, <2>2, SilentWire DEF IInv
  <2> QED
    BY <1>1, <1>3, <2>3 DEF IInv, Undisturbed
<1> QED
  BY <1>5, <1>6

LEMMA ReadHeaderKeepsIInv == ASSUME IInv, ReadHeader PROVE IInv'
<1>1. /\ wire # <<>> /\ need = 0 /\ IsHeader(Head(wire)) /\ wire' = Tail(wire)
      /\ need' = Head(wire).words
      /\ UNCHANGED <<number, requests, seq, canWrite>>
  BY DEF ReadHeader
<1>2. PICK n \in Asked(Head(wire).number) :
         /\ missed' = (missed \/ \E j \in 1 .. n - 1 : Awaits(j))
         /\ mixedUp' = (mixedUp \/ sent[n].request # Head(wire).request)
         /\ sent' = SubSeq(sent, n + 1, Len(sent))
  BY DEF ReadHeader
<1>3. Len(wire) \in Nat \ {0} /\ Head(wire) = wire[1] /\ 1 \in 1 .. Len(wire)
  <2>1. wire \in Seq(Write)
    BY DEF IInv, WireInv, WireTypes
  <2>2. Len(wire) # 0
    BY <2>1, <1>1, EmptySeq
  <2> QED
    BY <2>1, <2>2, <1>1
<1>4. /\ Handled \in 0 .. Len(sent) /\ Len(sent) \in Nat
      /\ \A i \in 1 .. Handled : i \in 1 .. Len(sent) /\ sent[i].request \in Requests
  BY NumbersDiffer DEF IInv
<1>5. n \in 1 .. Handled /\ Answers(1, n)
  <2>1. PICK i \in 1 .. Handled : Answers(1, i)
    BY <1>1, <1>3 DEF IInv, WireInv, Whole, HeaderAt
  <2>2. wire[1].number = sent[i].number
    BY <2>1, <1>3, <1>4, OneAnswer DEF IInv, WireInv
  <2>3. n \in 1 .. Len(sent) /\ sent[n].number = wire[1].number
    <3>1. DOMAIN sent = 1 .. Len(sent)
      BY DEF IInv, NumInv, SentTypes
    <3> QED
      BY <3>1, <1>2, <1>3 DEF Asked
  <2>4. n = i
    BY <2>1, <2>2, <2>3, <1>4, NumbersDiffer DEF IInv
  <2> QED
    BY <2>1, <2>4
<1>6. /\ wire[1].request = sent[n].request /\ wire[1].words = Left(sent[n].request, 0)
      /\ \A j \in 1 .. Len(sent) : Answers(1, j) => n = j
  BY <1>3, <1>4, <1>5, OneAnswer DEF IInv, WireInv
<1>7. /\ NumInv' /\ Handled' = Handled - n
      /\ \A i \in 1 .. Handled - n : sent'[i] = sent[n + i]
  BY <1>1, <1>2, <1>5, ForgetNum DEF IInv
<1>8. \A p \in 2 .. Len(wire) : \A i \in 1 .. Handled : Answers(p, i) => i > n
  <2> SUFFICES ASSUME NEW p \in 2 .. Len(wire), NEW i \in 1 .. Handled, Answers(p, i)
               PROVE  n < i
    BY <1>4, <1>5
  <2>1. p \in 1 .. Len(wire) /\ 1 < p
    BY <1>3
  <2> QED
    BY <2>1, <1>3, <1>5 DEF IInv, WireInv, InOrder
<1>9. \A i \in 1 .. Handled : Answers(1, i) => i <= n
  BY <1>4, <1>5, <1>6
<1>10. /\ WireTypes' /\ Whole' /\ InOrder' /\ Answered'
       /\ Len(wire') = Len(wire) - 1
       /\ \A p \in 1 .. Len(wire) - 1 : wire'[p] = wire[p + 1]
  <2>1. Handled \in Nat /\ n \in 0 .. Handled
    BY <1>4, <1>5
  <2> QED
    BY <2>1, <1>1, <1>4, <1>7, <1>8, <1>9, ReadWire DEF IInv
<1>11. Reading'
  <2> DEFINE r == sent[n].request
             P == Pieces(r)
  <2>1. /\ 1 + P <= Len(wire) /\ \A k \in 1 .. P : wire[1 + k] = Piece(r, k)
        /\ 1 + P < Len(wire) => IsHeader(wire[1 + P + 1])
    BY <1>1, <1>3, <1>5 DEF IInv, WireInv, Whole, HeaderAt
  <2>2. r \in Requests /\ P \in Nat
    BY <1>4, <1>5, PieceFacts
  <2>3. need' = Left(r, 0)
    BY <1>1, <1>3, <1>6
  <2>4. PICK x \in Requests : x = r
    BY <2>2
  <2>5. PICK Q \in Nat : Q = P
    BY <2>2
  <2> HIDE DEF r, P
  <2>6. Q = Pieces(x)
    BY <2>4, <2>5 DEF P
  <2>7. \A j \in 1 .. Q : wire'[j] = Piece(x, j)
    <3> SUFFICES ASSUME NEW j \in 1 .. Q
                 PROVE  wire'[j] = Piece(x, j)
      OBVIOUS
    <3>1. j \in 1 .. Len(wire) - 1 /\ j + 1 = 1 + j
      BY <2>1, <2>5, <1>3
    <3> QED
      BY <3>1, <2>1, <2>4, <2>5, <1>10
  <2>8. Q < Len(wire') => IsHeader(wire'[Q + 1])
    <3> SUFFICES ASSUME Q < Len(wire')
                 PROVE  IsHeader(wire'[Q + 1])
      OBVIOUS
    <3>1. Q + 1 \in 1 .. Len(wire) - 1 /\ Q + 1 + 1 = 1 + Q + 1 /\ 1 + Q < Len(wire)
      BY <1>3, <1>10
    <3>2. wire'[Q + 1] = wire[1 + Q + 1]
      BY <3>1, <1>10
    <3> QED
      BY <3>1, <3>2, <2>1, <2>5
  <2>9. Q <= Len(wire')
    BY <2>1, <2>5, <1>3, <1>10
  <2>10. Front(x, 0)'
    <3>1. Pieces(x) - 0 = Q /\ \A j \in 1 .. Q : 0 + j = j
      BY <2>6
    <3> QED
      BY <3>1, <2>3, <2>4, <2>7, <2>8, <2>9 DEF Front
  <2>11. 0 \in 0 .. Pieces(x)
    BY <2>6
  <2> QED
    BY <2>10, <2>11 DEF Reading
<1>12. Undisturbed'
  <2>1. sent[n].request = Head(wire).request
    BY <1>3, <1>6
  <2>2. ASSUME canWrite, NEW j \in 1 .. n - 1
        PROVE  ~Awaits(j)
    <3> SUFFICES ASSUME Awaits(j)
                 PROVE  FALSE
      OBVIOUS
    <3>1. j \in 1 .. Handled /\ j < n
      BY <1>4, <1>5
    <3>2. ~Silent(sent[j].request)
      BY <3>1, <1>4, RequestOps DEF Awaits
    <3>3. PICK p \in 1 .. Len(wire) : Answers(p, j)
      BY <2>2, <3>1, <3>2 DEF IInv, WireInv, Answered
    <3>4. p # 1
      BY <3>1, <3>3, <1>4, <1>6
    <3>5. j > n
      BY <3>1, <3>3, <3>4, <1>3, <1>8
    <3> QED
      BY <3>1, <3>5, <1>5
  <2> QED
    BY <2>1, <2>2, <1>1, <1>2 DEF IInv, Undisturbed
<1> QED
  BY <1>7, <1>10, <1>11, <1>12 DEF IInv, WireInv

LEMMA ReadDataKeepsIInv == ASSUME IInv, ReadData PROVE IInv'
<1>1. /\ wire # <<>> /\ ~IsHeader(Head(wire)) /\ wire' = Tail(wire)
      /\ need' = need - Head(wire).words
      /\ UNCHANGED <<sent, number, requests, seq, canWrite, missed, mixedUp>>
  BY DEF ReadData
<1>2. Len(wire) \in Nat \ {0} /\ Head(wire) = wire[1] /\ 1 \in 1 .. Len(wire)
  <2>1. wire \in Seq(Write)
    BY DEF IInv, WireInv, WireTypes
  <2>2. Len(wire) # 0
    BY <2>1, <1>1, EmptySeq
  <2> QED
    BY <2>1, <2>2, <1>1
<1>3. /\ Handled \in 0 .. Len(sent) /\ Len(sent) \in Nat
      /\ \A i \in 1 .. Handled : i \in 1 .. Len(sent) /\ sent[i].request \in Requests
  BY NumbersDiffer DEF IInv
<1>4. NumInv' /\ Handled' = Handled
  BY <1>1 DEF IInv, NumInv, SentTypes, Counted, Handled
<1>5. \A i \in 1 .. Handled : ~Answers(1, i)
  BY <1>1, <1>2, <1>3, OneAnswer DEF IInv, WireInv
<1>6. /\ WireTypes' /\ Whole' /\ InOrder' /\ Answered'
      /\ Len(wire') = Len(wire) - 1
      /\ \A p \in 1 .. Len(wire) - 1 : wire'[p] = wire[p + 1]
  <2>1. /\ Handled \in Nat /\ 0 \in 0 .. Handled /\ Handled' = Handled - 0
        /\ \A i \in 1 .. Handled - 0 : sent'[i] = sent[0 + i]
        /\ \A i \in 1 .. Handled : i > 0
    BY <1>1, <1>3, <1>4
  <2>2. /\ \A p \in 2 .. Len(wire) : \A i \in 1 .. Handled : Answers(p, i) => i > 0
        /\ \A i \in 1 .. Handled : Answers(1, i) => i <= 0
    BY <2>1, <1>5
  <2> QED
    BY <2>1, <2>2, <1>1, <1>3, ReadWire DEF IInv
<1>7. Reading'
  <2>1. PICK x \in Requests : \E k \in 0 .. Pieces(x) : Front(x, k)
    BY DEF IInv, WireInv, Reading
  <2>2. PICK k \in 0 .. Pieces(x) : Front(x, k)
    BY <2>1
  <2>3. Pieces(x) \in Nat
    BY PieceFacts
  <2>4. PICK m \in Nat : m = Pieces(x) - k
    BY <2>3
  <2>5. /\ m <= Len(wire) /\ need = Left(x, k)
        /\ \A j \in 1 .. m : wire[j] = Piece(x, k + j)
        /\ m < Len(wire) => IsHeader(wire[m + 1])
    BY <2>2, <2>4 DEF Front
  <2>6. m # 0
    <3> SUFFICES ASSUME m = 0
                 PROVE  FALSE
      OBVIOUS
    <3>1. m + 1 = 1 /\ m < Len(wire)
      BY <1>2
    <3> QED
      BY <3>1, <2>5, <1>1, <1>2
  <2>7. wire[1] = Piece(x, k + 1) /\ k + 1 \in 1 .. Pieces(x) /\ m - 1 = Pieces(x) - (k + 1)
    <3>1. 1 \in 1 .. m
      BY <2>6
    <3>2. wire[1] = Piece(x, k + 1)
      BY ONLY <3>1, <2>5
    <3>3. k \in 0 .. Pieces(x)
      OBVIOUS
    <3>4. k + 1 \in 1 .. Pieces(x) /\ m - 1 = Pieces(x) - (k + 1)
      BY ONLY <2>3, <2>4, <3>1, <3>3, PieceAfter, Zenon
    <3> QED
      BY <3>2, <3>4
  <2>8. need' = Left(x, k + 1)
    <3>1. /\ Left(x, (k + 1) - 1) = Piece(x, k + 1).words + Left(x, k + 1)
          /\ Piece(x, k + 1) \in [words : 0 .. 160]
          /\ Left(x, k + 1) \in 0 .. 160
      BY <2>3, <2>7, PieceFacts
    <3>2. (k + 1) - 1 = k /\ Piece(x, k + 1).words \in 0 .. 160
      BY <2>3, <3>1
    <3>3. need' = Left(x, k) - Piece(x, k + 1).words
      BY <2>5, <2>7, <1>1, <1>2
    <3>4. Left(x, k) = Piece(x, k + 1).words + Left(x, k + 1)
      BY ONLY <3>1, <3>2
    <3>5. Left(x, k + 1) \in 0 .. 160
      BY ONLY <3>1
    <3> QED
      BY ONLY <3>2, <3>3, <3>4, <3>5, WordsLeft, Zenon
  <2>9. \A j \in 1 .. m - 1 : wire'[j] = Piece(x, k + 1 + j)
    <3> SUFFICES ASSUME NEW j \in 1 .. m - 1
                 PROVE  wire'[j] = Piece(x, k + 1 + j)
      OBVIOUS
    <3>1. j \in 1 .. Len(wire) - 1 /\ j + 1 \in 1 .. m /\ k + (j + 1) = k + 1 + j
      BY <2>3, <2>5, <2>6, <1>2
    <3> QED
      BY <3>1, <2>5, <1>6
  <2>10. m - 1 < Len(wire') => IsHeader(wire'[m - 1 + 1])
    <3> SUFFICES ASSUME m - 1 < Len(wire')
                 PROVE  IsHeader(wire'[m - 1 + 1])
      OBVIOUS
    <3>1. m \in 1 .. Len(wire) - 1 /\ m - 1 + 1 = m /\ m < Len(wire)
      BY <2>6, <1>2, <1>6
    <3> QED
      BY <3>1, <2>5, <1>6
  <2>11. m - 1 <= Len(wire')
    BY <2>5, <2>6, <1>2, <1>6
  <2>12. Front(x, k + 1)'
    BY <2>7, <2>8, <2>9, <2>10, <2>11 DEF Front
  <2>13. k + 1 \in 0 .. Pieces(x)
    BY <2>3, <2>7
  <2> QED
    BY <2>12, <2>13 DEF Reading
<1> QED
  BY <1>1, <1>4, <1>6, <1>7 DEF IInv, WireInv, Undisturbed

LEMMA InitIInv == ASSUME Init PROVE IInv
<1>1. /\ sent = <<>> /\ number = 1 /\ requests = <<>> /\ seq = 0 /\ canWrite \in BOOLEAN
      /\ wire = <<>> /\ need = 0 /\ missed = FALSE /\ mixedUp = FALSE
  BY DEF Init
<1>2. NumInv
  <2>1. SeqMod \in Nat /\ Window \in Nat /\ SeqMod > 2
    BY RepliesAssumption
  <2>2. Len(sent) = 0 /\ Len(requests) = 0
    BY <1>1
  <2>3. SentTypes
    <3>1. number \in 0 .. SeqMod - 1 /\ seq \in 0 .. SeqMod - 1
      BY <1>1, <2>1
    <3>2. sent \in Seq([request : Requests, number : 0 .. SeqMod - 1]) /\ requests \in Seq(Requests)
      BY <1>1
    <3>3. Len(sent) <= Window + 1 /\ Len(requests) <= Len(sent)
      BY <2>1, <2>2
    <3>4. canWrite \in BOOLEAN
      BY <1>1
    <3> QED
      BY <3>1, <3>2, <3>3, <3>4 DEF SentTypes
  <2>4. Back(number, Len(requests) + 1) = 0
    <3>1. Len(requests) + 1 = 1
      BY <2>2
    <3>2. Back(1, 1) = 0
      BY DEF Back
    <3> QED
      BY <3>1, <3>2, <1>1
  <2> QED
    BY <1>1, <2>2, <2>3, <2>4 DEF NumInv, Counted
<1>3. Handled = 0
  BY <1>1 DEF Handled
<1>4. Reading
  <2>1. GetInputFocus \in Requests
    BY DEF Requests
  <2>2. GetInputFocus.op = "GetInputFocus"
    BY DEF GetInputFocus, Simple, Request
  <2>3. Pieces(GetInputFocus) = 0 /\ Left(GetInputFocus, 0) = 0
    <3>1. ReplyTo(GetInputFocus) = Reply(0, <<>>)
      BY <2>1, <2>2, ReplyValue
    <3> QED
      BY <3>1, <2>2 DEF Pieces, Reply, Left
  <2> QED
    BY <2>1, <2>3, <1>1 DEF Reading, Front
<1>5. WireTypes /\ Whole /\ InOrder /\ Answered
  BY <1>1, <1>3 DEF WireTypes, Whole, InOrder, Answered
<1> QED
  BY <1>1, <1>2, <1>4, <1>5 DEF IInv, WireInv, Undisturbed

LEMMA NextKeepsIInv == ASSUME IInv, [Next]_vars PROVE IInv'
<1>1. ASSUME NEW r \in Asking \cup Telling, Ask(r)
      PROVE  IInv'
  <2>1. r \in Requests /\ Send(r) /\ Len(sent) < Window /\ Len(sent) \in Nat
    BY <1>1, NumbersDiffer DEF Requests, Ask, IInv
  <2> QED
    BY <2>1, SendKeepsIInv, RepliesAssumption
<1>2. CASE Sync
  <2>1. GetInputFocus \in Requests /\ Send(GetInputFocus) /\ Len(sent) = Window
    BY <1>2 DEF Requests, Sync
  <2> QED
    BY <2>1, SendKeepsIInv, RepliesAssumption
<1>3. CASE Dispatch
  BY <1>3, DispatchKeepsIInv
<1>4. CASE ReadHeader
  BY <1>4, ReadHeaderKeepsIInv
<1>5. CASE ReadData
  BY <1>5, ReadDataKeepsIInv
<1>6. CASE UNCHANGED vars
  BY <1>6 DEF vars, connection, client, IInv, NumInv, SentTypes, Counted, Handled,
       WireInv, WireTypes, Whole, HeaderAt, Answers, InOrder, Answered, Reading, Front, Undisturbed
<1> QED
  BY <1>1, <1>2, <1>3, <1>4, <1>5, <1>6 DEF Next

LEMMA AlwaysIInv == Spec => []IInv
  BY InitIInv, NextKeepsIInv, PTL DEF Spec

-----------------------------------------------------------------------------
\* For any window and any range of the numbers larger than it, the client and
\* the server keep their types, the client is never owed more than the longest
\* reply (h_ListImageFormats), and no two requests it waits for share a number.
THEOREM TypeCorrect == Spec => []TypeOK
<1>1. IInv => TypeOK
  <2> SUFFICES ASSUME IInv
               PROVE  TypeOK
    OBVIOUS
  <2>1. DOMAIN sent = 1 .. Len(sent)
    BY DEF IInv, NumInv, SentTypes
  <2>2. /\ \A i \in 1 .. Len(sent) : sent[i].request \in Requests
        /\ \A i, j \in 1 .. Len(sent) : sent[i].number = sent[j].number => i = j
    BY NumbersDiffer DEF IInv
  <2>3. need \in 0 .. 160
    <3>1. PICK x \in Requests : \E k \in 0 .. Pieces(x) : Front(x, k)
      BY DEF IInv, WireInv, Reading
    <3>2. PICK k \in 0 .. Pieces(x) : need = Left(x, k)
      BY <3>1 DEF Front
    <3> QED
      BY <3>2, PieceFacts
  <2> QED
    BY <2>1, <2>2, <2>3 DEF TypeOK, IInv, NumInv, SentTypes
<1> QED
  BY <1>1, AlwaysIInv, PTL

\* The client never takes data for a reply or a reply for data; with
\* WriteToClient (cyxv_init.c) each request that has a reply gets its own, in
\* order, through any wrap of the 16-bit numbers, though UngrabPort is answered too.
THEOREM RepliesAreTheirOwn == Spec => []EachGetsItsReply
<1>1. IInv => EachGetsItsReply
  <2> SUFFICES ASSUME IInv
               PROVE  EachGetsItsReply
    OBVIOUS
  <2>1. /\ wire \in Seq(Write) /\ Len(wire) \in Nat
        /\ wire # <<>> => Len(wire) # 0 /\ Head(wire) = wire[1]
        /\ wire = <<>> => Len(wire) = 0
    BY EmptySeq DEF IInv, WireInv, WireTypes
  <2>2. /\ Handled \in 0 .. Len(sent) /\ Len(sent) \in Nat
        /\ \A i \in 1 .. Handled : i \in 1 .. Len(sent)
        /\ DOMAIN sent = 1 .. Len(sent)
    BY NumbersDiffer DEF IInv, NumInv, SentTypes
  <2>3. InStep
    <3>1. PICK x \in Requests : \E k \in 0 .. Pieces(x) : Front(x, k)
      BY DEF IInv, WireInv, Reading
    <3>2. PICK k \in 0 .. Pieces(x) : Front(x, k)
      BY <3>1
    <3>3. Pieces(x) \in Nat
      BY PieceFacts
    <3>4. PICK m \in Nat : m = Pieces(x) - k
      BY <3>3
    <3>5. /\ m <= Len(wire) /\ need = Left(x, k)
          /\ \A j \in 1 .. m : wire[j] = Piece(x, k + j)
          /\ m < Len(wire) => IsHeader(wire[m + 1])
      BY <3>2, <3>4 DEF Front
    <3>6. m = 0 => need = 0
      BY <3>3, <3>4, <3>5, PieceFacts
    <3>7. m # 0 => ~IsHeader(wire[1]) /\ wire[1].words <= need
      <4> SUFFICES ASSUME m # 0
                   PROVE  ~IsHeader(wire[1]) /\ wire[1].words <= need
        OBVIOUS
      <4>1. wire[1] = Piece(x, k + 1) /\ k + 1 \in 1 .. Pieces(x) /\ (k + 1) - 1 = k
        BY <3>3, <3>4, <3>5
      <4>2. /\ Left(x, k) = Piece(x, k + 1).words + Left(x, k + 1)
            /\ Piece(x, k + 1) \in [words : 0 .. 160]
            /\ Left(x, k + 1) \in 0 .. 160
        BY <4>1, <3>3, PieceFacts
      <4>3. Piece(x, k + 1).words \in 0 .. 160
        BY ONLY <4>2
      <4>4. Piece(x, k + 1).words <= Left(x, k)
        BY ONLY <4>2, <4>3, WordsLeft, Zenon
      <4>5. ~IsHeader(Piece(x, k + 1))
        BY <4>2, DataFacts
      <4> QED
        BY ONLY <4>1, <4>4, <4>5, <3>5, Zenon
    <3>8. wire # <<>> /\ IsHeader(wire[1]) => Asked(wire[1].number) # {}
      <4> SUFFICES ASSUME wire # <<>>, IsHeader(wire[1])
                   PROVE  Asked(wire[1].number) # {}
        OBVIOUS
      <4>1. 1 \in 1 .. Len(wire)
        BY <2>1
      <4>2. PICK i \in 1 .. Handled : Answers(1, i)
        BY <4>1 DEF IInv, WireInv, Whole, HeaderAt
      <4>3. wire[1].number = sent[i].number
        BY <4>1, <4>2, <2>2, OneAnswer DEF IInv, WireInv
      <4> QED
        BY <4>3, <2>2 DEF Asked
    <3>9. wire = <<>> => m = 0
      BY <2>1, <3>5
    <3>10. wire # <<>> /\ m = 0 => IsHeader(wire[1])
      <4> SUFFICES ASSUME wire # <<>>, m = 0
                   PROVE  IsHeader(wire[1])
        OBVIOUS
      <4>1. m + 1 = 1 /\ m < Len(wire)
        BY <2>1
      <4> QED
        BY <4>1, <3>5
    <3> QED
      BY <2>1, <3>6, <3>7, <3>8, <3>9, <3>10, Zenon DEF InStep
  <2>4. ASSUME canWrite, requests = <<>>, wire = <<>>, NEW i \in DOMAIN sent
        PROVE  ~Awaits(i)
    <3> SUFFICES ASSUME Awaits(i)
                 PROVE  FALSE
      OBVIOUS
    <3>1. Handled = Len(sent)
      BY <2>2, <2>4 DEF Handled
    <3>2. sent[i].request \in Requests
      BY <2>2, NumbersDiffer DEF IInv
    <3>3. ~Silent(sent[i].request)
      BY <3>2, RequestOps DEF Awaits
    <3>4. \E p \in 1 .. Len(wire) : Answers(p, i)
      BY <2>2, <2>4, <3>1, <3>3 DEF IInv, WireInv, Answered
    <3> QED
      BY <3>4, <2>1, <2>4
  <2> QED
    BY <2>3, <2>4 DEF EachGetsItsReply, IInv, Undisturbed
<1> QED
  BY <1>1, AlwaysIInv, PTL

-----------------------------------------------------------------------------
(* The images                                                              *)

-----------------------------------------------------------------------------
(* Rows and columns as one number                                          *)

LEMMA TimesMonotone ==
  ASSUME NEW w \in Nat, NEW m \in Nat, NEW n \in Nat, m <= n
  PROVE  m * w <= n * w /\ m * w \in Nat /\ n * w \in Nat
<1>1. PICK d \in Nat : n = m + d
  OBVIOUS
<1>2. d * w \in Nat /\ m * w \in Nat /\ (m + d) * w = m * w + d * w
  OBVIOUS
<1> QED
  BY <1>1, <1>2

\* A place inside an image of h rows is before its end.
LEMMA InsideRows ==
  ASSUME NEW w \in Nat, NEW h \in Nat, NEW r \in 0 .. h - 1, NEW c \in 0 .. w - 1
  PROVE  r * w + c \in Nat /\ r * w + c < h * w
<1>1. (r + 1) * w <= h * w
  BY TimesMonotone
<1>2. (r + 1) * w = r * w + w /\ r * w \in Nat
  OBVIOUS
<1> QED
  BY <1>1, <1>2

\* Its number determines it.
LEMMA OnePlace ==
  ASSUME NEW w \in Nat, NEW r \in Nat, NEW s \in Nat,
         NEW c \in 0 .. w - 1, NEW d \in 0 .. w - 1, r * w + c = s * w + d
  PROVE  r = s /\ c = d
<1>1. ASSUME NEW m \in Nat, NEW n \in Nat, NEW x \in 0 .. w - 1, NEW y \in 0 .. w - 1,
             m < n
      PROVE  m * w + x < n * w + y
  <2>1. (m + 1) * w <= n * w
    BY <1>1, TimesMonotone
  <2>2. (m + 1) * w = m * w + w /\ m * w \in Nat /\ n * w \in Nat
    OBVIOUS
  <2> QED
    BY <2>1, <2>2
<1>2. ~(r < s) /\ ~(s < r)
  BY <1>1
<1>3. r = s
  BY <1>2
<1>4. r * w \in Nat /\ s * w = r * w
  BY <1>3
<1> QED
  BY <1>3, <1>4

LEMMA Division ==
  ASSUME NEW w \in Nat \ {0}, NEW n \in Nat
  PROVE  n \div w \in Nat /\ n % w \in 0 .. w - 1 /\ n = w * (n \div w) + (n % w)
<1>1. n \div w \in Nat
  OBVIOUS
<1>2. n % w \in 0 .. w - 1
  OBVIOUS
<1>3. n = w * (n \div w) + (n % w)
  OBVIOUS
<1> QED
  BY <1>1, <1>2, <1>3

LEMMA Halves ==
  ASSUME NEW a \in Nat, NEW c \in 0 .. 2 * a - 1
  PROVE  c \div 2 \in 0 .. a - 1 /\ c % 2 \in 0 .. 1 /\ c = 2 * (c \div 2) + (c % 2)
<1>1. c \div 2 \in Nat /\ c % 2 \in 0 .. 1 /\ c = 2 * (c \div 2) + (c % 2)
  BY Division
<1>2. \A q \in Nat, p \in 0 .. 1 : c = 2 * q + p => q \in 0 .. a - 1
  OBVIOUS
<1>3. c \div 2 \in 0 .. a - 1
  BY <1>1, <1>2
<1> QED
  BY <1>1, <1>3

LEMMA Areas ==
  ASSUME NEW a \in Nat, NEW b \in Nat, NEW w, NEW h, w = 2 * a, h = 2 * b
  PROVE  /\ w \in Nat /\ h \in Nat /\ a * b \in Nat
         /\ w * h = 4 * (a * b) /\ (w * h) \div 4 = a * b /\ (w * h) \div 2 = 2 * (a * b)
         /\ w \div 2 = a /\ h \div 2 = b /\ b * a = a * b /\ b * w = 2 * (a * b)
         /\ h * w = w * h /\ h * (2 * w) = w * h * 2
<1>1. w * h = 4 * (a * b) /\ a * b \in Nat
  OBVIOUS
<1>2. \A k \in Nat : (4 * k) \div 4 = k /\ (4 * k) \div 2 = 2 * k
  OBVIOUS
<1>3. b * w = 2 * (a * b) /\ b * a = a * b /\ h * w = w * h /\ h * (2 * w) = w * h * 2
  OBVIOUS
<1>4. w \in Nat /\ h \in Nat /\ w \div 2 = a /\ h \div 2 = b
  OBVIOUS
<1> QED
  BY <1>1, <1>2, <1>3, <1>4

-----------------------------------------------------------------------------
(* Integers of 32 bits                                                     *)

LEMMA SmallMod ==
  ASSUME NEW m \in Nat \ {0}, NEW n \in Nat, n < m
  PROVE  n % m = n
<1> DEFINE q == n \div m
           e == n % m
<1>1. q \in Nat /\ e \in 0 .. m - 1 /\ n = m * q + e
  BY Division
<1> HIDE DEF q, e
<1>2. q * m + e = 0 * m + n /\ n \in 0 .. m - 1
  BY <1>1
<1>3. m \in Nat /\ q \in Nat /\ 0 \in Nat /\ e \in 0 .. m - 1
  BY <1>1
<1>4. e = n
  BY ONLY <1>2, <1>3, OnePlace
<1> QED
  BY <1>4 DEF e

LEMMA HalfRange ==
  /\ IntMod \div 2 \in Nat \ {0} /\ IntMod = 2 * (IntMod \div 2)
<1>1. \A n \in Nat \ {0} : n % 2 = 0 => n \div 2 \in Nat \ {0} /\ n = 2 * (n \div 2)
  OBVIOUS
<1> QED
  BY <1>1, ImagesAssumption

\* A number of half the range is the same as int and as uint32_t.
LEMMA NoWrap ==
  ASSUME NEW n \in Nat, n < IntMod \div 2
  PROVE  Signed(n) = n /\ Unsigned(n) = n
<1> DEFINE k == IntMod \div 2
<1>1. k \in Nat \ {0} /\ IntMod = 2 * k
  BY HalfRange
<1>2. Signed(n) = ((n + k) % IntMod) - k /\ Unsigned(n) = n % IntMod
  BY DEF Signed, Unsigned
<1>3. n < k
  OBVIOUS
<1> HIDE DEF k
<1>4. IntMod \in Nat \ {0} /\ n + k \in Nat /\ n + k < IntMod /\ n < IntMod
  BY <1>1, <1>3
<1>5. (n + k) % IntMod = n + k
  BY <1>4, SmallMod
<1>6. n % IntMod = n
  BY <1>4, SmallMod
<1> QED
  BY <1>1, <1>2, <1>5, <1>6

LEMMA UnsignedRange ==
  ASSUME NEW n \in Int
  PROVE  Unsigned(n) \in 0 .. IntMod - 1
  BY ImagesAssumption DEF Unsigned

LEMMA SignedRange ==
  ASSUME NEW n \in Int
  PROVE  Signed(n) \in Int
  BY ImagesAssumption DEF Signed

\* The area of a size that fits, and what is made of it, are in range.
LEMMA FitsArea ==
  ASSUME NEW n \in Nat, 4 * n <= IntMod \div 2
  PROVE  /\ Signed(n) = n /\ Unsigned(n) = n
         /\ Signed(2 * n) = 2 * n /\ Unsigned(2 * n) = 2 * n
         /\ Quotient(n, 4) = n \div 4 /\ Quotient(n, 2) = n \div 2
         /\ Unsigned(n \div 4) = n \div 4 /\ Unsigned(n \div 2) = n \div 2
         /\ Unsigned(n + n \div 4) = n + n \div 4
         /\ Unsigned(n + 2 * (n \div 4)) = n + 2 * (n \div 4)
         /\ Unsigned(n + n \div 2) = n + n \div 2
<1> DEFINE k == IntMod \div 2
<1>1. k \in Nat \ {0} /\ 4 * n <= k
  BY HalfRange
<1>2. \A m \in Nat : m < k => Signed(m) = m /\ Unsigned(m) = m
  BY NoWrap
<1> HIDE DEF k
<1>3. n \div 4 \in Nat /\ n \div 2 \in Nat /\ n \div 4 <= n /\ n \div 2 <= n
      /\ 2 * (n \div 4) <= n
  OBVIOUS
<1>4. /\ n < k /\ 2 * n < k /\ n \div 4 < k /\ n \div 2 < k
      /\ n + n \div 4 < k /\ n + 2 * (n \div 4) < k /\ n + n \div 2 < k
  BY <1>1, <1>3
<1>5. Quotient(n, 4) = n \div 4 /\ Quotient(n, 2) = n \div 2
  BY DEF Quotient
<1> QED
  BY <1>2, <1>3, <1>4, <1>5

-----------------------------------------------------------------------------
(* The layouts                                                             *)

\* The layouts of sizes that fit.
PlainAttrs(f, w, h) ==
    IF f \in {"YUY2", "UYVY"} THEN Layout(<<w * 2>>, <<0>>, 2 * (w * h))
    ELSE IF f = "NV12" THEN Layout(<<w, w>>, <<0, w * h>>, w * h + (w * h) \div 2)
    ELSE Layout(<<w, w \div 2, w \div 2>>, <<0, w * h, w * h + (w * h) \div 4>>,
                w * h + 2 * ((w * h) \div 4))

LEMMA FitsAttrs ==
  ASSUME NEW f \in Fourcc, NEW w \in Nat, NEW h \in Nat, Fits(w, h)
  PROVE  Attrs(f, w, h) = PlainAttrs(f, w, h)
<1> DEFINE n == w * h
<1>1. n \in Nat /\ 4 * n <= IntMod \div 2
  BY DEF Fits
<1>2. /\ Signed(n) = n /\ Unsigned(n) = n
      /\ Signed(2 * n) = 2 * n /\ Unsigned(2 * n) = 2 * n
      /\ Quotient(n, 4) = n \div 4 /\ Quotient(n, 2) = n \div 2
      /\ Unsigned(n \div 4) = n \div 4 /\ Unsigned(n \div 2) = n \div 2
      /\ Unsigned(n + n \div 4) = n + n \div 4
      /\ Unsigned(n + 2 * (n \div 4)) = n + 2 * (n \div 4)
      /\ Unsigned(n + n \div 2) = n + n \div 2
  <2> HIDE DEF n
  <2> QED
    BY <1>1, FitsArea
<1>3. CASE f \in {"YUY2", "UYVY"}
  BY <1>2, <1>3 DEF Attrs, PackedAttrs, PlainAttrs
<1>4. CASE f = "NV12"
  BY <1>2, <1>4 DEF Attrs, SemiPlanarAttrs, PlainAttrs
<1>5. CASE f \in {"YV12", "I420"}
  BY <1>2, <1>5 DEF Attrs, PlanarAttrs, PlainAttrs
<1> QED
  BY <1>3, <1>4, <1>5 DEF Fourcc

LEMMA SizeRange ==
  ASSUME NEW f \in Fourcc, NEW w \in Nat, NEW h \in Nat
  PROVE  Attrs(f, w, h).size \in 0 .. IntMod - 1
<1>1. w * h \in Int /\ 2 * (w * h) \in Int
  OBVIOUS
<1>2. Signed(w * h) \in Int /\ Signed(2 * (w * h)) \in Int
  BY <1>1, SignedRange
<1>3. \A n \in Int : Quotient(n, 4) \in Int /\ Quotient(n, 2) \in Int
  BY DEF Quotient
<1> DEFINE y == Unsigned(Signed(w * h))
           c == Unsigned(Quotient(Signed(w * h), 4))
           d == Unsigned(Quotient(Signed(w * h), 2))
<1>4. y \in Int /\ c \in Int /\ d \in Int
  <2>1. \A n \in Int : Unsigned(n) \in Int
    BY UnsignedRange, ImagesAssumption
  <2> QED
    BY <1>2, <1>3, <2>1
<1>5. /\ f \in {"YUY2", "UYVY"} => Attrs(f, w, h).size = Unsigned(Signed(2 * (w * h)))
      /\ f = "NV12" => Attrs(f, w, h).size = Unsigned(y + d)
      /\ f \in {"YV12", "I420"} => Attrs(f, w, h).size = Unsigned(y + 2 * c)
  BY DEF Attrs, PackedAttrs, SemiPlanarAttrs, PlanarAttrs, Layout
<1> HIDE DEF y, c, d
<1>6. y + d \in Int /\ y + 2 * c \in Int
  BY <1>4
<1> QED
  BY <1>2, <1>5, <1>6, UnsignedRange DEF Fourcc

LEMMA PositionsOf ==
  /\ Positions("YV12", "Y") = {1} /\ Positions("YV12", "U") = {3}
  /\ Positions("YV12", "V") = {2}
  /\ Positions("I420", "Y") = {1} /\ Positions("I420", "U") = {2}
  /\ Positions("I420", "V") = {3}
  /\ Positions("NV12", "Y") = {1} /\ Positions("NV12", "U") = {2}
  /\ Positions("NV12", "V") = {3}
  /\ Positions("YUY2", "Y") = {1, 3} /\ Positions("YUY2", "U") = {2}
  /\ Positions("YUY2", "V") = {4}
  /\ Positions("UYVY", "Y") = {2, 4} /\ Positions("UYVY", "U") = {1}
  /\ Positions("UYVY", "V") = {3}
  BY DEF Positions, Format, Planar, Packed

LEMMA Extremes ==
  /\ \A i \in Nat : Lowest({i}) = i /\ Highest({i}) = i
  /\ \A i, j \in Nat : i < j => Lowest({i, j}) = i /\ Highest({i, j}) = j
  BY DEF Lowest, Highest

\* The number of a component's byte in a group of two pixels, or of its plane.
Side(f, k, odd) ==
    IF f = "YUY2" THEN IF k = "Y" THEN 2 * odd ELSE IF k = "U" THEN 1 ELSE 3
    ELSE IF f = "UYVY" THEN IF k = "Y" THEN 2 * odd + 1 ELSE IF k = "U" THEN 0 ELSE 2
    ELSE IF f = "YV12" THEN IF k = "V" THEN 0 ELSE 1
    ELSE IF k = "U" THEN 0 ELSE 1

\* Where the sample of component k of pixel <<r, c>> is, in an image of 2 * a by
\* 2 * b, by the number of its pair.
Pair(a, r, c) == r * a + c \div 2
Place(f, k, a, b, r, c) ==
    IF f \in {"YUY2", "UYVY"} THEN 4 * Pair(a, r, c) + Side(f, k, c % 2)
    ELSE IF k = "Y" THEN r * (2 * a) + c
    ELSE IF f = "NV12" THEN 4 * (a * b) + 2 * Pair(a, r \div 2, c) + Side(f, k, 0)
    ELSE 4 * (a * b) + Side(f, k, 0) * (a * b) + Pair(a, r \div 2, c)

\* A pair is inside, and its number determines it.
LEMMA PairInside ==
  ASSUME NEW a \in Nat, NEW b \in Nat, NEW r \in 0 .. b - 1, NEW c \in 0 .. 2 * a - 1
  PROVE  Pair(a, r, c) \in Nat /\ Pair(a, r, c) < a * b
<1>1. c \div 2 \in 0 .. a - 1
  BY Halves
<1>2. r * a + c \div 2 \in Nat /\ r * a + c \div 2 < b * a
  BY <1>1, InsideRows
<1>3. b * a = a * b
  OBVIOUS
<1> QED
  BY <1>2, <1>3 DEF Pair

LEMMA PairIsOne ==
  ASSUME NEW a \in Nat, NEW r \in Nat, NEW s \in Nat,
         NEW c \in 0 .. 2 * a - 1, NEW d \in 0 .. 2 * a - 1, Pair(a, r, c) = Pair(a, s, d)
  PROVE  r = s /\ c \div 2 = d \div 2
<1>1. c \div 2 \in 0 .. a - 1 /\ d \div 2 \in 0 .. a - 1
  BY Halves
<1> QED
  BY <1>1, OnePlace DEF Pair

LEMMA SideTypes ==
  ASSUME NEW f \in Fourcc, NEW k \in Component, NEW odd \in 0 .. 1
  PROVE  /\ Side(f, k, odd) \in 0 .. 3
         /\ f \notin {"YUY2", "UYVY"} => Side(f, k, odd) \in 0 .. 1
  BY DEF Side, Fourcc, Component

-----------------------------------------------------------------------------
(* The client's samples                                                    *)

LEMMA ClientPacked ==
  ASSUME NEW f \in {"YUY2", "UYVY"}, NEW k \in Component,
         NEW a \in Nat, NEW b \in Nat, NEW w, NEW h, w = 2 * a, h = 2 * b,
         NEW r \in 0 .. h - 1, NEW c \in 0 .. w - 1
  PROVE  ClientSample(f, PlainAttrs(f, w, h), k, r, c) = Place(f, k, a, b, r, c)
<1> DEFINE A == PlainAttrs(f, w, h)
           at == IF c % 2 = 0 THEN Lowest(Positions(f, k))
                              ELSE Highest(Positions(f, k))
<1>1. A.offsets[1] = 0 /\ A.pitches[1] = w * 2
  BY DEF PlainAttrs, Layout
<1>2. Format[f].packed
  BY DEF Format, Packed
<1>3. ClientSample(f, A, k, r, c) = 0 + r * (w * 2) + (c \div 2) * 4 + at - 1
  BY <1>1, <1>2 DEF ClientSample, PackedSample
<1>4. c \div 2 \in Nat /\ c % 2 \in 0 .. 1
  BY Halves
<1>5. at = Side(f, k, c % 2) + 1
  <2>1. /\ k = "Y" => Positions(f, k) = IF f = "YUY2" THEN {1, 3} ELSE {2, 4}
        /\ k = "U" => Positions(f, k) = IF f = "YUY2" THEN {2} ELSE {1}
        /\ k = "V" => Positions(f, k) = IF f = "YUY2" THEN {4} ELSE {3}
    BY PositionsOf
  <2>2. CASE k = "Y"
    BY <1>4, <2>1, <2>2, Extremes DEF Side
  <2>3. CASE k = "U"
    BY <2>1, <2>3, Extremes DEF Side
  <2>4. CASE k = "V"
    BY <2>1, <2>4, Extremes DEF Side
  <2> QED
    BY <2>2, <2>3, <2>4 DEF Component
<1>6. Side(f, k, c % 2) \in 0 .. 3
  BY <1>4, SideTypes DEF Fourcc
<1>7. r * (w * 2) = 4 * (r * a) /\ r * a \in Nat
  OBVIOUS
<1> HIDE DEF at
<1>8. ClientSample(f, A, k, r, c) = 4 * (r * a + c \div 2) + Side(f, k, c % 2)
  BY <1>3, <1>4, <1>5, <1>6, <1>7
<1> QED
  BY <1>8 DEF Place, Pair

LEMMA ClientLuma ==
  ASSUME NEW f \in {"YV12", "I420", "NV12"},
         NEW a \in Nat, NEW b \in Nat, NEW w, NEW h, w = 2 * a, h = 2 * b,
         NEW r \in 0 .. h - 1, NEW c \in 0 .. w - 1
  PROVE  ClientSample(f, PlainAttrs(f, w, h), "Y", r, c) = Place(f, "Y", a, b, r, c)
<1> DEFINE A == PlainAttrs(f, w, h)
<1>1. A.offsets[1] = 0 /\ A.pitches[1] = w
  BY DEF PlainAttrs, Layout
<1>2. ~Format[f].packed
  BY DEF Format, Planar
<1>3. ClientSample(f, A, "Y", r, c) = 0 + r * w + c
  BY <1>1, <1>2 DEF ClientSample, PlanarSample
<1>4. r * w \in Nat
  OBVIOUS
<1> QED
  BY <1>3, <1>4 DEF Place

LEMMA ClientPlanar ==
  ASSUME NEW f \in {"YV12", "I420"}, NEW k \in {"U", "V"},
         NEW a \in Nat, NEW b \in Nat, NEW w, NEW h, w = 2 * a, h = 2 * b,
         NEW r \in 0 .. h - 1, NEW c \in 0 .. w - 1
  PROVE  ClientSample(f, PlainAttrs(f, w, h), k, r, c) = Place(f, k, a, b, r, c)
<1> DEFINE A == PlainAttrs(f, w, h)
           i == Lowest(Positions(f, k))
           y == w * h
           q == (w * h) \div 4
<1>1. y = 4 * (a * b) /\ q = a * b /\ w \div 2 = a /\ a * b \in Nat
  BY Areas
<1>2. A.offsets = <<0, y, y + q>> /\ A.pitches = <<w, w \div 2, w \div 2>>
  BY DEF PlainAttrs, Layout
<1>3. i = Side(f, k, 0) + 2 /\ Side(f, k, 0) \in 0 .. 1
  BY PositionsOf, Extremes DEF Side
<1>4. ~Format[f].packed /\ Format[f].planes = 3 /\ Format[f].vert = 2
  BY DEF Format, Planar
<1>5. ClientSample(f, A, k, r, c)
        = A.offsets[i] + (r \div 2) * A.pitches[i] + c \div 2
  BY <1>4 DEF ClientSample, PlanarSample
<1> HIDE DEF i, y, q
<1>6. A.pitches[i] = a /\ A.offsets[i] = 4 * (a * b) + Side(f, k, 0) * (a * b)
  BY <1>1, <1>2, <1>3
<1>7. r \div 2 \in Nat /\ c \div 2 \in Nat /\ (r \div 2) * a \in Nat
  BY Halves
<1>8. ClientSample(f, A, k, r, c)
        = 4 * (a * b) + Side(f, k, 0) * (a * b) + ((r \div 2) * a + c \div 2)
  BY <1>1, <1>3, <1>5, <1>6, <1>7
<1> QED
  BY <1>8 DEF Place, Pair

LEMMA ClientSemiPlanar ==
  ASSUME NEW k \in {"U", "V"},
         NEW a \in Nat, NEW b \in Nat, NEW w, NEW h, w = 2 * a, h = 2 * b,
         NEW r \in 0 .. h - 1, NEW c \in 0 .. w - 1
  PROVE  ClientSample("NV12", PlainAttrs("NV12", w, h), k, r, c)
           = Place("NV12", k, a, b, r, c)
<1> DEFINE A == PlainAttrs("NV12", w, h)
           i == Lowest(Positions("NV12", k))
<1>1. w * h = 4 * (a * b) /\ a * b \in Nat
  BY Areas
<1>2. A.offsets[2] = w * h /\ A.pitches[2] = w
  BY DEF PlainAttrs, Layout
<1>3. i = Side("NV12", k, 0) + 2 /\ Side("NV12", k, 0) \in 0 .. 1
  BY PositionsOf, Extremes DEF Side
<1>4. /\ ~Format["NV12"].packed /\ Format["NV12"].planes = 2
      /\ Format["NV12"].vert = 2
  BY DEF Format, Planar
<1>5. ClientSample("NV12", A, k, r, c)
        = A.offsets[2] + (r \div 2) * A.pitches[2] + 2 * (c \div 2) + (i - 2)
  BY <1>4 DEF ClientSample, PlanarSample
<1>6. r \div 2 \in Nat /\ c \div 2 \in Nat
  BY Halves
<1>7. (r \div 2) * w = 2 * ((r \div 2) * a) /\ (r \div 2) * a \in Nat
  BY <1>6
<1> HIDE DEF i
<1>8. ClientSample("NV12", A, k, r, c)
        = 4 * (a * b) + 2 * ((r \div 2) * a + c \div 2) + Side("NV12", k, 0)
  BY <1>1, <1>2, <1>3, <1>5, <1>6, <1>7
<1> QED
  BY <1>8 DEF Place, Pair

LEMMA ClientPlace ==
  ASSUME NEW f \in Fourcc, NEW k \in Component,
         NEW a \in Nat, NEW b \in Nat, NEW w, NEW h, w = 2 * a, h = 2 * b,
         NEW r \in 0 .. h - 1, NEW c \in 0 .. w - 1
  PROVE  ClientSample(f, PlainAttrs(f, w, h), k, r, c) = Place(f, k, a, b, r, c)
<1>1. CASE f \in {"YUY2", "UYVY"}
  BY <1>1, ClientPacked
<1>2. CASE f \notin {"YUY2", "UYVY"} /\ k = "Y"
  BY <1>2, ClientLuma DEF Fourcc
<1>3. CASE f \notin {"YUY2", "UYVY"} /\ k # "Y" /\ f # "NV12"
  BY <1>3, ClientPlanar DEF Fourcc, Component
<1>4. CASE f = "NV12" /\ k # "Y"
  BY <1>4, ClientSemiPlanar DEF Component
<1> QED
  BY <1>1, <1>2, <1>3, <1>4

-----------------------------------------------------------------------------
(* The places are inside the image and apart                               *)

LEMMA SizeOf ==
  ASSUME NEW f \in Fourcc,
         NEW a \in Nat, NEW b \in Nat, NEW w, NEW h, w = 2 * a, h = 2 * b
  PROVE  PlainAttrs(f, w, h).size =
           IF f \in {"YUY2", "UYVY"} THEN 8 * (a * b) ELSE 6 * (a * b)
<1>1. w * h = 4 * (a * b) /\ (w * h) \div 4 = a * b /\ (w * h) \div 2 = 2 * (a * b) /\ a * b \in Nat
  BY Areas
<1>2. CASE f \in {"YUY2", "UYVY"}
  <2>1. PlainAttrs(f, w, h).size = 2 * (w * h)
    BY <1>2 DEF PlainAttrs, Layout
  <2> QED
    BY <1>1, <1>2, <2>1
<1>3. CASE f \in {"YV12", "I420"}
  <2>1. PlainAttrs(f, w, h).size = w * h + 2 * ((w * h) \div 4)
    BY <1>3 DEF PlainAttrs, Layout
  <2> QED
    BY <1>1, <1>3, <2>1
<1>4. CASE f = "NV12"
  <2>1. PlainAttrs(f, w, h).size = w * h + (w * h) \div 2
    BY <1>4 DEF PlainAttrs, Layout
  <2> QED
    BY <1>1, <1>4, <2>1
<1> QED
  BY <1>2, <1>3, <1>4 DEF Fourcc

\* The pairs of a pixel: of its own row in a packed format, of two rows for the
\* chroma of the others.
LEMMA PairsInside ==
  ASSUME NEW a \in Nat, NEW b \in Nat, NEW r \in 0 .. 2 * b - 1, NEW c \in 0 .. 2 * a - 1
  PROVE  /\ Pair(a, r, c) \in Nat /\ Pair(a, r, c) < 2 * (a * b)
         /\ Pair(a, r \div 2, c) \in Nat /\ Pair(a, r \div 2, c) < a * b
         /\ r * (2 * a) + c \in Nat /\ r * (2 * a) + c < 4 * (a * b)
<1>1. Pair(a, r, c) \in Nat /\ Pair(a, r, c) < a * (2 * b)
  <2>1. 2 * b \in Nat
    OBVIOUS
  <2> QED
    BY <2>1, PairInside
<1>2. r \div 2 \in 0 .. b - 1
  BY Halves
<1>3. Pair(a, r \div 2, c) \in Nat /\ Pair(a, r \div 2, c) < a * b
  BY <1>2, PairInside
<1>4. r * (2 * a) + c \in Nat /\ r * (2 * a) + c < (2 * b) * (2 * a)
  BY InsideRows
<1>5. a * (2 * b) = 2 * (a * b) /\ (2 * b) * (2 * a) = 4 * (a * b)
  OBVIOUS
<1> QED
  BY <1>1, <1>3, <1>4, <1>5

LEMMA PlaceInside ==
  ASSUME NEW f \in Fourcc, NEW k \in Component,
         NEW a \in Nat, NEW b \in Nat, NEW w, NEW h, w = 2 * a, h = 2 * b,
         NEW r \in 0 .. h - 1, NEW c \in 0 .. w - 1
  PROVE  /\ Place(f, k, a, b, r, c) \in Nat /\ PlainAttrs(f, w, h).size \in Nat
         /\ Place(f, k, a, b, r, c) < PlainAttrs(f, w, h).size
<1> DEFINE n == a * b
<1>1. n \in Nat
  OBVIOUS
<1>2. /\ Pair(a, r, c) \in Nat /\ Pair(a, r, c) < 2 * n
      /\ Pair(a, r \div 2, c) \in Nat /\ Pair(a, r \div 2, c) < n
      /\ r * (2 * a) + c \in Nat /\ r * (2 * a) + c < 4 * n
  BY PairsInside
<1>3. PlainAttrs(f, w, h).size = IF f \in {"YUY2", "UYVY"} THEN 8 * n ELSE 6 * n
  BY SizeOf
<1>4. CASE f \in {"YUY2", "UYVY"}
  <2>1. c % 2 \in 0 .. 1
    BY Halves
  <2>2. Side(f, k, c % 2) \in 0 .. 3
    BY <2>1, SideTypes
  <2>3. Place(f, k, a, b, r, c) = 4 * Pair(a, r, c) + Side(f, k, c % 2)
    BY <1>4 DEF Place
  <2> HIDE DEF n
  <2> QED
    BY <1>1, <1>2, <1>3, <1>4, <2>2, <2>3
<1>5. CASE f \notin {"YUY2", "UYVY"} /\ k = "Y"
  <2>1. Place(f, k, a, b, r, c) = r * (2 * a) + c
    BY <1>5 DEF Place
  <2> HIDE DEF n
  <2> QED
    BY <1>1, <1>2, <1>3, <1>5, <2>1
<1>6. CASE f \notin {"YUY2", "UYVY"} /\ k # "Y"
  <2>1. Side(f, k, 0) \in 0 .. 1
    BY <1>6, SideTypes
  <2>2. Place(f, k, a, b, r, c) =
          IF f = "NV12" THEN 4 * n + 2 * Pair(a, r \div 2, c) + Side(f, k, 0)
                        ELSE 4 * n + Side(f, k, 0) * n + Pair(a, r \div 2, c)
    BY <1>6 DEF Place
  <2>3. Side(f, k, 0) * n \in {0, n}
    BY <1>1, <2>1
  <2> HIDE DEF n
  <2> QED
    BY <1>1, <1>2, <1>3, <1>6, <2>1, <2>2, <2>3
<1> QED
  BY <1>4, <1>5, <1>6

\* Two samples have one place only if they are the same by the subsampling.
LEMMA PackedApart ==
  ASSUME NEW f \in {"YUY2", "UYVY"}, NEW k \in Component, NEW l \in Component,
         NEW a \in Nat, NEW b \in Nat,
         NEW r \in 0 .. 2 * b - 1, NEW c \in 0 .. 2 * a - 1,
         NEW s \in 0 .. 2 * b - 1, NEW d \in 0 .. 2 * a - 1,
         Place(f, k, a, b, r, c) = Place(f, l, a, b, s, d)
  PROVE  k = l /\ Same(f, k, <<r, c>>, <<s, d>>)
<1>1. /\ c % 2 \in 0 .. 1 /\ c = 2 * (c \div 2) + (c % 2)
      /\ d % 2 \in 0 .. 1 /\ d = 2 * (d \div 2) + (d % 2)
  BY Halves
<1>2. Side(f, k, c % 2) \in 0 .. 3 /\ Side(f, l, d % 2) \in 0 .. 3
  BY <1>1, SideTypes DEF Fourcc
<1>3. Pair(a, r, c) \in Nat /\ Pair(a, s, d) \in Nat
  BY PairsInside
<1>4. 4 * Pair(a, r, c) + Side(f, k, c % 2) = 4 * Pair(a, s, d) + Side(f, l, d % 2)
  BY DEF Place
<1>5. Pair(a, r, c) = Pair(a, s, d) /\ Side(f, k, c % 2) = Side(f, l, d % 2)
  BY <1>2, <1>3, <1>4
<1>6. r = s /\ c \div 2 = d \div 2
  BY <1>5, PairIsOne
<1>7. k = l /\ (k = "Y" => c % 2 = d % 2)
  BY <1>1, <1>5 DEF Side, Component
<1>8. Format[f].vert = 1 /\ r \div 1 = s \div 1
  BY <1>6 DEF Format, Packed
<1> QED
  BY <1>1, <1>6, <1>7, <1>8 DEF Same

LEMMA PlanarApart ==
  ASSUME NEW f \in {"YV12", "I420", "NV12"},
         NEW k \in Component, NEW l \in Component,
         NEW a \in Nat, NEW b \in Nat,
         NEW r \in 0 .. 2 * b - 1, NEW c \in 0 .. 2 * a - 1,
         NEW s \in 0 .. 2 * b - 1, NEW d \in 0 .. 2 * a - 1,
         Place(f, k, a, b, r, c) = Place(f, l, a, b, s, d)
  PROVE  k = l /\ Same(f, k, <<r, c>>, <<s, d>>)
<1> DEFINE n == a * b
           p == Pair(a, r \div 2, c)
           q == Pair(a, s \div 2, d)
           x == r * (2 * a) + c
           y == s * (2 * a) + d
           i == Side(f, k, 0)
           j == Side(f, l, 0)
<1>1. /\ n \in Nat /\ p \in Nat /\ q \in Nat /\ x \in Nat /\ y \in Nat
      /\ p < n /\ q < n /\ x < 4 * n /\ y < 4 * n
  <2>1. n \in Nat
    OBVIOUS
  <2>2. p \in Nat /\ x \in Nat /\ p < n /\ x < 4 * n
    BY PairsInside
  <2>3. q \in Nat /\ y \in Nat /\ q < n /\ y < 4 * n
    BY PairsInside
  <2> QED
    BY <2>1, <2>2, <2>3
<1>2. i \in 0 .. 1 /\ j \in 0 .. 1
  BY SideTypes DEF Fourcc
<1>3. i * n = (IF i = 0 THEN 0 ELSE n) /\ j * n = (IF j = 0 THEN 0 ELSE n)
  BY <1>1, <1>2
<1>4. /\ Place(f, k, a, b, r, c) = IF k = "Y" THEN x ELSE IF f = "NV12" THEN 4 * n + 2 * p + i
                                                     ELSE 4 * n + i * n + p
      /\ Place(f, l, a, b, s, d) = IF l = "Y" THEN y ELSE IF f = "NV12" THEN 4 * n + 2 * q + j
                                                     ELSE 4 * n + j * n + q
  BY DEF Place
<1> DEFINE m == i * n
           o == j * n
<1>5. k = "Y" <=> l = "Y"
  <2> DEFINE P == Place(f, k, a, b, r, c)
             Q == Place(f, l, a, b, s, d)
  <2>1. /\ k = "Y" => P = x
        /\ k # "Y" => P = 4 * n + 2 * p + i \/ P = 4 * n + m + p
        /\ l = "Y" => Q = y
        /\ l # "Y" => Q = 4 * n + 2 * q + j \/ Q = 4 * n + o + q
    BY <1>4
  <2>2. m \in Nat /\ o \in Nat /\ P = Q
    BY <1>1, <1>3
  <2> HIDE DEF n, p, q, x, y, i, j, m, o, P, Q
  <2>3. k # "Y" => P >= 4 * n
    BY <1>1, <1>2, <2>1, <2>2
  <2>4. l # "Y" => Q >= 4 * n
    BY <1>1, <1>2, <2>1, <2>2
  <2>5. (k = "Y" => P < 4 * n) /\ (l = "Y" => Q < 4 * n)
    BY <1>1, <2>1
  <2> QED
    BY <1>1, <2>1, <2>2, <2>3, <2>4, <2>5
<1>6. k = "Y" => x = y
  BY <1>4, <1>5
<1>7. k # "Y" => p = q /\ i = j
  <2> SUFFICES ASSUME k # "Y"
               PROVE  p = q /\ i = j
    OBVIOUS
  <2>1. CASE f = "NV12"
    <3>1. 4 * n + 2 * p + i = 4 * n + 2 * q + j
      BY <1>4, <1>5, <2>1
    <3> HIDE DEF n, p, q, i, j
    <3> QED
      BY <1>1, <1>2, <3>1
  <2>2. CASE f # "NV12"
    <3>1. 4 * n + m + p = 4 * n + o + q
      BY <1>4, <1>5, <2>2
    <3>2. m = (IF i = 0 THEN 0 ELSE n) /\ o = (IF j = 0 THEN 0 ELSE n)
      BY <1>3
    <3> HIDE DEF n, p, q, i, j, m, o
    <3> QED
      BY <1>1, <1>2, <3>1, <3>2
  <2> QED
    BY <2>1, <2>2
<1>8. CASE k = "Y"
  <2>1. r = s /\ c = d
    BY <1>6, <1>8, OnePlace
  <2> QED
    BY <1>5, <1>8, <2>1 DEF Same
<1>9. CASE k # "Y"
  <2>1. r \div 2 \in Nat /\ s \div 2 \in Nat
    BY Halves
  <2>2. r \div 2 = s \div 2 /\ c \div 2 = d \div 2
    BY <1>7, <1>9, <2>1, PairIsOne
  <2>3. k = l
    BY <1>5, <1>7, <1>9 DEF Side, Component
  <2>4. Format[f].vert = 2
    BY DEF Format, Planar
  <2> QED
    BY <1>9, <2>2, <2>3, <2>4 DEF Same
<1> QED
  BY <1>8, <1>9

-----------------------------------------------------------------------------
(* The converters                                                          *)

\* Where pixel <<r, c>> goes and the bytes it is made of, whichever pass of the
\* loop makes it, in a picture whose size fits.
Made(f, w, h, r, c) ==
    LET uv == (r \div 2) * (w \div 2) + c \div 2
        first == w * h
        second == first + (w \div 2) * (h \div 2)
        to == 4 * (r * w) + 4 * c
        pair == 2 * (r * w) + 4 * (c \div 2)
        chroma == w * h + (r \div 2) * w + 2 * (c \div 2)
    IN  IF f \in {"YUY2", "UYVY"} THEN Written(to, pair + 2 * (c % 2), pair + 1, pair + 3)
        ELSE IF f = "NV12" THEN Written(to, r * w + c, chroma, chroma + 1)
        ELSE Written(to, r * w + c, (IF f = "I420" THEN first ELSE second) + uv,
                                    (IF f = "I420" THEN second ELSE first) + uv)

\* The switch of render_frame has one converter for both packed formats.
Converter(f) == IF f = "UYVY" THEN "YUY2" ELSE f

ComponentOf(pixel, k) == pixel[k]

\* The converter reads where the client that follows the layout wrote; for UYVY
\* where a client of YUY2 would have.
LEMMA MadePlace ==
  ASSUME NEW f \in Fourcc, NEW k \in Component,
         NEW a \in Nat, NEW b \in Nat, NEW w, NEW h, w = 2 * a, h = 2 * b,
         NEW r \in 0 .. h - 1, NEW c \in 0 .. w - 1
  PROVE  ComponentOf(Made(f, w, h, r, c), k) = Place(Converter(f), k, a, b, r, c)
<1> SUFFICES Made(f, w, h, r, c)[k] = Place(Converter(f), k, a, b, r, c)
  BY DEF ComponentOf
<1>1. /\ w * h = 4 * (a * b) /\ a * b \in Nat /\ w \div 2 = a /\ h \div 2 = b
      /\ (w \div 2) * (h \div 2) = a * b
  BY Areas
<1>2. c \div 2 \in Nat /\ c % 2 \in 0 .. 1 /\ c = 2 * (c \div 2) + (c % 2) /\ r \div 2 \in Nat
  BY Halves
<1>3. r * a \in Nat /\ (r \div 2) * a \in Nat
  BY <1>2
<1>4. CASE f \in {"YUY2", "UYVY"}
  <2> DEFINE p == 2 * (r * w) + 4 * (c \div 2)
  <2>1. p = 4 * Pair(a, r, c) /\ p \in Nat
    <3>1. 2 * (r * w) = 4 * (r * a)
      OBVIOUS
    <3> QED
      BY <1>2, <1>3, <3>1 DEF Pair
  <2>2. Made(f, w, h, r, c)
          = Written(4 * (r * w) + 4 * c, p + 2 * (c % 2), p + 1, p + 3)
    BY <1>4 DEF Made
  <2> HIDE DEF p
  <2>4. Made(f, w, h, r, c)[k] = p + Side("YUY2", k, c % 2)
    BY <2>1, <2>2 DEF Written, Side, Component
  <2> QED
    BY <1>4, <2>1, <2>4 DEF Place, Converter
<1>5. CASE f \in {"YV12", "I420"}
  <2> DEFINE uv == (r \div 2) * (w \div 2) + c \div 2
             first == w * h
             second == first + (w \div 2) * (h \div 2)
  <2>1. Made(f, w, h, r, c) = Written(4 * (r * w) + 4 * c, r * w + c,
              (IF f = "I420" THEN first ELSE second) + uv,
              (IF f = "I420" THEN second ELSE first) + uv)
    BY <1>5 DEF Made
  <2>2. /\ uv = Pair(a, r \div 2, c) /\ uv \in Nat
        /\ first = 4 * (a * b) /\ second = 4 * (a * b) + a * b
    BY <1>1, <1>2, <1>3 DEF Pair
  <2> HIDE DEF uv, first, second
  <2>3. CASE k = "Y"
    BY <1>5, <2>1, <2>3 DEF Converter, Written, Place
  <2>4. CASE k # "Y"
    <3>1. Made(f, w, h, r, c)[k] = (IF (f = "I420") = (k = "U") THEN first ELSE second) + uv
      BY <1>5, <2>1, <2>4 DEF Written, Component
    <3>2. Converter(f) = f /\ Place(f, k, a, b, r, c) = 4 * (a * b) + Side(f, k, 0) * (a * b) + uv
      BY <1>5, <2>2, <2>4 DEF Converter, Place
    <3>3. Side(f, k, 0) = IF (f = "I420") = (k = "U") THEN 0 ELSE 1
      BY <1>5, <2>4 DEF Side, Component
    <3> QED
      BY <1>1, <1>5, <2>2, <3>1, <3>2, <3>3
  <2> QED
    BY <2>3, <2>4
<1>6. CASE f = "NV12"
  <2> DEFINE uv == w * h + (r \div 2) * w + 2 * (c \div 2)
  <2>1. Made(f, w, h, r, c) = Written(4 * (r * w) + 4 * c, r * w + c, uv, uv + 1)
    BY <1>6 DEF Made
  <2>2. uv = 4 * (a * b) + 2 * Pair(a, r \div 2, c) /\ uv \in Nat
    <3>1. (r \div 2) * w = 2 * ((r \div 2) * a)
      BY <1>2
    <3> QED
      BY <1>1, <1>2, <1>3, <3>1 DEF Pair
  <2> HIDE DEF uv
  <2>3. CASE k = "Y"
    BY <1>6, <2>1, <2>3 DEF Converter, Written, Place
  <2>4. CASE k # "Y"
    BY <1>6, <2>1, <2>2, <2>4 DEF Converter, Written, Place, Side, Component
  <2> QED
    BY <2>3, <2>4
<1> QED
  BY <1>4, <1>5, <1>6 DEF Fourcc

LEMMA MadeTo ==
  ASSUME NEW f, NEW w, NEW h, NEW r, NEW c
  PROVE  Made(f, w, h, r, c).to = 4 * (r * w) + 4 * c
  BY DEF Made, Written

InPairs(f) == f \in {"YUY2", "UYVY"}

\* A pass makes the pixel it is at or, in a packed format, a whole pair.
LEMMA PassMade ==
  ASSUME NEW f \in Fourcc,
         NEW a \in Nat, NEW b \in Nat, NEW w, NEW h, w = 2 * a, h = 2 * b, Fits(w, h),
         NEW r \in 0 .. h - 1, NEW c \in 0 .. w - 1, InPairs(f) => c % 2 = 0
  PROVE  /\ ~InPairs(f) => Pass(f, w, h, r, c) = << Made(f, w, h, r, c) >>
         /\ InPairs(f) => /\ Pass(f, w, h, r, c)
                              = << Made(f, w, h, r, c), Made(f, w, h, r, c + 1) >>
                         /\ c + 1 \in 0 .. w - 1 /\ (c + 2) % 2 = 0
<1>1. /\ w * h \in Nat /\ r * w + c \in Nat /\ r * w \in Nat
      /\ Signed(w * h) = w * h /\ Signed(r * w + c) = r * w + c
      /\ Signed(2 * (r * w)) = 2 * (r * w) /\ Signed(4 * (r * w)) = 4 * (r * w)
  <2>1. w \in Nat /\ h \in Nat /\ w * h \in Nat /\ h * w = w * h
    BY Areas
  <2>2. r * w + c \in Nat /\ r * w + c < h * w /\ r * w \in Nat /\ c \in Nat
    BY <2>1, InsideRows
  <2> DEFINE n == w * h
             p == r * w
             k == IntMod \div 2
  <2>3. 4 * n <= k /\ k \in Nat \ {0} /\ n \in Nat /\ p \in Nat /\ p + c < n
    BY <2>1, <2>2, HalfRange DEF Fits
  <2>4. \A m \in Nat : m < k => Signed(m) = m
    BY NoWrap
  <2> HIDE DEF n, p, k
  <2>5. /\ n < k /\ p + c < k /\ 2 * p < k /\ 4 * p < k
        /\ n \in Nat /\ p + c \in Nat /\ 2 * p \in Nat /\ 4 * p \in Nat
    BY <2>2, <2>3
  <2>6. Signed(n) = n /\ Signed(p + c) = p + c /\ Signed(2 * p) = 2 * p
        /\ Signed(4 * p) = 4 * p
    BY <2>4, <2>5
  <2> QED
    BY <2>1, <2>2, <2>6 DEF n, p
<1>2. To(w, r, c) = 4 * (r * w) + 4 * c
  BY <1>1 DEF To
<1>3. CASE f \in {"YV12", "I420"}
  BY <1>1, <1>2, <1>3 DEF InPairs, Made, Pass, Yv12
<1>4. CASE f = "NV12"
  BY <1>1, <1>2, <1>4 DEF InPairs, Made, Pass, Nv12
<1>5. CASE InPairs(f)
  <2>1. c \div 2 \in 0 .. a - 1 /\ c = 2 * (c \div 2) /\ c % 2 = 0
    BY <1>5, Halves
  <2>2. \A q \in 0 .. a - 1 : c = 2 * q =>
          /\ c + 1 \in 0 .. w - 1 /\ (c + 1) \div 2 = q /\ (c + 1) % 2 = 1 /\ (c + 2) % 2 = 0
    OBVIOUS
  <2>3. c + 1 \in 0 .. w - 1 /\ (c + 1) \div 2 = c \div 2 /\ (c + 1) % 2 = 1 /\ (c + 2) % 2 = 0
    BY <2>1, <2>2
  <2> DEFINE p == 2 * (r * w) + 2 * c
             to == 4 * (r * w) + 4 * c
  <2>4. Pass(f, w, h, r, c) = << Written(to, p, p + 1, p + 3),
                                 Written(to + 4, p + 2, p + 1, p + 3) >>
    BY <1>1, <1>2, <1>5 DEF InPairs, Pass, Yuy2
  <2>5. /\ p = 2 * (r * w) + 4 * (c \div 2) /\ p \in Nat
        /\ 4 * (r * w) + 4 * (c + 1) = to + 4
    BY <1>1, <2>1
  <2>6. Made(f, w, h, r, c) = Written(to, p + 2 * 0, p + 1, p + 3)
    <3> HIDE DEF p
    <3> QED
      BY <1>5, <2>1, <2>5 DEF InPairs, Made
  <2>7. Made(f, w, h, r, c + 1) = Written(to + 4, p + 2 * 1, p + 1, p + 3)
    <3> HIDE DEF p, to
    <3> QED
      BY <1>5, <2>3, <2>5 DEF InPairs, Made
  <2> HIDE DEF p, to
  <2>8. p + 2 * 0 = p /\ p + 2 * 1 = p + 2
    BY <2>5
  <2> QED
    BY <1>5, <2>3, <2>4, <2>6, <2>7, <2>8
<1> QED
  BY <1>3, <1>4, <1>5 DEF Fourcc, InPairs

Pixels == [to : Int, Y : Int, U : Int, V : Int]

\* A pass of any picture makes a pixel or two.
LEMMA PassPixels ==
  ASSUME NEW f \in Fourcc, NEW w \in Nat, NEW h \in Nat, NEW r \in Nat, NEW c \in Nat
  PROVE  Pass(f, w, h, r, c) \in Seq(Pixels) /\ Len(Pass(f, w, h, r, c)) \in 1 .. 2
<1>1. /\ Signed(w * h) \in Int /\ Signed(r * w + c) \in Int /\ Signed(2 * (r * w)) \in Int
      /\ Signed(4 * (r * w)) \in Int
  <2>1. w * h \in Int /\ r * w + c \in Int /\ 2 * (r * w) \in Int /\ 4 * (r * w) \in Int
    OBVIOUS
  <2> QED
    BY <2>1, SignedRange
<1>2. \A to, y, u, v \in Int : Written(to, y, u, v) \in Pixels
  BY DEF Written, Pixels
<1>3. \A p, q \in Pixels : /\ << p >> \in Seq(Pixels) /\ Len(<< p >>) = 1
                           /\ << p, q >> \in Seq(Pixels) /\ Len(<< p, q >>) = 2
  OBVIOUS
<1>4. To(w, r, c) \in Int /\ To(w, r, c) + 4 \in Int
  BY <1>1 DEF To
<1>5. CASE f \in {"YUY2", "UYVY"}
  <2> DEFINE p == Signed(2 * (r * w)) + 2 * c
  <2>1. p \in Int /\ p + 1 \in Int /\ p + 2 \in Int /\ p + 3 \in Int
    BY <1>1
  <2>2. Pass(f, w, h, r, c) = << Written(To(w, r, c), p, p + 1, p + 3),
                                 Written(To(w, r, c) + 4, p + 2, p + 1, p + 3) >>
    BY <1>5 DEF Pass, Yuy2
  <2> HIDE DEF p
  <2>3. /\ Written(To(w, r, c), p, p + 1, p + 3) \in Pixels
        /\ Written(To(w, r, c) + 4, p + 2, p + 1, p + 3) \in Pixels
    BY <1>2, <1>4, <2>1
  <2> QED
    BY <1>3, <2>2, <2>3
<1>6. CASE f \in {"YV12", "I420"}
  <2> DEFINE uv == (r \div 2) * (w \div 2) + c \div 2
             first == Signed(w * h)
             second == first + (w \div 2) * (h \div 2)
             u == (IF f = "I420" THEN first ELSE second) + uv
             v == (IF f = "I420" THEN second ELSE first) + uv
  <2>1. r \div 2 \in Nat /\ w \div 2 \in Nat /\ h \div 2 \in Nat /\ c \div 2 \in Nat
    OBVIOUS
  <2>2. uv \in Int /\ first \in Int /\ second \in Int
    BY <1>1, <2>1
  <2>3. Pass(f, w, h, r, c) = << Written(To(w, r, c), Signed(r * w + c), u, v) >>
    BY <1>6 DEF Pass, Yv12
  <2> HIDE DEF uv, first, second
  <2>4. u \in Int /\ v \in Int
    BY <2>2
  <2> HIDE DEF u, v
  <2>5. Written(To(w, r, c), Signed(r * w + c), u, v) \in Pixels
    BY <1>1, <1>2, <1>4, <2>4
  <2> QED
    BY <1>3, <2>3, <2>5
<1>7. CASE f = "NV12"
  <2> DEFINE uv == Signed(w * h) + (r \div 2) * w + 2 * (c \div 2)
  <2>1. uv \in Int /\ uv + 1 \in Int
    <3>1. r \div 2 \in Nat /\ c \div 2 \in Nat
      OBVIOUS
    <3>2. (r \div 2) * w \in Int
      BY <3>1
    <3> QED
      BY <1>1, <3>1, <3>2
  <2>2. Pass(f, w, h, r, c) = << Written(To(w, r, c), Signed(r * w + c), uv, uv + 1) >>
    BY <1>7 DEF Pass, Nv12
  <2> HIDE DEF uv
  <2>3. Written(To(w, r, c), Signed(r * w + c), uv, uv + 1) \in Pixels
    BY <1>1, <1>2, <1>4, <2>1
  <2> QED
    BY <1>3, <2>2, <2>3
<1> QED
  BY <1>5, <1>6, <1>7 DEF Fourcc

-----------------------------------------------------------------------------
(* The invariant of an image's life                                        *)

W == req.width
H == req.height

EvenSize(n) == n \in Dim /\ \E a \in Nat : n = 2 * a
\* A reply's layout is that of even sizes the server rounded up.
Sized == phase # "idle" =>
    /\ EvenSize(reply.width) /\ EvenSize(reply.height)
    /\ reply.width # 0 /\ reply.height # 0
         => reply.attrs = Attrs(cc, reply.width, reply.height)
Nothing == phase \in {"idle", "laid_out"} =>
    req = NoReq /\ copied = 0 /\ pos = <<0, 0>> /\ out = <<>>
\* The copy, if there is one, is as long as the layout of the put.
Copied == phase \in {"rendering", "drawn"} => copied \in {0, Attrs(cc, W, H).size}
\* The loop counters are inside the picture.
Scanning == phase = "rendering" =>
    W # 0 /\ H # 0 /\ pos \in (0 .. H - 1) \X (0 .. W - 1)
\* Of an even size that fits, the counters are where the output ends, and every
\* pixel before is made of the bytes of its own place.
Fine == phase \in {"rendering", "drawn"} /\ EvenSize(W) /\ EvenSize(H) /\ Fits(W, H)
Looping == Fine =>
    /\ phase = "rendering" => /\ InPairs(cc) => Col % 2 = 0
                              /\ Len(out) = Row * W + Col
    /\ phase = "drawn" => Len(out) = H * W
Converted == Fine => \A i \in 1 .. Len(out) :
    out[i] = Made(cc, W, H, (i - 1) \div W, (i - 1) % W)
ImageInv == /\ ImageTypeOK /\ out \in Seq(Pixels)
            /\ Sized /\ Nothing /\ Copied /\ Scanning /\ Looping /\ Converted

LEMMA DimRange ==
  /\ DimMod \in Nat \ {0} /\ Dim = 0 .. DimMod - 1 /\ 0 \in Dim
  /\ \E d \in Nat : DimMod = 2 * d
<1>1. \A n \in Nat : n % 2 = 0 => \E d \in Nat : n = 2 * d
  <2> SUFFICES ASSUME NEW n \in Nat, n % 2 = 0
               PROVE  \E d \in Nat : n = 2 * d
    OBVIOUS
  <2>1. n \div 2 \in Nat /\ n = 2 * (n \div 2)
    OBVIOUS
  <2> QED
    BY <2>1
<1> QED
  BY <1>1, ImagesAssumption DEF Dim

LEMMA HalfAtMost ==
  ASSUME NEW m \in Nat, NEW d \in Nat, m <= 2 * d
  PROVE  m \div 2 \in Nat /\ m \div 2 <= d
<1>1. m \div 2 \in Nat /\ m % 2 \in 0 .. 1 /\ m = 2 * (m \div 2) + (m % 2)
  BY Division
<1>2. \A q \in Nat, p \in 0 .. 1 : m = 2 * q + p => q <= d
  OBVIOUS
<1> QED
  BY <1>1, <1>2

\* A reply's size is even, and the size that was rounded up, or 0.
LEMMA EvenUp ==
  ASSUME NEW n \in Dim
  PROVE  /\ Even(n) \in Nat /\ EvenSize(Even(n) % DimMod)
         /\ Even(n) % DimMod # 0 => Even(n) % DimMod = Even(n)
<1> DEFINE a == (n + 1) \div 2
<1>1. PICK d \in Nat : DimMod = 2 * d
  BY DimRange
<1>2. n \in Nat /\ n < 2 * d /\ d # 0
  <2>1. Dim = 0 .. DimMod - 1 /\ DimMod \in Nat /\ DimMod # 0
    BY DimRange
  <2>2. n \in 0 .. DimMod - 1
    BY <2>1, Zenon
  <2> QED
    BY ONLY <1>1, <2>1, <2>2, d \in Nat
<1>3. a \in Nat /\ a <= d
  <2>1. n + 1 \in Nat /\ n + 1 <= 2 * d
    BY <1>2
  <2> QED
    BY ONLY <2>1, d \in Nat, HalfAtMost
<1>4. Even(n) = 2 * a
  <2>1. Even(n) = a * 2
    BY Zenon DEF Even
  <2> HIDE DEF a
  <2> QED
    BY ONLY <1>3, <2>1
<1> HIDE DEF a
<1>5. CASE a = d
  <2>1. 2 * a = DimMod * 1 /\ DimMod \in Nat \ {0}
    <3>1. DimMod \in Nat \ {0}
      BY DimRange
    <3> QED
      BY ONLY <1>1, <1>3, <1>5, <3>1, d \in Nat
  <2>2. (2 * a) % DimMod = 0
    <3> DEFINE q == (2 * a) \div DimMod
               e == (2 * a) % DimMod
    <3>0. 2 * a \in Nat
      BY ONLY <1>3
    <3>1. q \in Nat /\ e \in 0 .. DimMod - 1 /\ 2 * a = DimMod * q + e
      BY ONLY <2>1, <3>0, Division
    <3> HIDE DEF q, e
    <3>2. q * DimMod + e = 1 * DimMod + 0
      BY <2>1, <3>1
    <3>3. DimMod \in Nat /\ 1 \in Nat /\ 0 \in 0 .. DimMod - 1
      BY <2>1
    <3>4. e = 0
      BY ONLY <3>1, <3>2, <3>3, OnePlace
    <3> QED
      BY <3>4 DEF e
  <2>3. EvenSize(0)
    BY DimRange DEF EvenSize
  <2> QED
    BY <1>3, <1>4, <2>2, <2>3
<1>6. CASE a # d
  <2>1. 2 * a \in Nat /\ 2 * a < DimMod /\ DimMod \in Nat \ {0}
    BY <1>1, <1>3, <1>6, DimRange
  <2>2. (2 * a) % DimMod = 2 * a
    BY <2>1, SmallMod
  <2>3. EvenSize(2 * a)
    BY <1>3, <2>1, DimRange DEF EvenSize
  <2> QED
    BY <1>3, <1>4, <2>2, <2>3
<1> QED
  BY <1>5, <1>6

LEMMA ImageStart == ImageInit => ImageInv
  BY DimRange, ImagesAssumption
  DEF ImageInit, ImageInv, ImageTypeOK, Sized, Nothing, Copied, Scanning, Looping, Converted,
      Fine, NoReply, NoReq

LEMMA ImageLayout ==
  ASSUME ImageInv, NEW f \in Fourcc, NEW width \in Dim, NEW height \in Dim,
         h_QueryImageAttributes(f, width, height)
  PROVE  ImageInv'
<1> DEFINE w == Even(width)
           h == Even(height)
<1>1. /\ phase = "idle" /\ phase' = "laid_out" /\ cc' = f /\ UNCHANGED <<req, copied, pos, out>>
      /\ reply'.width = w % DimMod /\ reply'.height = h % DimMod
      /\ reply'.attrs = Attrs(f, w, h)
  BY DEF h_QueryImageAttributes
<1>2. /\ EvenSize(w % DimMod) /\ (w % DimMod # 0 => w % DimMod = w)
      /\ EvenSize(h % DimMod) /\ (h % DimMod # 0 => h % DimMod = h)
  BY EvenUp
<1> HIDE DEF w, h
<1>3. Sized'
  BY <1>1, <1>2 DEF Sized, EvenSize
<1>4. Nothing' /\ out' \in Seq(Pixels)
  BY <1>1 DEF ImageInv, Nothing
<1>5. ImageTypeOK'
  <2>1. reply'.width \in Dim /\ reply'.height \in Dim
    BY <1>1, <1>2 DEF EvenSize
  <2>2. out = <<>>
    BY <1>1 DEF ImageInv, Nothing
  <2> QED
    BY <1>1, <2>1, <2>2 DEF ImageInv, ImageTypeOK, Dim
<1>6. ~Fine' /\ phase' = "laid_out"
  BY <1>1 DEF Fine
<1> QED
  BY <1>3, <1>4, <1>5, <1>6 DEF ImageInv, Copied, Scanning, Looping, Converted

LEMMA ImagePut ==
  ASSUME ImageInv, NEW inline \in BOOLEAN, NEW w \in Dim, NEW h \in Dim,
         NEW bytes \in Amounts, Put(inline, w, h, bytes)
  PROVE  ImageInv'
<1>1. /\ phase = "laid_out" /\ UNCHANGED <<cc, reply, pos, out>>
      /\ copied' \in {0, Attrs(cc, w, h).size}
      /\ req' = [width |-> w, height |-> h, bytes |-> bytes]
      /\ phase' = IF w = 0 \/ h = 0 THEN "drawn" ELSE "rendering"
  BY DEF Put
<1>2. W' = w /\ H' = h /\ pos' = <<0, 0>> /\ out' = <<>> /\ cc' = cc /\ cc \in Fourcc
  BY <1>1 DEF W, H, ImageInv, Nothing, ImageTypeOK
<1>3. w \in Nat /\ h \in Nat
  BY DimRange
<1>4. ImageTypeOK' /\ out' \in Seq(Pixels)
  <2>1. Attrs(cc, w, h).size \in 0 .. IntMod - 1
    BY <1>2, <1>3, SizeRange
  <2>2. copied' \in 0 .. IntMod - 1
    BY <1>1, <2>1, ImagesAssumption
  <2>3. req'.width \in Dim /\ req'.height \in Dim /\ req'.bytes \in Amounts \cup {0}
    BY <1>1
  <2>4. phase' \in {"rendering", "drawn"}
    BY <1>1
  <2>5. pos' \in Dim \X Dim
    BY <1>2, DimRange
  <2> QED
    BY <1>1, <1>2, <2>2, <2>3, <2>4, <2>5 DEF ImageInv, ImageTypeOK, Dim
<1>5. Sized' /\ Nothing' /\ Copied'
  BY <1>1, <1>2 DEF ImageInv, Sized, Nothing, Copied, EvenSize
<1>6. Scanning'
  <2>1. CASE phase' = "rendering"
    <3>1. w # 0 /\ h # 0
      BY <1>1, <2>1
    <3>2. <<0, 0>> \in (0 .. h - 1) \X (0 .. w - 1)
      BY <1>3, <3>1
    <3> QED
      BY <1>2, <3>1, <3>2 DEF Scanning
  <2> QED
    BY <2>1 DEF Scanning
<1>7. Looping'
  <2>1. Len(out') = 0 /\ Row' = 0 /\ Col' = 0 /\ 0 % 2 = 0 /\ 0 * w + 0 = 0
    BY <1>2, <1>3 DEF Row, Col
  <2>2. phase' = "drawn" => h * w = 0
    BY <1>1, <1>3
  <2> QED
    BY <1>2, <2>1, <2>2 DEF Looping
<1>8. Converted'
  BY <1>2 DEF Converted
<1> QED
  BY <1>4, <1>5, <1>6, <1>7, <1>8 DEF ImageInv

LEMMA ImageDrawn ==
  ASSUME ImageInv, Drawn
  PROVE  ImageInv'
<1>1. /\ phase' = "idle" /\ cc' = "none" /\ reply' = NoReply /\ req' = NoReq
      /\ copied' = 0 /\ pos' = <<0, 0>> /\ out' = <<>>
  BY DEF Drawn
<1>2. ImageTypeOK' /\ out' \in Seq(Pixels)
  <2>1. 0 \in Dim /\ 0 \in 0 .. IntMod - 1
    BY DimRange, ImagesAssumption
  <2>2. reply'.width = 0 /\ reply'.height = 0
    BY <1>1 DEF NoReply
  <2>3. req'.width = 0 /\ req'.height = 0 /\ req'.bytes = 0
    BY <1>1 DEF NoReq
  <2>4. pos' \in Dim \X Dim
    BY <1>1, <2>1
  <2> QED
    BY <1>1, <2>1, <2>2, <2>3, <2>4 DEF ImageTypeOK
<1>3. Sized' /\ Nothing' /\ Copied' /\ Scanning'
  BY <1>1 DEF Sized, Nothing, Copied, Scanning
<1>4. Looping' /\ Converted'
  BY <1>1 DEF Looping, Converted, Fine
<1> QED
  BY <1>2, <1>3, <1>4 DEF ImageInv

\* Where a pixel is, from its number.
LEMMA PlaceOf ==
  ASSUME NEW w \in Nat \ {0}, NEW r \in Nat, NEW c \in 0 .. w - 1
  PROVE  (r * w + c) \div w = r /\ (r * w + c) % w = c
<1> DEFINE n == r * w + c
<1>1. n \in Nat
  OBVIOUS
<1> DEFINE q == n \div w
           e == n % w
<1>2. q \in Nat /\ e \in 0 .. w - 1 /\ n = w * q + e
  BY <1>1, Division
<1> HIDE DEF q, e
<1>3. r * w + c = q * w + e
  BY <1>2
<1>4. w \in Nat /\ r \in Nat /\ c \in 0 .. w - 1
  OBVIOUS
<1>5. r = q /\ c = e
  BY ONLY <1>2, <1>3, <1>4, OnePlace
<1> QED
  BY ONLY <1>5 DEF n, q, e

LEMMA ImageConvert ==
  ASSUME ImageInv, Convert
  PROVE  ImageInv'
<1> DEFINE w == W
           h == H
           r == Row
           c == Col
           px == Pass(cc, w, h, r, c)
<1>1. /\ phase = "rendering" /\ UNCHANGED <<cc, reply, req, copied>>
      /\ out' = out \o px
      /\ pos' = IF c + Len(px) < w THEN <<r, c + Len(px)>> ELSE <<r + 1, 0>>
      /\ phase' = IF pos'[1] = h THEN "drawn" ELSE phase
  BY DEF Convert, W, H
<1>2. w \in Dim /\ h \in Dim /\ w # 0 /\ h # 0 /\ cc \in Fourcc /\ out \in Seq(Pixels)
  BY <1>1 DEF ImageInv, ImageTypeOK, Scanning, W, H
<1>3. w \in Nat \ {0} /\ h \in Nat \ {0} /\ w <= DimMod - 1 /\ h <= DimMod - 1
      /\ DimMod \in Nat
  BY <1>2, DimRange
<1>4. r \in 0 .. h - 1 /\ c \in 0 .. w - 1 /\ pos = <<r, c>>
  BY <1>1, <1>3 DEF ImageInv, Scanning, Row, Col
<1>5. W' = w /\ H' = h
  BY <1>1 DEF W, H
<1>6. px \in Seq(Pixels) /\ Len(px) \in 1 .. 2
  BY <1>2, <1>3, <1>4, PassPixels
<1> HIDE DEF w, h, r, c
<1>7. /\ out' \in Seq(Pixels) /\ Len(out') = Len(out) + Len(px)
      /\ \A i \in 1 .. Len(out') :
           out'[i] = IF i <= Len(out) THEN out[i] ELSE px[i - Len(out)]
  <2> HIDE DEF px
  <2>1. /\ out \o px \in Seq(Pixels) /\ Len(out \o px) = Len(out) + Len(px)
        /\ \A i \in 1 .. Len(out) + Len(px) :
             (out \o px)[i] = IF i <= Len(out) THEN out[i] ELSE px[i - Len(out)]
    BY <1>2, <1>6, ConcatProperties
  <2> QED
    BY <1>1, <2>1
<1>8. /\ c + Len(px) < w => /\ pos' = <<r, c + Len(px)>> /\ phase' = "rendering"
                            /\ c + Len(px) \in 0 .. w - 1
      /\ ~(c + Len(px) < w) =>
            /\ pos' = <<r + 1, 0>>
            /\ phase' = IF r + 1 = h THEN "drawn" ELSE "rendering"
  <2> HIDE DEF px
  <2> QED
    BY <1>1, <1>3, <1>4, <1>6
<1>9. ImageTypeOK'
  <2>1. pos' \in Dim \X Dim
    <3>1. Dim = 0 .. DimMod - 1
      BY DimRange
    <3> HIDE DEF px
    <3> QED
      BY <1>3, <1>4, <1>6, <1>8, <3>1
  <2>2. phase' \in {"rendering", "drawn"}
    BY <1>1
  <2> HIDE DEF px
  <2> QED
    BY <1>1, <2>1, <2>2 DEF ImageInv, ImageTypeOK, Dim
<1>10. Sized' /\ Nothing' /\ Copied'
  <2>1. phase' \in {"rendering", "drawn"}
    BY <1>1
  <2> HIDE DEF px
  <2> QED
    BY <1>1, <1>5, <2>1 DEF ImageInv, Sized, Nothing, Copied, EvenSize, w, h
<1>11. Scanning'
  <2> SUFFICES ASSUME phase' = "rendering"
               PROVE  pos' \in (0 .. h - 1) \X (0 .. w - 1)
    BY <1>3, <1>5 DEF Scanning
  <2> HIDE DEF px
  <2>1. CASE c + Len(px) < w
    BY <1>4, <1>8, <2>1
  <2>2. CASE ~(c + Len(px) < w)
    <3>1. pos' = <<r + 1, 0>> /\ r + 1 # h
      BY <1>8, <2>2
    <3>2. r + 1 \in 0 .. h - 1 /\ 0 \in 0 .. w - 1
      BY <1>3, <1>4, <3>1
    <3> QED
      BY <3>1, <3>2
  <2> QED
    BY <2>1, <2>2
<1>12. Looping' /\ Converted'
  <2> SUFFICES ASSUME Fine'
               PROVE  Looping' /\ Converted'
    BY DEF Looping, Converted
  <2>1. Fine
    BY <1>1, <1>5 DEF Fine, EvenSize, w, h
  <2>2. PICK a \in Nat, b \in Nat : w = 2 * a /\ h = 2 * b
    BY <2>1 DEF Fine, EvenSize, w, h
  <2>3. Fits(w, h)
    BY <2>1 DEF Fine, w, h
  <2>4. (InPairs(cc) => c % 2 = 0) /\ Len(out) = r * w + c
    BY <1>1, <2>1 DEF ImageInv, Looping, w, r, c
  <2>5. /\ ~InPairs(cc) => px = << Made(cc, w, h, r, c) >>
        /\ InPairs(cc) => /\ px = << Made(cc, w, h, r, c), Made(cc, w, h, r, c + 1) >>
                          /\ c + 1 \in 0 .. w - 1 /\ (c + 2) % 2 = 0
    <3>1. px = Pass(cc, w, h, r, c)
      OBVIOUS
    <3> HIDE DEF px
    <3>0. cc \in Fourcc /\ r \in 0 .. h - 1 /\ c \in 0 .. w - 1 /\ (InPairs(cc) => c % 2 = 0)
      BY <1>2, <1>4, <2>4
    <3>4. /\ ~InPairs(cc) => Pass(cc, w, h, r, c) = << Made(cc, w, h, r, c) >>
          /\ InPairs(cc) =>
               /\ Pass(cc, w, h, r, c) = << Made(cc, w, h, r, c), Made(cc, w, h, r, c + 1) >>
               /\ c + 1 \in 0 .. w - 1 /\ (c + 2) % 2 = 0
      BY ONLY <2>2, <2>3, <3>0, a \in Nat, b \in Nat, PassMade
    <3>2. CASE ~InPairs(cc)
      BY <3>1, <3>2, <3>4, Zenon
    <3>3. CASE InPairs(cc)
      BY <3>1, <3>3, <3>4, Zenon
    <3> QED
      BY <3>2, <3>3
  <2> HIDE DEF px
  <2>6. /\ c + Len(px) <= w
        /\ InPairs(cc) => (c + Len(px)) % 2 = 0
        /\ \A i \in 1 .. Len(px) : px[i] = Made(cc, w, h, r, c + (i - 1))
    <3>1. CASE ~InPairs(cc)
      <4>1. px = << Made(cc, w, h, r, c) >> /\ c + 0 = c
        BY <1>4, <2>5, <3>1
      <4> QED
        BY <1>3, <1>4, <3>1, <4>1
    <3>2. CASE InPairs(cc)
      <4>1. /\ px = << Made(cc, w, h, r, c), Made(cc, w, h, r, c + 1) >> /\ c + 0 = c
            /\ c + 1 \in 0 .. w - 1 /\ (c + 2) % 2 = 0
        BY <1>4, <2>5, <3>2
      <4> QED
        BY <1>3, <1>4, <3>2, <4>1
    <3> QED
      BY <3>1, <3>2
  <2>7. Looping'
    <3>1. CASE c + Len(px) < w
      <4>1. Row' = r /\ Col' = c + Len(px) /\ phase' = "rendering"
        BY <1>8, <3>1 DEF Row, Col
      <4>2. Len(out') = r * w + (c + Len(px))
        BY <1>3, <1>4, <1>6, <1>7, <2>4
      <4>3. InPairs(cc') => Col' % 2 = 0
        BY <1>1, <2>6, <4>1
      <4> QED
        BY <1>5, <4>1, <4>2, <4>3 DEF Looping
    <3>2. CASE ~(c + Len(px) < w)
      <4>1. Row' = r + 1 /\ Col' = 0 /\ phase' = IF r + 1 = h THEN "drawn" ELSE "rendering"
        BY <1>8, <3>2 DEF Row, Col
      <4>2. Len(out') = (r + 1) * w + 0
        <5>1. r \in Nat /\ w \in Nat /\ r * w \in Nat
          BY <1>3, <1>4
        <5>2. (r + 1) * w = r * w + w
          BY <5>1
        <5>3. c \in Nat /\ Len(px) \in Nat /\ c + Len(px) = w
          BY <1>3, <1>4, <1>6, <2>6, <3>2
        <5>4. r * w + c + Len(px) = r * w + w
          BY ONLY <5>1, <5>3
        <5> QED
          BY <1>7, <2>4, <5>1, <5>2, <5>4
      <4>3. 0 % 2 = 0 /\ (r + 1) * w + 0 = (r + 1) * w
        BY <1>3, <1>4
      <4> QED
        BY <1>5, <4>1, <4>2, <4>3 DEF Looping
    <3> QED
      BY <3>1, <3>2
  <2>8. Converted'
    <3> SUFFICES ASSUME NEW i \in 1 .. Len(out')
                 PROVE  out'[i] = Made(cc, w, h, (i - 1) \div w, (i - 1) % w)
      BY <1>1, <1>5 DEF Converted
    <3>1. CASE i <= Len(out)
      BY <1>2, <1>7, <2>1, <3>1 DEF ImageInv, Converted, w, h
    <3>2. CASE i > Len(out)
      <4> DEFINE j == i - Len(out)
                 d == c + (j - 1)
      <4>1. Len(out) = r * w + c /\ r * w \in Nat /\ c \in Nat /\ r \in Nat
        BY <1>3, <1>4, <2>4
      <4>2. j \in 1 .. Len(px) /\ d \in 0 .. w - 1 /\ i - 1 = r * w + d
        BY <1>3, <1>4, <1>6, <1>7, <2>6, <3>2, <4>1
      <4>3. out'[i] = Made(cc, w, h, r, d)
        <5>1. out'[i] = px[j] /\ j \in 1 .. Len(px)
          BY <1>2, <1>7, <3>2, <4>2
        <5>2. px[j] = Made(cc, w, h, r, c + (j - 1))
          BY <2>6, <5>1
        <5> QED
          BY <5>1, <5>2
      <4> HIDE DEF d
      <4>4. (i - 1) \div w = r /\ (i - 1) % w = d
        BY <1>3, <4>1, <4>2, PlaceOf
      <4> QED
        BY <4>3, <4>4
    <3> QED
      BY <1>2, <1>6, <1>7, <3>1, <3>2
  <2> QED
    BY <2>7, <2>8
<1> QED
  BY <1>7, <1>9, <1>10, <1>11, <1>12 DEF ImageInv

LEMMA ImageStep ==
  ASSUME ImageInv, [ImageNext]_imageVars
  PROVE  ImageInv'
<1>1. CASE UNCHANGED imageVars
  BY <1>1 DEF imageVars, ImageInv, ImageTypeOK, Sized, Nothing, Copied, Scanning, Looping,
              Converted, Fine, EvenSize, Dim, W, H, Row, Col
<1>2. ASSUME NEW f \in Fourcc, NEW width \in Dim, NEW height \in Dim,
             h_QueryImageAttributes(f, width, height)
      PROVE  ImageInv'
  BY <1>2, ImageLayout
<1>3. ASSUME NEW inline \in BOOLEAN, NEW w \in Dim, NEW h \in Dim, NEW bytes \in Amounts,
             Put(inline, w, h, bytes)
      PROVE  ImageInv'
  BY <1>3, ImagePut
<1>4. CASE Convert
  BY <1>4, ImageConvert
<1>5. CASE Drawn
  BY <1>5, ImageDrawn
<1> QED
  BY <1>1, <1>2, <1>3, <1>4, <1>5 DEF ImageNext

LEMMA ImageInvariant == ImageSpec => []ImageInv
  BY ImageStart, ImageStep, PTL DEF ImageSpec

\* A pixel that was converted, in the numbers of the layout.
LEMMA ConvertedPixel ==
  ASSUME ImageInv, Fine, NEW i \in DOMAIN out
  PROVE  \E a, b \in Nat : \E r \in 0 .. H - 1 : \E c \in 0 .. W - 1 :
           /\ W = 2 * a /\ H = 2 * b /\ cc \in Fourcc
           /\ Pixel(i) = <<r, c>> /\ r * W + c = i - 1
           /\ out[i].to = 4 * (r * W) + 4 * c
           /\ \A k \in Component : ComponentOf(out[i], k) = Place(Converter(cc), k, a, b, r, c)
<1>1. phase \in {"rendering", "drawn"} /\ EvenSize(W) /\ EvenSize(H) /\ cc \in Fourcc
      /\ out \in Seq(Pixels)
  BY DEF Fine, ImageInv, ImageTypeOK
<1>2. PICK a \in Nat, b \in Nat : W = 2 * a /\ H = 2 * b
  BY <1>1 DEF EvenSize
<1>3. W \in Nat /\ H \in Nat
  BY <1>2
<1>4. Len(out) <= H * W
  <2>1. CASE phase = "drawn"
    BY <1>3, <2>1 DEF ImageInv, Looping
  <2>2. CASE phase = "rendering"
    <3>1. Row \in 0 .. H - 1 /\ Col \in 0 .. W - 1 /\ Len(out) = Row * W + Col
      BY <1>3, <2>2 DEF ImageInv, Scanning, Looping, Row, Col
    <3>2. Row * W + Col \in Nat /\ Row * W + Col < H * W /\ H * W \in Nat
      BY <1>3, <3>1, InsideRows
    <3> QED
      BY <3>1, <3>2
  <2> QED
    BY <1>1, <2>1, <2>2
<1> DEFINE n == i - 1
           r == n \div W
           c == n % W
<1>5. i \in 1 .. Len(out) /\ n \in Nat /\ n < H * W
  <2>1. i \in 1 .. Len(out)
    BY <1>1
  <2>2. Len(out) \in Nat /\ H * W \in Nat
    BY <1>1, <1>3
  <2> QED
    BY <1>4, <2>1, <2>2
<1>6. W \in Nat \ {0}
  <2>1. W = 0 => H * W = 0
    BY <1>3
  <2> QED
    BY <1>3, <1>5, <2>1
<1>7. r \in Nat /\ c \in 0 .. W - 1 /\ n = W * r + c
  BY <1>5, <1>6, Division
<1>8. out[i] = Made(cc, W, H, r, c)
  BY <1>5 DEF ImageInv, Converted
<1>9. Pixel(i) = <<r, c>>
  BY DEF Pixel, W
<1> HIDE DEF n, r, c
<1>10. r \in 0 .. H - 1
  <2>1. ASSUME H <= r
        PROVE  FALSE
    <3>1. H * W <= r * W /\ r * W \in Nat /\ H * W \in Nat
      BY <1>3, <1>7, <2>1, TimesMonotone
    <3>2. W * r = r * W
      BY <1>3, <1>7
    <3> QED
      BY <1>3, <1>5, <1>7, <3>1, <3>2
  <2> QED
    BY <1>3, <1>7, <2>1
<1>11. \A k \in Component :
         ComponentOf(Made(cc, W, H, r, c), k) = Place(Converter(cc), k, a, b, r, c)
  <2> SUFFICES ASSUME NEW k \in Component
               PROVE  ComponentOf(Made(cc, W, H, r, c), k) = Place(Converter(cc), k, a, b, r, c)
    OBVIOUS
  <2>1. cc \in Fourcc /\ r \in 0 .. H - 1 /\ c \in 0 .. W - 1
    BY <1>1, <1>7, <1>10
  <2> QED
    BY ONLY <1>2, <2>1, k \in Component, a \in Nat, b \in Nat, MadePlace
<1>12. out[i].to = 4 * (r * W) + 4 * c
  BY <1>8, MadeTo
<1>13. r * W + c = i - 1
  BY <1>3, <1>7 DEF n
<1> QED
  BY <1>1, <1>2, <1>7, <1>8, <1>9, <1>10, <1>11, <1>12, <1>13

-----------------------------------------------------------------------------
(* The theorems on images                                                  *)

\* For any width of the integers, sizes and the converters' counters stay in 16
\* bits and what h_PutImage copies in 32, whatever is put
\* (image_attrs, h_PutImage, yv12_to_bgra and its like).
THEOREM ImagesTypeCorrect == ImageSpec => []ImageTypeOK
<1>1. ImageInv => ImageTypeOK
  BY DEF ImageInv
<1> QED
  BY <1>1, ImageInvariant, PTL

\* Whatever size the reply named, if its products fit, each pixel of YV12, I420,
\* YUY2 and NV12 is converted from the bytes a client that follows the advertised
\* layout put its samples in, and goes to its place, and none is left out
\* (yv12_to_bgra, yuy2_to_bgra, nv12_to_bgra).
THEOREM ConvertersFollowTheLayout == ImageSpec => []SamplesAreRight
<1>1. ASSUME ImageInv, FollowsReply, phase \in {"rendering", "drawn"}
      PROVE  Fine /\ W = reply.width /\ H = reply.height
  BY <1>1 DEF ImageInv, Sized, Fine, FollowsReply, W, H
<1>2. ASSUME ImageInv, FollowsReply, phase = "drawn"
      PROVE  Len(out) = req.width * req.height
  <2>1. Len(out) = H * W /\ W \in Nat /\ H \in Nat
    BY <1>1, <1>2, DimRange DEF ImageInv, Looping, Fine, EvenSize
  <2> QED
    BY <2>1 DEF W, H
<1>3. ASSUME ImageInv, FollowsReply, NEW i \in DOMAIN out
      PROVE  /\ out[i].to = 4 * (i - 1)
             /\ cc # "UYVY" => \A k \in Component :
                  out[i][k] = ClientSample(cc, reply.attrs, k, Pixel(i)[1], Pixel(i)[2])
  <2>1. phase \in {"rendering", "drawn"}
    BY <1>3 DEF ImageInv, ImageTypeOK
  <2>2. Fine /\ W = reply.width /\ H = reply.height
    BY <1>1, <1>3, <2>1
  <2>3. PICK a, b \in Nat : \E r \in 0 .. H - 1 : \E c \in 0 .. W - 1 :
           /\ W = 2 * a /\ H = 2 * b /\ cc \in Fourcc
           /\ Pixel(i) = <<r, c>> /\ r * W + c = i - 1
           /\ out[i].to = 4 * (r * W) + 4 * c
           /\ \A m \in Component : ComponentOf(out[i], m) = Place(Converter(cc), m, a, b, r, c)
    BY <1>3, <2>2, ConvertedPixel
  <2>4. PICK r \in 0 .. H - 1, c \in 0 .. W - 1 :
           /\ W = 2 * a /\ H = 2 * b /\ cc \in Fourcc
           /\ Pixel(i) = <<r, c>> /\ r * W + c = i - 1
           /\ out[i].to = 4 * (r * W) + 4 * c
           /\ \A m \in Component : ComponentOf(out[i], m) = Place(Converter(cc), m, a, b, r, c)
    BY <2>3
  <2>5. W \in Nat \ {0} /\ H \in Nat \ {0}
    BY <2>3, <2>4
  <2>6. out[i].to = 4 * (i - 1)
    <3>1. r * W \in Nat /\ c \in Nat
      BY <2>5
    <3>2. 4 * (r * W) + 4 * c = 4 * (r * W + c)
      BY <3>1
    <3> QED
      BY <2>4, <3>2
  <2>7. ASSUME cc # "UYVY", NEW k \in Component
        PROVE  out[i][k] = ClientSample(cc, reply.attrs, k, Pixel(i)[1], Pixel(i)[2])
    <3>1. out[i][k] = Place(cc, k, a, b, r, c)
      BY <2>4, <2>7 DEF Converter, ComponentOf
    <3>2. reply.attrs = Attrs(cc, W, H)
      BY <1>3, <2>1, <2>2, <2>5 DEF ImageInv, Sized
    <3>3. Attrs(cc, W, H) = PlainAttrs(cc, W, H)
      BY <2>2, <2>4, <2>5, FitsAttrs DEF Fine
    <3>4. ClientSample(cc, PlainAttrs(cc, W, H), k, r, c) = Place(cc, k, a, b, r, c)
      BY <2>4, ClientPlace
    <3> QED
      BY <2>4, <3>1, <3>2, <3>3, <3>4
  <2> QED
    BY <2>6, <2>7
<1>4. ImageInv => SamplesAreRight
  BY <1>2, <1>3 DEF SamplesAreRight
<1> QED
  BY <1>4, ImageInvariant, PTL

\* Of a picture of any even size whose products fit, and that comes with as much
\* data as image_attrs says, no converter reads a byte outside the copy or the
\* segment, and none writes outside bgra (h_PutImage, render_frame).
THEOREM ConvertersStayInside == ImageSpec => []ReadsInside
<1>1. ImageInv => ReadsInside
  <2> SUFFICES ASSUME ImageInv, WellFormed, NEW i \in DOMAIN out
               PROVE  /\ \A k \in Component :
                           out[i][k] \in 0 .. (IF copied > 0 THEN copied ELSE req.bytes) - 1
                      /\ out[i].to \in 0 .. 4 * (W * H) - 4
    BY DEF ReadsInside, W, H
  <2>1. W \in Dim /\ H \in Dim /\ W % 2 = 0 /\ H % 2 = 0 /\ Fits(W, H)
        /\ phase \in {"rendering", "drawn"} /\ Attrs(cc, W, H).size <= req.bytes
        /\ cc \in Fourcc
    BY DEF WellFormed, ImageInv, ImageTypeOK, W, H
  <2>2. W \in Nat /\ H \in Nat
    BY <2>1, DimRange
  <2>3. \A n \in Nat : n % 2 = 0 => n \div 2 \in Nat /\ n = 2 * (n \div 2)
    OBVIOUS
  <2>4. Fine
    BY <2>1, <2>2, <2>3 DEF Fine, EvenSize
  <2>5. PICK a, b \in Nat : \E r \in 0 .. H - 1 : \E c \in 0 .. W - 1 :
           /\ W = 2 * a /\ H = 2 * b /\ cc \in Fourcc
           /\ out[i].to = 4 * (r * W) + 4 * c
           /\ \A m \in Component : ComponentOf(out[i], m) = Place(Converter(cc), m, a, b, r, c)
    BY <2>4, ConvertedPixel
  <2>6. PICK r \in 0 .. H - 1, c \in 0 .. W - 1 :
           /\ W = 2 * a /\ H = 2 * b /\ cc \in Fourcc
           /\ out[i].to = 4 * (r * W) + 4 * c
           /\ \A m \in Component : ComponentOf(out[i], m) = Place(Converter(cc), m, a, b, r, c)
    BY <2>5
  <2> DEFINE f == Converter(cc)
             size == Attrs(cc, W, H).size
  <2>7. ASSUME NEW k \in Component
        PROVE  out[i][k] \in 0 .. (IF copied > 0 THEN copied ELSE req.bytes) - 1
    <3>1. out[i][k] = Place(f, k, a, b, r, c)
      BY <2>6 DEF ComponentOf
    <3>2. f \in Fourcc
      BY <2>6 DEF Converter, Fourcc
    <3>3. /\ Place(f, k, a, b, r, c) \in Nat /\ PlainAttrs(f, W, H).size \in Nat
          /\ Place(f, k, a, b, r, c) < PlainAttrs(f, W, H).size
      <4> HIDE DEF f
      <4> QED
        BY <2>6, <3>2, PlaceInside
    <3>4. PlainAttrs(f, W, H) = PlainAttrs(cc, W, H)
      BY DEF Converter, PlainAttrs
    <3>5. size = PlainAttrs(cc, W, H).size
      BY <2>1, <2>2, FitsAttrs
    <3>6. copied \in {0, size} /\ size <= req.bytes /\ req.bytes \in Nat
      <4>1. req.bytes \in Nat
        <5>1. req.bytes \in Amounts \cup {0}
          BY DEF ImageInv, ImageTypeOK
        <5>2. Amounts \subseteq Nat
          BY ImagesAssumption, Zenon
        <5>3. 0 \in Nat
          OBVIOUS
        <5> QED
          BY <5>1, <5>2, <5>3, Zenon
      <4>2. copied \in {0, size}
        BY <2>1 DEF ImageInv, Copied
      <4>3. size <= req.bytes
        BY <2>1
      <4> QED
        BY <4>1, <4>2, <4>3
    <3>7. out[i][k] \in Nat /\ out[i][k] < size /\ size \in Nat
      BY <3>1, <3>3, <3>4, <3>5
    <3> HIDE DEF size
    <3> QED
      BY <3>6, <3>7
  <2>8. out[i].to \in 0 .. 4 * (W * H) - 4
    <3>1. r * W + c \in Nat /\ r * W + c < H * W /\ H * W = W * H /\ r * W \in Nat /\ c \in Nat
          /\ W * H \in Nat
      BY <2>2, InsideRows
    <3> DEFINE p == r * W
               n == W * H
    <3>2. p \in Nat /\ c \in Nat /\ n \in Nat /\ p + c < n /\ out[i].to = 4 * p + 4 * c
      BY <2>6, <3>1
    <3> HIDE DEF p, n
    <3>3. out[i].to \in 0 .. 4 * n - 4
      BY <3>2
    <3> QED
      BY <3>3 DEF n
  <2> QED
    BY <2>7, <2>8
<1> QED
  BY <1>1, ImageInvariant, PTL

\* The layout a reply gives for a size whose products fit gives no byte to two
\* samples (image_attrs and g_formats).
THEOREM LayoutsAreApart == ImageSpec => []PlanesApart
<1>1. ImageInv => PlanesApart
  <2> SUFFICES ASSUME ImageInv, phase = "laid_out", Fits(reply.width, reply.height),
                      NEW k \in Component, NEW l \in Component,
                      NEW p \in (0 .. reply.height - 1) \X (0 .. reply.width - 1),
                      NEW q \in (0 .. reply.height - 1) \X (0 .. reply.width - 1),
                      ClientSample(cc, reply.attrs, k, p[1], p[2])
                        = ClientSample(cc, reply.attrs, l, q[1], q[2])
               PROVE  k = l /\ Same(cc, k, p, q)
    BY DEF PlanesApart
  <2>1. EvenSize(reply.width) /\ EvenSize(reply.height) /\ cc \in Fourcc
    BY DEF ImageInv, ImageTypeOK, Sized
  <2>2. PICK a \in Nat, b \in Nat : reply.width = 2 * a /\ reply.height = 2 * b
    BY <2>1 DEF EvenSize
  <2>3. PICK r \in 0 .. reply.height - 1, c \in 0 .. reply.width - 1 : p = <<r, c>>
    OBVIOUS
  <2>4. PICK s \in 0 .. reply.height - 1, d \in 0 .. reply.width - 1 : q = <<s, d>>
    OBVIOUS
  <2>12. reply.width \in Nat \ {0} /\ reply.height \in Nat \ {0}
    BY <2>2, <2>3
  <2>13. reply.attrs = PlainAttrs(cc, reply.width, reply.height)
    <3>1. reply.attrs = Attrs(cc, reply.width, reply.height)
      BY <2>12 DEF ImageInv, Sized
    <3> QED
      BY <2>1, <2>12, <3>1, FitsAttrs
  <2>5. ClientSample(cc, reply.attrs, k, r, c) = ClientSample(cc, reply.attrs, l, s, d)
    BY <2>3, <2>4
  <2>6. ClientSample(cc, reply.attrs, k, r, c) = Place(cc, k, a, b, r, c)
    BY <2>1, <2>2, <2>13, ClientPlace
  <2>7. ClientSample(cc, reply.attrs, l, s, d) = Place(cc, l, a, b, s, d)
    BY <2>1, <2>2, <2>13, ClientPlace
  <2>8. Place(cc, k, a, b, r, c) = Place(cc, l, a, b, s, d)
    BY <2>5, <2>6, <2>7
  <2>9. /\ r \in 0 .. 2 * b - 1 /\ c \in 0 .. 2 * a - 1
        /\ s \in 0 .. 2 * b - 1 /\ d \in 0 .. 2 * a - 1
    BY <2>2
  <2>10. CASE cc \in {"YUY2", "UYVY"}
    <3>1. k = l /\ Same(cc, k, <<r, c>>, <<s, d>>)
      BY <2>8, <2>9, <2>10, PackedApart
    <3> QED
      BY <2>3, <2>4, <3>1
  <2>11. CASE cc \in {"YV12", "I420", "NV12"}
    <3>1. k = l /\ Same(cc, k, <<r, c>>, <<s, d>>)
      BY <2>8, <2>9, <2>11, PlanarApart
    <3> QED
      BY <2>3, <2>4, <3>1
  <2> QED
    BY <2>1, <2>10, <2>11 DEF Fourcc
<1> QED
  BY <1>1, ImageInvariant, PTL
=============================================================================
