----------------------------- MODULE XvReplies ------------------------------
(***************************************************************************)
(* The replies of src/src/cyxv_dispatch.c on a client's connection:        *)
(* cyxv_dispatch chooses a handler, the handler writes a 32-byte header    *)
(* with a sequence number and a length, and then, in writes of its own,    *)
(* the data the length announces.  The stream has no other marks: a client *)
(* that is told a wrong length takes data for replies from then on.        *)
(*                                                                         *)
(* The client is external, as libxcb is one: it numbers its requests,      *)
(* finds the request of a reply by its 16-bit number, drops a reply to a   *)
(* request that has none, and asks for the input focus before numbers      *)
(* could repeat.  Sizes are bytes; the stream is cut into 4-byte words.    *)
(***************************************************************************)
EXTENDS Naturals, Sequences

CONSTANTS SeqMod,  \* 2^16: sequenceNumber is uint16_t
          Window   \* requests the client sends before it asks for the focus

ASSUME RepliesAssumption == Window \in Nat \ {0} /\ SeqMod \in Nat /\ SeqMod > Window + 1

VARIABLES sent,     \* the client's requests from the last one known to be handled on
          number,   \* the number of its next request
          requests, \* those that have not reached the server
          seq,      \* the server's count of the client's requests
          canWrite, \* do_init found WriteToClient
          wire,     \* what the server has written and the client has not read
          need,     \* words of the reply it is reading that are still to come
          missed,   \* history: a reply came before the reply to an earlier request
          mixedUp   \* history: a reply was taken for the one to another request
connection == <<requests, seq, canWrite, wire>>
client == <<sent, number, need, missed, mixedUp>>
vars == <<connection, client>>

Request(op, planes) == [op |-> op, planes |-> planes]
Simple(op) == Request(op, 0)
\* The requests with a reply, by the protocol; planes is that of the fourcc.
Asking == {Simple(op) : op \in {"QueryExtension", "QueryAdaptors", "QueryEncodings",
                                "GrabPort", "QueryBestSize", "GetPortAttribute",
                                "QueryPortAttributes", "ListImageFormats"}}
            \cup {Request("QueryImageAttributes", n) : n \in 0 .. 3}
Telling == {Simple(op) : op \in {"UngrabPort", "SetPortAttribute", "PutImage",
                                 "ShmPutImage", "SelectVideoNotify"}}
GetInputFocus == Simple("GetInputFocus")
Requests == Asking \cup Telling \cup {GetInputFocus}

-----------------------------------------------------------------------------
(* What the handlers write                                                 *)

AdaptorInfo == 12
FormatEntry == 8
EncodingInfo == 20
ImageFormatInfo == 128
AdaptorName == 8   \* "CyXV-D3D"
EncodingName == 8  \* "XV_IMAGE"
NumFormats == 5

Padding(n) == (4 - (n % 4)) % 4

\* A name and, if it needs any, its padding, as writes.
Name(n) == IF Padding(n) = 0 THEN <<n>> ELSE <<n, Padding(n)>>

\* A reply: the length its header gives, in words, and the writes after it.
Reply(length, writes) == [length |-> length, writes |-> writes]
HeaderOnly == Reply(0, <<>>)

MutQueryAdaptors == \* mutant: the format is not counted
    Reply((AdaptorInfo + AdaptorName + Padding(AdaptorName)) \div 4,
          <<AdaptorInfo>> \o Name(AdaptorName) \o <<FormatEntry>>)
QueryAdaptors ==
    Reply((AdaptorInfo + AdaptorName + Padding(AdaptorName) + FormatEntry) \div 4,
          <<AdaptorInfo>> \o Name(AdaptorName) \o <<FormatEntry>>)
QueryEncodings ==
    Reply((EncodingInfo + EncodingName + Padding(EncodingName)) \div 4,
          <<EncodingInfo>> \o Name(EncodingName))
MutListImageFormats == \* mutant: the length in bytes
    Reply(NumFormats * ImageFormatInfo, [i \in 1 .. NumFormats |-> ImageFormatInfo])
ListImageFormats == Reply((NumFormats * ImageFormatInfo) \div 4,
                          [i \in 1 .. NumFormats |-> ImageFormatInfo])
\* The pitches, then the offsets; none for a fourcc image_attrs does not know.
QueryImageAttributes(planes) == Reply(2 * planes, [i \in 1 .. 2 * planes |-> 4])

ReplyTo(r) == CASE r.op = "QueryAdaptors" -> QueryAdaptors
                [] r.op = "QueryEncodings" -> QueryEncodings
                [] r.op = "ListImageFormats" -> ListImageFormats
                [] r.op = "QueryImageAttributes" -> QueryImageAttributes(r.planes)
                [] OTHER -> HeaderOnly

MutSilent(r) == r \in Telling \/ r.op = "QueryPortAttributes" \* mutant: no attributes, no reply
\* The cases of the switch that write nothing.  UngrabPort is not one of them:
\* it has the handler of GrabPort.
Silent(r) == r.op \in {"SetPortAttribute", "PutImage", "ShmPutImage", "SelectVideoNotify"}

\* WriteToClient fills up the last word of each write.  A name that needs padding
\* would get it twice, there and from the handler; both names are 8 bytes long.
Data(bytes) == [words |-> (bytes + Padding(bytes)) \div 4]
Header(r, n) == [request |-> r, number |-> n, words |-> ReplyTo(r).length]
IsHeader(write) == "request" \in DOMAIN write
Stream(r, n) == <<Header(r, n)>>
                  \o [i \in DOMAIN ReplyTo(r).writes |-> Data(ReplyTo(r).writes[i])]

-----------------------------------------------------------------------------
Init == /\ sent = <<>> /\ number = 1 /\ requests = <<>>
        /\ seq = 0
        /\ canWrite \in BOOLEAN
        /\ wire = <<>> /\ need = 0
        /\ missed = FALSE /\ mixedUp = FALSE

Send(r) == /\ sent' = Append(sent, [request |-> r, number |-> number])
           /\ requests' = Append(requests, r)
           /\ number' = (number + 1) % SeqMod
           /\ UNCHANGED <<seq, canWrite, wire, need, missed, mixedUp>>

Ask(r) == Len(sent) < Window /\ Send(r)
Sync == Len(sent) = Window /\ Send(GetInputFocus)

\* The server counts the request, then cyxv_dispatch, or its own handler of
\* GetInputFocus, handles it to its end.  Without WriteToClient nothing is sent.
Count == seq' = (seq + 1) % SeqMod
Dispatch == /\ requests # <<>>
            /\ requests' = Tail(requests)
            /\ Count
            /\ LET r == Head(requests)
                   writes == ~Silent(r) /\ (canWrite \/ r = GetInputFocus)
               IN  wire' = IF writes THEN wire \o Stream(r, seq') ELSE wire
            /\ UNCHANGED <<canWrite, client>>

Asked(n) == {i \in DOMAIN sent : sent[i].number = n}
Awaits(i) == sent[i].request \in Asking \cup {GetInputFocus}

\* The client takes 32 bytes for a header when it needs no more data, and its
\* requests up to the one the number names for handled.
ReadHeader == /\ wire # <<>> /\ need = 0 /\ IsHeader(Head(wire))
              /\ need' = Head(wire).words
              /\ \E i \in Asked(Head(wire).number) :
                    /\ missed' = (missed \/ \E j \in 1 .. i - 1 : Awaits(j))
                    /\ mixedUp' = (mixedUp \/ sent[i].request # Head(wire).request)
                    /\ sent' = SubSeq(sent, i + 1, Len(sent))
              /\ wire' = Tail(wire)
              /\ UNCHANGED <<number, requests, seq, canWrite>>

ReadData == /\ wire # <<>> /\ ~IsHeader(Head(wire)) /\ Head(wire).words <= need
            /\ need' = need - Head(wire).words
            /\ wire' = Tail(wire)
            /\ UNCHANGED <<sent, number, requests, seq, canWrite, missed, mixedUp>>

Next == \/ \E r \in Asking \cup Telling : Ask(r)
        \/ Sync \/ Dispatch \/ ReadHeader \/ ReadData

Spec == Init /\ [][Next]_vars

-----------------------------------------------------------------------------
TypeOK == /\ Len(sent) <= Window + 1
          /\ \A i \in DOMAIN sent : sent[i].request \in Requests
          /\ number \in 0 .. SeqMod - 1 /\ seq \in 0 .. SeqMod - 1
          /\ requests \in Seq(Requests) /\ Len(requests) <= Len(sent)
          /\ canWrite \in BOOLEAN
          /\ need \in 0 .. 160
          /\ \A i, j \in DOMAIN sent : sent[i].number = sent[j].number => i = j

\* The client never takes data for a reply or a reply for data, and no reply
\* has a number it did not send: the lengths the headers announce are the
\* lengths of what the handlers write after them, and nothing is owed when all
\* is read.
InStep == IF wire = <<>> THEN need = 0
          ELSE IF IsHeader(Head(wire)) THEN need = 0 /\ Asked(Head(wire).number) # {}
          ELSE Head(wire).words <= need

\* The client stays in step and, with WriteToClient, each request that has a
\* reply gets it, and gets its own, in order, whatever requests without one come
\* between them, and whatever replies to UngrabPort, which should have none
\* (line 670); none still waits when all is handled and read.
EachGetsItsReply ==
    /\ InStep
    /\ canWrite =>
         /\ ~missed /\ ~mixedUp
         /\ requests = <<>> /\ wire = <<>> => \A i \in DOMAIN sent : ~Awaits(i)
=============================================================================
