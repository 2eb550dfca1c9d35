---------------------------- MODULE PhoenixProofs ----------------------------
(***************************************************************************)
(* Frames come out of the capture's pipe whole and in order, and NAL units *)
(* out of nal_sender, for frames and units of any length and pipes of any  *)
(* size, wherever the reads cut them.                                      *)
(*                                                                         *)
(* The pipe and the stream of pieces behind it are chains: each element is *)
(* followed by the one that comes after it.  That alone would need an      *)
(* induction along the chain to tell what stands i places behind the head; *)
(* so the invariants also say how far apart two elements are.              *)
(***************************************************************************)
EXTENDS Phoenix, SequenceTheorems, WellFoundedInduction, TLAPS

-----------------------------------------------------------------------------
(* The capture's pipe                                                      *)

After(u) == IF u.at = FrameLen + 2 THEN C!Unit(u.frame + 1, 1) ELSE C!Unit(u.frame, u.at + 1)

\* The unit that is written next, and the one at the head of the pipe or about
\* to get there.
Coming == IF frame > 0 /\ unit <= FrameLen + 2 THEN C!Unit(frame, unit)
          ELSE C!Unit(frame + 1, 1)
AtHead == IF pipe = <<>> THEN Coming ELSE pipe[1]

\* v can stand d places behind u.
Behind(u, v, d) == \/ u.frame = v.frame /\ v.at - u.at = d
                   \/ u.frame < v.frame /\ d >= FrameLen + 2 - u.at + v.at

Chained ==
    /\ \A i \in 1 .. Len(pipe) - 1 : pipe[i + 1] = After(pipe[i])
    /\ pipe # <<>> => After(pipe[Len(pipe)]) = Coming
    /\ \A i, j \in 1 .. Len(pipe) : i <= j => Behind(pipe[i], pipe[j], j - i)

\* The unit read_dxgi_frame takes the next one for.
Expected == CASE reader = "first"  -> C!Unit(1, 1)
              [] reader = "body"   -> C!Unit(delivered + 1, Len(got) + 3)
              [] reader = "header" -> C!Unit(delivered + 2, 1)

CaptureShape ==
    /\ capture = "writing" => frame > 0 /\ unit <= FrameLen + 2
    /\ capture \in {"starting", "waiting"} => frame = 0 \/ unit = FrameLen + 3
    /\ reader = "first" => delivered = 0 /\ got = <<>>
    /\ reader = "body" => Len(got) < FrameLen

InStep == aligned /\ ~C!Ended =>
    /\ reader \in {"body", "header"} =>
          \A i \in 1 .. Len(got) : got[i] = C!Unit(delivered + 1, i + 2)
    /\ ~C!AtEof => AtHead = Expected

CInv == C!TypeOK /\ CaptureShape /\ Chained /\ InStep

LEMMA Sizes == /\ FrameLen \in Nat \ {0} /\ PipeSize \in Nat \ {0} /\ MaxFrames \in Nat \ {0}
               /\ NalLen \in Nat /\ NalLen > 2
               /\ StdinSize \in Nat \ {0} /\ StdoutSize \in Nat \ {0} /\ SockSize \in Nat \ {0}
  BY PhoenixAssumption DEF C!PipeAssumption, S!StreamAssumption

LEMMA InitCInv == C!Init => CInv
<1> SUFFICES ASSUME C!Init
             PROVE  CInv
  OBVIOUS
<1>1. /\ pipe = <<>> /\ Len(pipe) = 0 /\ got = <<>> /\ Len(got) = 0 /\ frame = 0 /\ unit = 1
      /\ capture = "starting" /\ reader = "first" /\ delivered = 0 /\ aligned = TRUE
  BY EmptySeq DEF C!Init
<1>2. C!TypeOK
  BY <1>1, Sizes, EmptySeq DEF C!TypeOK
<1>3. AtHead = Expected
  BY <1>1 DEF AtHead, Expected, Coming
<1> QED
  BY <1>1, <1>2, <1>3, Sizes DEF CInv, CaptureShape, Chained, InStep

\* What one unbuffered read takes, and what it leaves.
LEMMA ChunkFacts ==
    ASSUME pipe \in Seq(C!Units), NEW n \in Nat, C!Consume(C!Chunk(n))
    PROVE  LET m == Len(C!Chunk(n))
           IN  /\ m \in Nat /\ m = C!Smaller(n, Len(pipe)) /\ m <= Len(pipe) /\ m <= n
               /\ n > 0 /\ pipe # <<>> => m > 0
               /\ C!Chunk(n) \in Seq(C!Units) /\ pipe' \in Seq(C!Units)
               /\ \A i \in 1 .. m : C!Chunk(n)[i] = pipe[i]
               /\ Len(pipe') = Len(pipe) - m
               /\ \A i \in 1 .. Len(pipe) - m : pipe'[i] = pipe[m + i]
<1> DEFINE m == C!Smaller(n, Len(pipe))
<1>1. /\ m \in Nat /\ Len(pipe) \in Nat /\ m <= Len(pipe) /\ m <= n
      /\ n > 0 /\ pipe # <<>> => m > 0
  BY LenProperties, EmptySeq DEF C!Smaller
<1>2. \A i \in 1 .. Len(pipe) : pipe[i] \in C!Units
  BY ElementOfSeq
<1>3. C!Chunk(n) = SubSeq(pipe, 1, m)
  BY DEF C!Chunk
<1> HIDE DEF m
<1>4. /\ C!Chunk(n) \in Seq(C!Units)
      /\ Len(C!Chunk(n)) = IF 1 <= m THEN m - 1 + 1 ELSE 0
      /\ \A i \in 1 .. m - 1 + 1 : C!Chunk(n)[i] = pipe[1 + i - 1]
  BY <1>1, <1>2, <1>3, SubSeqProperties
<1>5. Len(C!Chunk(n)) = m /\ \A i \in 1 .. m : C!Chunk(n)[i] = pipe[i]
  <2>1. \A i \in 1 .. m : i \in 1 .. m - 1 + 1 /\ 1 + i - 1 = i
    BY <1>1
  <2> QED
    BY <1>1, <1>4, <2>1
<1>6. pipe' = SubSeq(pipe, m + 1, Len(pipe))
  BY <1>5 DEF C!Consume
<1>7. /\ pipe' \in Seq(C!Units)
      /\ Len(pipe') = IF m + 1 <= Len(pipe) THEN Len(pipe) - (m + 1) + 1 ELSE 0
      /\ \A i \in 1 .. Len(pipe) - (m + 1) + 1 : pipe'[i] = pipe[m + 1 + i - 1]
  BY <1>1, <1>2, <1>6, SubSeqProperties
<1>8. Len(pipe') = Len(pipe) - m /\ \A i \in 1 .. Len(pipe) - m : pipe'[i] = pipe[m + i]
  <2>1. \A i \in 1 .. Len(pipe) - m : i \in 1 .. Len(pipe) - (m + 1) + 1 /\ m + 1 + i - 1 = m + i
    BY <1>1
  <2> QED
    BY <1>1, <1>7, <2>1
<1> QED
  BY <1>1, <1>4, <1>5, <1>7, <1>8 DEF m

\* Reading leaves a chain, whose head comes after what was read.
LEMMA ReadChained ==
    ASSUME C!TypeOK, Chained, NEW n \in Nat, C!Consume(C!Chunk(n)), UNCHANGED <<frame, unit>>
    PROVE  /\ Chained'
           /\ Len(C!Chunk(n)) > 0 => AtHead' = After(pipe[Len(C!Chunk(n))])
           /\ Len(C!Chunk(n)) = 0 => AtHead' = AtHead
<1> DEFINE m == Len(C!Chunk(n))
<1>1. /\ m \in Nat /\ m <= Len(pipe) /\ Len(pipe) \in Nat
      /\ pipe' \in Seq(C!Units)
      /\ Len(pipe') = Len(pipe) - m
      /\ \A i \in 1 .. Len(pipe) - m : pipe'[i] = pipe[m + i]
  BY ChunkFacts, LenProperties DEF C!TypeOK
<1> HIDE DEF m
<1>2. Coming' = Coming
  BY DEF Coming, C!Unit
<1>3. \A i \in 1 .. Len(pipe) - m : m + i \in 1 .. Len(pipe)
  BY <1>1
<1>4. \A i \in 1 .. Len(pipe') - 1 : pipe'[i + 1] = After(pipe'[i])
  <2> SUFFICES ASSUME NEW i \in 1 .. Len(pipe') - 1
               PROVE  pipe'[i + 1] = After(pipe'[i])
    OBVIOUS
  <2>1. i \in 1 .. Len(pipe) - m /\ i + 1 \in 1 .. Len(pipe) - m /\ m + i \in 1 .. Len(pipe) - 1
    BY <1>1
  <2>2. pipe[(m + i) + 1] = After(pipe[m + i]) /\ m + (i + 1) = (m + i) + 1
    BY <1>1, <2>1 DEF Chained
  <2> QED
    BY <1>1, <2>1, <2>2
<1>5. pipe' # <<>> => After(pipe'[Len(pipe')]) = Coming /\ pipe # <<>>
  <2> SUFFICES ASSUME pipe' # <<>>
               PROVE  After(pipe'[Len(pipe')]) = Coming /\ pipe # <<>>
    OBVIOUS
  <2>1. Len(pipe') \in 1 .. Len(pipe) - m /\ m + Len(pipe') = Len(pipe)
    BY <1>1, EmptySeq
  <2>2. pipe # <<>> /\ pipe'[Len(pipe')] = pipe[Len(pipe)]
    BY <1>1, <2>1, EmptySeq
  <2> QED
    BY <2>2 DEF Chained
<1>6. \A i, j \in 1 .. Len(pipe') : i <= j => Behind(pipe'[i], pipe'[j], j - i)
  <2> SUFFICES ASSUME NEW i \in 1 .. Len(pipe'), NEW j \in 1 .. Len(pipe'), i <= j
               PROVE  Behind(pipe'[i], pipe'[j], j - i)
    OBVIOUS
  <2>1. /\ m + i \in 1 .. Len(pipe) /\ m + j \in 1 .. Len(pipe) /\ m + i <= m + j
        /\ (m + j) - (m + i) = j - i
    BY <1>1
  <2>2. Behind(pipe[m + i], pipe[m + j], j - i)
    BY <2>1 DEF Chained
  <2> QED
    BY <1>1, <2>2
<1>7. Chained'
  BY <1>2, <1>4, <1>5, <1>6 DEF Chained, After, Behind, C!Unit
<1>8. ASSUME m > 0
      PROVE  AtHead' = After(pipe[m])
  <2>1. CASE m = Len(pipe)
    <3>1. pipe' = <<>> /\ pipe # <<>>
      BY <1>1, <1>8, <2>1, EmptySeq
    <3> QED
      BY <1>2, <2>1, <3>1 DEF AtHead, Chained
  <2>2. CASE m # Len(pipe)
    <3>1. m \in 1 .. Len(pipe) - 1 /\ 1 \in 1 .. Len(pipe) - m
      BY <1>1, <1>8, <2>2
    <3>2. pipe' # <<>> /\ pipe'[1] = pipe[m + 1]
      BY <1>1, <3>1, EmptySeq
    <3> QED
      BY <3>1, <3>2 DEF AtHead, Chained
  <2> QED
    BY <2>1, <2>2
<1>9. ASSUME m = 0
      PROVE  AtHead' = AtHead
  <2>1. CASE pipe = <<>>
    <3>1. pipe' = <<>>
      BY <1>1, <1>9, <2>1, EmptySeq
    <3> QED
      BY <1>2, <2>1, <3>1 DEF AtHead
  <2>2. CASE pipe # <<>>
    <3>1. 1 \in 1 .. Len(pipe) - m /\ m + 1 = 1 /\ pipe' # <<>>
      BY <1>1, <1>9, <2>2, EmptySeq
    <3> QED
      BY <1>1, <2>2, <3>1 DEF AtHead
  <2> QED
    BY <2>1, <2>2
<1> QED
  BY <1>7, <1>8, <1>9 DEF m
\* The distance grows by one from a unit to the next.
LEMMA OneFurther ==
    ASSUME NEW u \in C!Units, NEW v \in C!Units, NEW d \in Int, Behind(u, v, d)
    PROVE  Behind(u, After(v), d + 1)
<1>1. /\ u.frame \in Nat /\ u.at \in Nat /\ u.at <= FrameLen + 2
      /\ v.frame \in Nat /\ v.at \in Nat /\ v.at <= FrameLen + 2
      /\ FrameLen \in Nat
  BY Sizes DEF C!Units
<1>2. CASE v.at = FrameLen + 2
  <2>1. After(v).frame = v.frame + 1 /\ After(v).at = 1
    BY <1>2 DEF After, C!Unit
  <2> QED
    BY <1>1, <1>2, <2>1 DEF Behind
<1>3. CASE v.at # FrameLen + 2
  <2>1. After(v).frame = v.frame /\ After(v).at = v.at + 1
    BY <1>3 DEF After, C!Unit
  <2> QED
    BY <1>1, <2>1 DEF Behind
<1> QED
  BY <1>2, <1>3

\* A unit written is the one that was coming, and the next one comes after it.
LEMMA WriteChained ==
    ASSUME C!TypeOK, CaptureShape, Chained, C!WriteUnit
    PROVE  /\ Chained' /\ AtHead' = AtHead
           /\ pipe' \in Seq(C!Units) /\ Len(pipe') = Len(pipe) + 1
<1> DEFINE n == Len(pipe)
<1>1. /\ capture = "writing" /\ frame > 0 /\ frame \in 1 .. MaxFrames
      /\ unit \in 1 .. FrameLen + 2 /\ unit' = unit + 1 /\ frame' = frame
      /\ pipe' = Append(pipe, C!Unit(frame, unit))
      /\ pipe \in Seq(C!Units) /\ n \in Nat
  BY Sizes, LenProperties DEF C!WriteUnit, CaptureShape, C!TypeOK
<1>2. Coming = C!Unit(frame, unit) /\ Coming \in C!Units
  BY <1>1 DEF Coming, C!Unit, C!Units
<1>3. /\ pipe' \in Seq(C!Units) /\ Len(pipe') = n + 1 /\ pipe' # <<>>
      /\ \A i \in 1 .. n : pipe'[i] = pipe[i]
      /\ pipe'[n + 1] = Coming
  BY <1>1, <1>2, AppendProperties
<1>4. \A i \in 1 .. n : pipe[i] \in C!Units
  BY <1>1, ElementOfSeq
<1>5. /\ \A i \in 1 .. n - 1 : pipe[i + 1] = After(pipe[i])
      /\ n > 0 => After(pipe[n]) = Coming
      /\ \A i, j \in 1 .. n : i <= j => Behind(pipe[i], pipe[j], j - i)
      /\ n = 0 <=> pipe = <<>>
  BY <1>1, EmptySeq DEF Chained
<1> HIDE DEF n
<1>6. After(Coming) = Coming'
  BY <1>1, Sizes DEF After, Coming, C!Unit
<1>7. \A i \in 1 .. n : pipe'[i + 1] = After(pipe'[i])
  <2> SUFFICES ASSUME NEW i \in 1 .. n
               PROVE  pipe'[i + 1] = After(pipe'[i])
    OBVIOUS
  <2>1. CASE i = n
    BY <1>1, <1>3, <1>5, <2>1
  <2>2. CASE i # n
    <3>1. i \in 1 .. n - 1 /\ i + 1 \in 1 .. n
      BY <1>1, <2>2
    <3> QED
      BY <1>3, <1>5, <3>1
  <2> QED
    BY <2>1, <2>2
<1>8. ASSUME NEW i \in 1 .. n
      PROVE  Behind(pipe[i], Coming, n + 1 - i)
  <2>1. n \in 1 .. n /\ i <= n /\ n - i \in Int /\ n - i + 1 = n + 1 - i /\ n > 0
    BY <1>1
  <2>2. Behind(pipe[i], pipe[n], n - i) /\ After(pipe[n]) = Coming
    BY <1>5, <2>1
  <2>3. Behind(pipe[i], Coming, n - i + 1)
    BY <1>4, <2>1, <2>2, OneFurther
  <2> QED
    BY <2>1, <2>3
<1>9. \A i, j \in 1 .. n + 1 : i <= j => Behind(pipe'[i], pipe'[j], j - i)
  <2> SUFFICES ASSUME NEW i \in 1 .. n + 1, NEW j \in 1 .. n + 1, i <= j
               PROVE  Behind(pipe'[i], pipe'[j], j - i)
    OBVIOUS
  <2>1. CASE j \in 1 .. n
    <3>1. i \in 1 .. n
      BY <1>1, <2>1
    <3> QED
      BY <1>3, <1>5, <2>1, <3>1
  <2>2. CASE j = n + 1 /\ i \in 1 .. n
    <3>1. pipe'[i] = pipe[i] /\ pipe'[j] = Coming
      BY <1>3, <2>2
    <3>2. Behind(pipe[i], Coming, n + 1 - i)
      BY <1>8, <2>2, Zenon
    <3>3. n + 1 - i = j - i
      BY <1>1, <2>2
    <3> QED
      BY <3>1, <3>2, <3>3
  <2>3. CASE j = n + 1 /\ i = n + 1
    <3>1. Coming.at - Coming.at = j - i
      BY <1>1, <1>2, <2>3 DEF C!Unit
    <3> QED
      BY <1>3, <2>3, <3>1 DEF Behind
  <2>4. j \in 1 .. n \/ (j = n + 1 /\ i \in 1 .. n) \/ (j = n + 1 /\ i = n + 1)
    BY <1>1
  <2> QED
    BY <2>1, <2>2, <2>3, <2>4
<1>10. Chained'
  <2>1. Len(pipe') - 1 = n
    BY <1>1, <1>3
  <2>2. \A i \in 1 .. Len(pipe') - 1 : pipe'[i + 1] = After(pipe'[i])
    BY <1>7, <2>1
  <2>3. pipe' # <<>> => After(pipe'[Len(pipe')]) = Coming'
    BY <1>3, <1>6
  <2>4. \A i, j \in 1 .. Len(pipe') : i <= j => Behind(pipe'[i], pipe'[j], j - i)
    BY <1>3, <1>9
  <2> QED
    BY <2>2, <2>3, <2>4 DEF Chained, After, Behind, C!Unit
<1>11. AtHead' = AtHead
  <2>1. CASE n = 0
    BY <1>3, <1>5, <2>1 DEF AtHead
  <2>2. CASE n # 0
    <3>1. 1 \in 1 .. n
      BY <1>1, <2>2
    <3> QED
      BY <1>3, <1>5, <2>2, <3>1 DEF AtHead
  <2> QED
    BY <2>1, <2>2
<1> QED
  BY <1>3, <1>10, <1>11 DEF n

\* What is read of the frame at the head continues it.
LEMMA InsideFrame ==
    ASSUME C!TypeOK, Chained, pipe # <<>>, NEW i \in 1 .. Len(pipe),
           pipe[1].at + i - 1 <= FrameLen + 2
    PROVE  pipe[i] = C!Unit(pipe[1].frame, pipe[1].at + i - 1)
<1>1. 1 \in 1 .. Len(pipe) /\ pipe \in Seq(C!Units)
  BY LenProperties, EmptySeq DEF C!TypeOK
<1>2. pipe[1] \in C!Units /\ pipe[i] \in C!Units
  BY <1>1, ElementOfSeq
<1>3. Behind(pipe[1], pipe[i], i - 1)
  BY <1>1 DEF Chained
<1>4. pipe[i].frame = pipe[1].frame /\ pipe[i].at = pipe[1].at + i - 1
  BY <1>2, <1>3, Sizes DEF Behind, C!Units
<1> QED
  BY <1>2, <1>4 DEF C!Unit, C!Units

\* A header read in one piece is that of the next frame, and its rows follow.
LEMMA HeaderRead ==
    ASSUME CInv, NEW f \in Nat, AtHead = C!Unit(f, 1), pipe # <<>>,
           C!Consume(C!Chunk(2)), Len(C!Chunk(2)) = 2, UNCHANGED <<frame, unit>>
    PROVE  AtHead' = C!Unit(f, 3)
<1>1. pipe \in Seq(C!Units) /\ C!TypeOK /\ Chained
  BY DEF CInv, C!TypeOK
<1> DEFINE m == Len(C!Chunk(2))
<1>2. 2 \in 1 .. Len(pipe)
  <2>1. Len(pipe) \in Nat
    BY <1>1, LenProperties
  <2>2. m <= Len(pipe)
    BY <1>1, ChunkFacts
  <2> QED
    BY <2>1, <2>2
<1>5. 2 \in Nat /\ 2 > 0
  OBVIOUS
<1>7. Len(C!Chunk(2)) > 0 => AtHead' = After(pipe[Len(C!Chunk(2))])
  BY <1>1, <1>5, ReadChained, Zenon
<1>6. AtHead' = After(pipe[2])
  BY <1>5, <1>7
<1>3. pipe[1].frame = f /\ pipe[1].at = 1
  BY DEF AtHead, C!Unit
<1>4. pipe[2] = C!Unit(f, 2)
  BY <1>1, <1>2, <1>3, InsideFrame, Sizes
<1> QED
  BY <1>4, <1>6, Sizes DEF After, C!Unit

LEMMA CaptureKeepsCInv ==
    ASSUME CInv, C!SetUp \/ C!Acquire \/ C!WriteUnit \/ C!WriteFails \/ C!CaptureEnds \/ Terminates
    PROVE  CInv'
<1>0. C!TypeOK /\ CaptureShape /\ Chained /\ InStep
  BY DEF CInv
<1> USE DEF C!streamer
<1>1. CASE C!SetUp
  <2>1. /\ capture = "starting" /\ capture' = "waiting"
        /\ UNCHANGED <<frame, unit, pipe, reader, got, delivered, aligned>>
    BY <1>1 DEF C!SetUp
  <2>2. C!TypeOK' /\ CaptureShape'
    BY <1>0, <2>1 DEF C!TypeOK, CaptureShape
  <2>3. Chained' /\ AtHead' = AtHead /\ Expected' = Expected
    BY <1>0, <2>1 DEF Chained, After, Behind, C!Unit, Coming, AtHead, Expected
  <2> QED
    BY <1>0, <2>1, <2>2, <2>3 DEF CInv, InStep, C!AtEof, C!Ended, C!Unit
<1>2. CASE C!Acquire
  <2>1. /\ capture = "waiting" /\ capture' = "writing" /\ frame < MaxFrames
        /\ frame' = frame + 1 /\ unit' = 1
        /\ UNCHANGED <<pipe, reader, got, delivered, aligned>>
    BY <1>2 DEF C!Acquire
  <2>2. C!TypeOK' /\ CaptureShape'
    BY <1>0, <2>1, Sizes DEF C!TypeOK, CaptureShape
  <2>3. Coming' = Coming
    BY <1>0, <2>1, Sizes DEF Coming, C!TypeOK, CaptureShape, C!Unit
  <2>4. Chained' /\ AtHead' = AtHead /\ Expected' = Expected
    BY <1>0, <2>1, <2>3 DEF Chained, After, Behind, C!Unit, AtHead, Expected
  <2> QED
    BY <1>0, <2>1, <2>2, <2>4 DEF CInv, InStep, C!AtEof, C!Ended, C!Unit
<1>3. CASE C!WriteUnit
  <2>1. /\ capture = "writing" /\ unit' = unit + 1 /\ Len(pipe) < PipeSize
        /\ capture' = (IF unit = 2 + FrameLen THEN "waiting" ELSE capture)
        /\ UNCHANGED <<frame, reader, got, delivered, aligned>>
    BY <1>3 DEF C!WriteUnit
  <2>2. /\ Chained' /\ AtHead' = AtHead
        /\ pipe' \in Seq(C!Units) /\ Len(pipe') = Len(pipe) + 1
    BY <1>0, <1>3, WriteChained
  <2>3. C!TypeOK' /\ CaptureShape'
    BY <1>0, <2>1, <2>2, Sizes, LenProperties DEF C!TypeOK, CaptureShape
  <2>4. Expected' = Expected
    BY <2>1 DEF Expected, C!Unit
  <2> QED
    BY <1>0, <2>1, <2>2, <2>3, <2>4 DEF CInv, InStep, C!AtEof, C!Ended, C!Unit
<1>4. CASE C!WriteFails \/ C!CaptureEnds
  <2>1. capture' = "gone" /\ UNCHANGED <<frame, unit, pipe, reader, got, delivered, aligned>>
    BY <1>4 DEF C!WriteFails, C!CaptureEnds
  <2>2. C!TypeOK' /\ CaptureShape'
    BY <1>0, <2>1 DEF C!TypeOK, CaptureShape
  <2>3. Chained' /\ AtHead' = AtHead /\ Expected' = Expected
    BY <1>0, <2>1 DEF Chained, After, Behind, C!Unit, Coming, AtHead, Expected
  <2>4. C!AtEof => C!AtEof'
    BY <2>1 DEF C!AtEof
  <2> QED
    BY <1>0, <2>1, <2>2, <2>3, <2>4 DEF CInv, InStep, C!Ended, C!Unit
<1>5. CASE Terminates
  <2>1. /\ capture' = "gone" /\ unit' = 1 /\ pipe' = <<>> /\ reader' = "stopped" /\ got' = <<>>
        /\ UNCHANGED <<frame, delivered, aligned>>
    BY <1>5 DEF Terminates
  <2>2. C!TypeOK' /\ CaptureShape'
    BY <1>0, <2>1, Sizes, EmptySeq DEF C!TypeOK, CaptureShape
  <2>3. Chained'
    BY <2>1, EmptySeq DEF Chained
  <2> QED
    BY <2>1, <2>2, <2>3 DEF CInv, InStep, C!Ended
<1> QED
  BY <1>1, <1>2, <1>3, <1>4, <1>5

LEMMA ReadsKeepCInv == ASSUME CInv, C!Reads \/ C!Deliver \/ C!GivesUp PROVE CInv'
<1>0. C!TypeOK /\ CaptureShape /\ Chained /\ InStep /\ pipe \in Seq(C!Units) /\ FrameLen \in Nat
  BY Sizes DEF CInv, C!TypeOK
<1>9. ASSUME NEW n \in Nat, C!Consume(C!Chunk(n)), UNCHANGED <<frame, unit>>
      PROVE  pipe' \in Seq(C!Units) /\ Len(pipe') <= PipeSize /\ Len(pipe') \in Nat /\ Chained'
  <2>1. Len(C!Chunk(n)) \in Nat /\ pipe' \in Seq(C!Units) /\ Len(pipe') = Len(pipe) - Len(C!Chunk(n))
    BY <1>0, <1>9, ChunkFacts
  <2>2. Len(pipe) \in Nat /\ Len(pipe') \in Nat /\ Len(pipe) <= PipeSize
    BY <1>0, <2>1, LenProperties DEF C!TypeOK
  <2>3. Chained'
    BY <1>0, <1>9, ReadChained
  <2> QED
    BY <2>1, <2>2, <2>3, Sizes
<1>1. CASE C!ReadFirst
  <2>1. /\ reader = "first" /\ C!Consume(C!Chunk(2))
        /\ reader' = (IF Len(C!Chunk(2)) < 2 THEN "refused" ELSE "body")
        /\ UNCHANGED <<frame, unit>> /\ UNCHANGED <<capture, got, delivered, aligned>>
        /\ delivered = 0 /\ got = <<>> /\ Len(got) = 0
    BY <1>0, <1>1, EmptySeq DEF C!ReadFirst, CaptureShape
  <2>2. pipe' \in Seq(C!Units) /\ Len(pipe') <= PipeSize /\ Chained'
    BY <1>9, <2>1
  <2>3. C!TypeOK' /\ CaptureShape'
    BY <1>0, <2>1, <2>2, Sizes DEF C!TypeOK, CaptureShape
  <2>4. ASSUME aligned, reader' = "body"
        PROVE  AtHead' = C!Unit(1, 3)
    <3>1. Len(C!Chunk(2)) \in Nat /\ Len(C!Chunk(2)) <= 2 /\ Len(C!Chunk(2)) <= Len(pipe)
      BY <1>0, <2>1, ChunkFacts
    <3>2. Len(C!Chunk(2)) = 2
      <4>1. ~(Len(C!Chunk(2)) < 2)
        BY <2>1, <2>4, Zenon
      <4> DEFINE m == Len(C!Chunk(2))
      <4>2. m \in Nat /\ m <= 2 /\ ~(m < 2)
        BY <3>1, <4>1
      <4> HIDE DEF m
      <4>3. m = 2
        BY <4>2
      <4> QED
        BY <4>3 DEF m
    <3>4. pipe # <<>>
      BY <3>1, <3>2, EmptySeq
    <3>3. AtHead = C!Unit(1, 1)
      BY <1>0, <2>1, <2>4, <3>4 DEF InStep, C!Ended, C!AtEof, Expected
    <3> QED
      BY <2>1, <3>2, <3>3, <3>4, HeaderRead
  <2>5. InStep'
    BY <2>1, <2>4 DEF InStep, C!Ended, C!AtEof, Expected, C!Unit
  <2> QED
    BY <2>2, <2>3, <2>5 DEF CInv
<1>2. CASE C!ReadBody
  <2> DEFINE g == Len(got)
             n == FrameLen - g
             chunk == C!Chunk(n)
             m == Len(chunk)
  <2>1. /\ reader = "body" /\ pipe # <<>> /\ C!Consume(chunk) /\ got' = got \o chunk
        /\ reader' = (IF Len(got') = FrameLen THEN "header" ELSE reader)
        /\ UNCHANGED <<frame, unit>> /\ UNCHANGED <<capture, delivered, aligned>>
        /\ g < FrameLen /\ g \in Nat /\ got \in Seq(C!Units) /\ delivered \in Nat
    BY <1>0, <1>2, LenProperties DEF C!ReadBody, CaptureShape, C!TypeOK
  <2>2. n \in Nat /\ n > 0
    BY <1>0, <2>1
  <2>3. pipe' \in Seq(C!Units) /\ Len(pipe') <= PipeSize /\ Chained'
    BY <1>9, <2>1, <2>2
  <2>4. /\ m \in Nat /\ m > 0 /\ m <= n /\ m <= Len(pipe) /\ chunk \in Seq(C!Units)
        /\ \A i \in 1 .. m : chunk[i] = pipe[i]
    BY <1>0, <2>1, <2>2, ChunkFacts
  <2>5. AtHead' = After(pipe[m])
    BY <1>0, <2>1, <2>2, <2>4, ReadChained
  <2>6. /\ got' \in Seq(C!Units) /\ Len(got') = g + m
        /\ \A i \in 1 .. g + m : got'[i] = IF i <= g THEN got[i] ELSE chunk[i - g]
    BY <2>1, <2>4, ConcatProperties
  <2> HIDE DEF g, chunk, m
  <2>7. C!TypeOK' /\ CaptureShape'
    <3>1. g + m <= FrameLen /\ g + m \in Nat
      BY <1>0, <2>1, <2>4
    <3> QED
      BY <1>0, <2>1, <2>3, <2>6, <3>1, Sizes DEF C!TypeOK, CaptureShape
  <2>8. ASSUME aligned
        PROVE  /\ \A i \in 1 .. Len(got') : got'[i] = C!Unit(delivered + 1, i + 2)
               /\ AtHead' = Expected'
    <3>1. pipe[1] = C!Unit(delivered + 1, g + 3) /\ \A i \in 1 .. g : got[i] = C!Unit(delivered + 1, i + 2)
      BY <1>0, <2>1, <2>8 DEF InStep, C!Ended, C!AtEof, Expected, AtHead, g
    <3>2. pipe[1].frame = delivered + 1 /\ pipe[1].at = g + 3
      BY <3>1 DEF C!Unit
    <3>3. ASSUME NEW i \in 1 .. m
          PROVE  pipe[i] = C!Unit(delivered + 1, g + i + 2)
      <4>1. i \in 1 .. Len(pipe) /\ g + 3 + i - 1 <= FrameLen + 2 /\ g + 3 + i - 1 = g + i + 2
        BY <1>0, <2>1, <2>4, LenProperties
      <4> QED
        BY <1>0, <2>1, <3>2, <4>1, InsideFrame
    <3>4. ASSUME NEW i \in 1 .. g + m
          PROVE  got'[i] = C!Unit(delivered + 1, i + 2)
      <4>1. CASE i <= g
        BY <2>1, <2>4, <2>6, <3>1, <4>1
      <4>2. CASE ~(i <= g)
        <5>1. i - g \in 1 .. m /\ g + (i - g) + 2 = i + 2
          BY <2>1, <2>4, <4>2
        <5>2. got'[i] = pipe[i - g]
          BY <2>4, <2>6, <4>2, <5>1
        <5>3. pipe[i - g] = C!Unit(delivered + 1, g + (i - g) + 2)
          BY <3>3, <5>1
        <5> QED
          BY <5>1, <5>2, <5>3
      <4> QED
        BY <4>1, <4>2
    <3>5. pipe[m].frame = delivered + 1 /\ pipe[m].at = g + m + 2 /\ g + m <= FrameLen
      <4>1. m \in 1 .. m
        BY <2>4
      <4>2. pipe[m] = C!Unit(delivered + 1, g + m + 2)
        BY <3>3, <4>1, Zenon
      <4>3. g + m <= FrameLen
        BY <1>0, <2>1, <2>4
      <4> QED
        BY <4>2, <4>3 DEF C!Unit
    <3>6. CASE g + m = FrameLen
      <4>1. reader' = "header" /\ delivered' = delivered
        BY <2>1, <2>6, <3>6
      <4>2. After(pipe[m]) = C!Unit(delivered + 2, 1)
        BY <2>1, <3>5, <3>6 DEF After
      <4> QED
        BY <2>5, <2>6, <3>4, <4>1, <4>2 DEF Expected, C!Unit
    <3>7. CASE g + m # FrameLen
      <4>1. reader' = "body" /\ delivered' = delivered
        BY <2>1, <2>6, <3>7
      <4>2. After(pipe[m]) = C!Unit(delivered + 1, g + m + 3)
        BY <1>0, <2>1, <2>4, <3>5, <3>7 DEF After
      <4> QED
        BY <2>5, <2>6, <3>4, <4>1, <4>2 DEF Expected, C!Unit
    <3> QED
      BY <3>6, <3>7
  <2>9. InStep'
    BY <2>1, <2>8 DEF InStep, C!Ended, C!AtEof, C!Unit
  <2> QED
    BY <2>3, <2>7, <2>9 DEF CInv
<1>3. CASE C!BodyEof \/ C!GivesUp
  <2>1. reader' = "stopped" /\ UNCHANGED <<capture, frame, unit, pipe, got, delivered, aligned>>
    BY <1>3 DEF C!BodyEof, C!GivesUp
  <2>2. C!TypeOK' /\ CaptureShape'
    BY <1>0, <2>1 DEF C!TypeOK, CaptureShape
  <2>3. Chained'
    BY <1>0, <2>1 DEF Chained, After, Behind, C!Unit, Coming
  <2> QED
    BY <2>1, <2>2, <2>3 DEF CInv, InStep, C!Ended
<1>4. CASE C!SizeChanged
  <2>1. /\ reader' = "stopped" /\ C!Consume(C!Chunk(2)) /\ UNCHANGED <<frame, unit>>
        /\ UNCHANGED <<capture, got, delivered, aligned>>
    BY <1>4 DEF C!SizeChanged
  <2>2. pipe' \in Seq(C!Units) /\ Len(pipe') <= PipeSize /\ Chained'
    BY <1>9, <2>1
  <2>3. C!TypeOK' /\ CaptureShape'
    BY <1>0, <2>1, <2>2 DEF C!TypeOK, CaptureShape
  <2> QED
    BY <2>1, <2>2, <2>3 DEF CInv, InStep, C!Ended
<1>5. CASE C!Deliver
  <2>1. /\ reader = "header" /\ (pipe # <<>> \/ C!AtEof)
        /\ C!Consume(C!Chunk(2)) /\ UNCHANGED <<frame, unit>> /\ UNCHANGED capture
        /\ delivered' = delivered + 1 /\ got' = <<>> /\ reader' = "body"
        /\ aligned' = (aligned /\ Len(C!Chunk(2)) # 1)
        /\ delivered \in Nat /\ Len(got') = 0 /\ aligned \in BOOLEAN
    BY <1>0, <1>5, EmptySeq DEF C!Deliver, C!TypeOK
  <2>2. pipe' \in Seq(C!Units) /\ Len(pipe') <= PipeSize /\ Chained'
    BY <1>9, <2>1
  <2>3. /\ Len(C!Chunk(2)) \in Nat /\ Len(C!Chunk(2)) <= 2
        /\ pipe # <<>> => Len(C!Chunk(2)) > 0
        /\ Len(C!Chunk(2)) <= Len(pipe) /\ Len(pipe') = Len(pipe) - Len(C!Chunk(2))
    BY <1>0, <2>1, ChunkFacts
  <2>4. C!TypeOK' /\ CaptureShape'
    <3>1. got' \in Seq(C!Units) /\ aligned' \in BOOLEAN
      BY <2>1, EmptySeq
    <3> QED
      BY <1>0, <2>1, <2>2, <3>1, Sizes DEF C!TypeOK, CaptureShape
  <2>5. ASSUME aligned', ~C!AtEof'
        PROVE  AtHead' = C!Unit(delivered + 2, 3)
    <3>1. pipe # <<>>
      <4>1. CASE pipe = <<>>
        <5>1. Len(pipe) = 0 /\ Len(pipe') = 0
          BY <2>3, <4>1, EmptySeq
        <5>2. pipe' = <<>>
          BY <2>2, <5>1, EmptySeq
        <5> QED
          BY <2>1, <2>5, <4>1, <5>2 DEF C!AtEof
      <4> QED
        BY <4>1
    <3>2. Len(C!Chunk(2)) = 2 /\ aligned
      <4>1. aligned /\ Len(C!Chunk(2)) # 1
        BY <2>1, <2>5, Zenon
      <4> DEFINE m == Len(C!Chunk(2))
      <4>2. m \in Nat /\ m <= 2 /\ m > 0 /\ m # 1
        BY <2>3, <3>1, <4>1
      <4> HIDE DEF m
      <4>3. m = 2
        BY <4>2
      <4> QED
        BY <4>1, <4>3 DEF m
    <3>3. AtHead = C!Unit(delivered + 2, 1) /\ delivered + 2 \in Nat
      BY <1>0, <2>1, <3>1, <3>2 DEF InStep, C!Ended, C!AtEof, Expected
    <3> QED
      BY <2>1, <3>1, <3>2, <3>3, HeaderRead
  <2>6. Expected' = C!Unit(delivered + 2, 3)
    BY <2>1 DEF Expected, C!Unit
  <2>7. InStep'
    BY <2>1, <2>5, <2>6 DEF InStep
  <2> QED
    BY <2>2, <2>4, <2>7 DEF CInv
<1> QED
  BY <1>1, <1>2, <1>3, <1>4, <1>5 DEF C!Reads

LEMMA StutterKeepsCInv == ASSUME CInv, UNCHANGED captureVars PROVE CInv'
<1>1. UNCHANGED <<capture, frame, unit, pipe, reader, got, delivered, aligned>>
  BY DEF captureVars
<1>2. C!TypeOK' /\ CaptureShape'
  BY <1>1 DEF CInv, C!TypeOK, CaptureShape
<1>3. Chained' /\ AtHead' = AtHead /\ Expected' = Expected
  BY <1>1 DEF CInv, Chained, After, Behind, C!Unit, Coming, AtHead, Expected
<1> QED
  BY <1>1, <1>2, <1>3 DEF CInv, InStep, C!AtEof, C!Ended, C!Unit

-----------------------------------------------------------------------------
(* The stream of pieces                                                    *)

\* v stands d pieces behind u.
Apart(u, v, d) == \/ v.nal = u.nal /\ d = v.at - u.at
                  \/ v.nal = u.nal + 1 /\ d = NalLen - u.at + v.at
                  \/ v.nal > u.nal + 1 /\ d >= 2 * NalLen - u.at + v.at

\* What ffmpeg has written or is about to and nal_sender has not cut off, the
\* unit it begins with, and the piece that ffmpeg makes next.
Flow == (buf \o stdout) \o pending
Cut == IF sender = "send" THEN Len(S!Sent) + 2 ELSE Len(S!Sent) + 1
Made == S!Piece(encoded + 1, 1)
Working == receiver = "alive" /\ sender \in {"read", "split", "send"}

StreamShape ==
    /\ encoded \in Nat
    /\ main = "write" => frames > encoded + stdin
    /\ sock \in Seq(S!Pieces) /\ received \in Seq(S!Pieces)

Ordered == Working =>
    /\ Flow # <<>> => Flow[1] = S!Piece(Cut, 1)
    /\ \A i, j \in 1 .. Len(Flow) : i <= j => Apart(Flow[i], Flow[j], j - i)
    /\ encoder = "running" =>
          /\ Flow = <<>> => Cut = encoded + 1
          /\ \A i \in 1 .. Len(Flow) : Apart(Flow[i], Made, Len(Flow) + 1 - i)

\* The unit after n whole ones, or the beginning of it, or the unit and the half
\* of the next one's start code.
Begins(n, packet) == /\ Len(packet) <= NalLen + 1
                     /\ packet = SubSeq(S!Nal(n + 1) \o S!Nal(n + 2), 1, Len(packet))

InHand ==
    /\ sender = "read" => S!NextStart = {}
    /\ receiver = "alive" /\ sender = "send" => nal = S!Nal(Len(S!Sent) + 1)
    /\ receiver = "alive" /\ sender = "flush" =>
          encoder = "dead" /\ Begins(Len(S!Sent), nal)
OnTheWay ==
    \A i \in 1 .. Len(S!Sent) :
        \/ S!Sent[i] = S!Nal(i)
        \/ i = Len(S!Sent) /\ encoder = "dead" /\ sender = "ended" /\ Begins(i - 1, S!Sent[i])

SInv == S!TypeOK /\ StreamShape /\ Ordered /\ InHand /\ OnTheWay

OnePiece == [nal : 1 .. 2 * MaxFrames, at : 1 .. NalLen]

LEMMA Pieced == S!Pieces = Seq(OnePiece)
  BY DEF S!Pieces, OnePiece

LEMMA InitSInv == S!Init => SInv
<1> SUFFICES ASSUME S!Init
             PROVE  SInv
  OBVIOUS
<1>1. /\ main = "capture" /\ frames = 0 /\ stdin = 0 /\ encoder = "running" /\ encoded = 0
      /\ pending = <<>> /\ stdout = <<>> /\ sender = "read" /\ buf = <<>> /\ nal = <<>>
      /\ sock = <<>> /\ open = TRUE /\ receiver = "alive" /\ received = <<>>
  BY DEF S!Init
<1>2. /\ <<>> \in S!Pieces /\ Len(<<>>) = 0 /\ <<>> \in Seq(S!Pieces)
      /\ <<>> \o <<>> = <<>>
  BY Pieced, EmptySeq, ConcatEmptySeq
<1>3. S!TypeOK
  BY <1>1, <1>2, Sizes DEF S!TypeOK
<1>4. StreamShape
  BY <1>1, <1>2 DEF StreamShape
<1>5. S!Sent = <<>> /\ Len(S!Sent) = 0
  BY <1>1, <1>2 DEF S!Sent
<1>6. Flow = <<>> /\ Len(Flow) = 0
  BY <1>1, <1>2 DEF Flow
<1>7. S!NextStart = {}
  BY <1>1, <1>2 DEF S!NextStart
<1> QED
  BY <1>1, <1>3, <1>4, <1>5, <1>6, <1>7 DEF SInv, Ordered, InHand, OnTheWay, Cut

\* What the two sequences that the invariant speaks of are made of.
LEMMA FlowFacts ==
    ASSUME S!TypeOK
    PROVE  /\ Flow \in Seq(OnePiece)
           /\ Len(Flow) = Len(buf) + Len(stdout) + Len(pending)
           /\ Len(buf) \in Nat /\ Len(stdout) \in Nat /\ Len(pending) \in Nat
           /\ \A i \in 1 .. Len(buf) : Flow[i] = buf[i]
<1>1. buf \in Seq(OnePiece) /\ stdout \in Seq(OnePiece) /\ pending \in Seq(OnePiece)
  BY Pieced DEF S!TypeOK
<1>2. Len(buf) \in Nat /\ Len(stdout) \in Nat /\ Len(pending) \in Nat
  BY <1>1, LenProperties
<1>3. /\ buf \o stdout \in Seq(OnePiece) /\ Len(buf \o stdout) = Len(buf) + Len(stdout)
      /\ \A i \in 1 .. Len(buf) + Len(stdout) :
            (buf \o stdout)[i] = IF i <= Len(buf) THEN buf[i] ELSE stdout[i - Len(buf)]
  BY <1>1, ConcatProperties
<1> DEFINE s == buf \o stdout
<1>4. /\ s \o pending \in Seq(OnePiece) /\ Len(s \o pending) = Len(s) + Len(pending)
      /\ \A i \in 1 .. Len(s) + Len(pending) :
            (s \o pending)[i] = IF i <= Len(s) THEN s[i] ELSE pending[i - Len(s)]
  BY <1>1, <1>3, ConcatProperties
<1>5. \A i \in 1 .. Len(buf) : (s \o pending)[i] = buf[i]
  BY <1>2, <1>3, <1>4
<1> QED
  BY <1>2, <1>3, <1>4, <1>5 DEF Flow

LEMMA SentFacts ==
    ASSUME StreamShape
    PROVE  /\ S!Sent \in Seq(S!Pieces) /\ Len(S!Sent) \in Nat
           /\ Len(S!Sent) = Len(received) + Len(sock)
           /\ Len(received) \in Nat /\ Len(sock) \in Nat
  BY ConcatProperties, LenProperties DEF StreamShape, S!Sent

LEMMA NalFacts ==
    ASSUME NEW n \in 1 .. 2 * MaxFrames
    PROVE  /\ S!Nal(n) \in Seq(OnePiece) /\ Len(S!Nal(n)) = NalLen
           /\ \A k \in 1 .. NalLen : S!Nal(n)[k] = S!Piece(n, k)
<1>1. S!Nal(n) = [k \in 1 .. NalLen |-> S!Piece(n, k)]
  BY DEF S!Nal
<1>2. \A k \in 1 .. NalLen : S!Piece(n, k) \in OnePiece
  BY DEF S!Piece, OnePiece
<1>3. S!Nal(n) \in [1 .. NalLen -> OnePiece]
  BY <1>1, <1>2
<1>4. S!Nal(n) \in Seq(OnePiece) /\ Len(S!Nal(n)) = NalLen
  BY <1>3, Sizes
<1> QED
  BY <1>1, <1>4

\* A unit and the next one.
AnyPiece == [nal : Nat, at : 1 .. NalLen]

LEMMA TwoNals ==
    ASSUME NEW n \in Nat
    PROVE  LET s == S!Nal(n) \o S!Nal(n + 1)
           IN  /\ \A i \in 1 .. NalLen : s[i] = S!Piece(n, i)
               /\ s[NalLen + 1] = S!Piece(n + 1, 1)
               /\ \A i \in 1 .. NalLen + 1 : s[i] \in AnyPiece
<1>1. ASSUME NEW m \in Nat
      PROVE  /\ S!Nal(m) \in Seq(AnyPiece) /\ Len(S!Nal(m)) = NalLen
             /\ \A k \in 1 .. NalLen : S!Nal(m)[k] = S!Piece(m, k)
  <2>1. S!Nal(m) = [k \in 1 .. NalLen |-> S!Piece(m, k)]
    BY DEF S!Nal
  <2>2. \A k \in 1 .. NalLen : S!Piece(m, k) \in AnyPiece
    BY DEF S!Piece, AnyPiece
  <2>3. S!Nal(m) \in [1 .. NalLen -> AnyPiece]
    BY <2>1, <2>2
  <2> QED
    BY <2>1, <2>3, Sizes
<1> DEFINE u == S!Nal(n)
           v == S!Nal(n + 1)
<1>2. /\ u \in Seq(AnyPiece) /\ Len(u) = NalLen /\ \A k \in 1 .. NalLen : u[k] = S!Piece(n, k)
      /\ v \in Seq(AnyPiece) /\ Len(v) = NalLen /\ \A k \in 1 .. NalLen : v[k] = S!Piece(n + 1, k)
  BY <1>1
<1> HIDE DEF u, v
<1>3. /\ u \o v \in Seq(AnyPiece) /\ Len(u \o v) = NalLen + NalLen
      /\ \A i \in 1 .. NalLen + NalLen : (u \o v)[i] = IF i <= NalLen THEN u[i] ELSE v[i - NalLen]
  <2>1. /\ u \o v \in Seq(AnyPiece) /\ Len(u \o v) = Len(u) + Len(v)
        /\ \A i \in 1 .. Len(u) + Len(v) : (u \o v)[i] = IF i <= Len(u) THEN u[i] ELSE v[i - Len(u)]
    BY <1>2, ConcatProperties
  <2>2. Len(u) = NalLen /\ Len(v) = NalLen
    BY <1>2
  <2> QED
    BY ONLY <2>1, <2>2
<1>4. /\ NalLen \in Nat /\ NalLen > 2
      /\ \A i \in 1 .. NalLen : i \in 1 .. NalLen + NalLen /\ i <= NalLen
      /\ NalLen + 1 \in 1 .. NalLen + NalLen /\ ~(NalLen + 1 <= NalLen)
      /\ NalLen + 1 - NalLen = 1 /\ 1 \in 1 .. NalLen
      /\ \A i \in 1 .. NalLen + 1 : i \in 1 .. NalLen + NalLen
  BY Sizes
<1>5. \A i \in 1 .. NalLen : (u \o v)[i] = S!Piece(n, i)
  BY <1>2, <1>3, <1>4
<1>6. (u \o v)[NalLen + 1] = S!Piece(n + 1, 1)
  BY <1>2, <1>3, <1>4
<1>7. \A i \in 1 .. NalLen + 1 : (u \o v)[i] \in AnyPiece
  BY <1>3, <1>4, ElementOfSeq
<1> QED
  BY <1>5, <1>6, <1>7 DEF u, v

\* The start code that find returns is the first one.
LEMMA FirstStart ==
    ASSUME buf \in Seq(OnePiece), S!NextStart # {}
    PROVE  LET p == S!First(S!NextStart)
           IN  p \in 3 .. Len(buf) - 1 /\ buf[p].at = 1 /\ \A j \in S!NextStart : p <= j
<1> DEFINE R == {ss \in Nat \X Nat : ss[1] < ss[2]}
           T == S!NextStart
<1>1. IsWellFoundedOn(R, Nat)
  BY NatLessThanWellFounded DEF OpToRel
<1>2. T \subseteq Nat /\ T \subseteq 3 .. Len(buf) - 1 /\ T # {}
  BY LenProperties DEF S!NextStart
<1>3. PICK n \in T : \A m \in T : <<m, n>> \notin R
  <2> HIDE DEF R, T
  <2> QED
    BY <1>1, <1>2, WFMin
<1>4. ASSUME NEW m \in T
      PROVE  n <= m
  <2>1. m \in Nat /\ n \in Nat /\ <<m, n>> \notin R
    <3> HIDE DEF R, T
    <3> QED
      BY <1>2, <1>3
  <2>2. ~(m < n)
    BY <2>1
  <2> QED
    BY <2>1, <2>2
<1>5. S!First(T) \in T /\ \A m \in T : S!First(T) <= m
  <2> HIDE DEF T
  <2> QED
    BY <1>4 DEF S!First
<1>6. \A m \in T : buf[m].at = 1
  BY DEF S!NextStart
<1> QED
  BY <1>2, <1>5, <1>6

-----------------------------------------------------------------------------
(* Types                                                                   *)

LEMMA SourceTypes ==
    ASSUME S!TypeOK, StreamShape,
           \/ S!Capture \/ S!Stop \/ S!Quit \/ S!WriteStdin \/ S!CloseSocket \/ S!Exit
           \/ S!Encode \/ S!WriteStdout \/ S!EncoderDies
    PROVE  S!TypeOK' /\ StreamShape'
<1> USE DEF S!source, S!ffmpeg, S!thread, S!link
<1>1. /\ buf \in Seq(OnePiece) /\ stdout \in Seq(OnePiece) /\ pending \in Seq(OnePiece)
      /\ <<>> \in S!Pieces /\ Len(<<>>) = 0
      /\ encoded \in Nat /\ stdin \in Nat /\ frames \in Nat
  BY Pieced, EmptySeq, Sizes DEF S!TypeOK, StreamShape
<1>2. CASE S!Capture \/ S!Stop \/ S!Quit \/ S!CloseSocket \/ S!EncoderDies
  <2>1. S!TypeOK'
    <3>1. CASE S!Capture
      BY <1>1, <3>1, Sizes DEF S!TypeOK, S!Capture
    <3>2. CASE S!Stop
      BY <1>1, <3>2, Sizes DEF S!TypeOK, S!Stop
    <3>3. CASE S!CloseSocket
      BY <3>3 DEF S!TypeOK, S!CloseSocket
    <3>4. CASE S!EncoderDies
      BY <1>1, <3>4, Sizes DEF S!TypeOK, S!EncoderDies
    <3>5. CASE S!Quit
      BY <3>5 DEF S!TypeOK, S!Quit
    <3> QED
      BY <1>2, <3>1, <3>2, <3>3, <3>4, <3>5
  <2>2. StreamShape'
    BY <1>1, <1>2, Sizes DEF S!TypeOK, StreamShape, S!Capture, S!Stop, S!Quit, S!CloseSocket, S!EncoderDies
  <2> QED
    BY <2>1, <2>2
<1>3. CASE S!WriteStdin
  <2>1. S!TypeOK'
    BY <1>1, <1>3, Sizes DEF S!TypeOK, StreamShape, S!WriteStdin
  <2>2. StreamShape'
    BY <1>1, <1>3, Sizes DEF S!TypeOK, StreamShape, S!WriteStdin
  <2> QED
    BY <2>1, <2>2
<1>4. CASE S!Exit
  <2>1. S!TypeOK'
    BY <1>1, <1>4, Sizes DEF S!TypeOK, S!Exit
  <2>2. StreamShape'
    BY <1>1, <1>4, Sizes DEF StreamShape, S!Exit
  <2> QED
    BY <2>1, <2>2
<1>5. CASE S!Encode
  <2>1. /\ stdin > 0 /\ stdin' = stdin - 1 /\ encoded' = encoded + 1
        /\ pending' = S!Nal(encoded + 1)
        /\ UNCHANGED <<main, frames, encoder, stdout, sender, buf, nal>>
        /\ UNCHANGED <<sock, open, receiver, received>>
    BY <1>5 DEF S!Encode
  <2>2. encoded + 1 \in 1 .. 2 * MaxFrames
    BY <1>1, <2>1, Sizes DEF S!TypeOK
  <2>3. pending' \in S!Pieces
    BY <2>1, <2>2, NalFacts, Pieced
  <2>4. S!TypeOK'
    BY <1>1, <2>1, <2>3, Sizes DEF S!TypeOK
  <2>5. StreamShape'
    BY <1>1, <2>1 DEF S!TypeOK, StreamShape
  <2> QED
    BY <2>4, <2>5
<1>6. CASE S!WriteStdout
  <2>1. /\ pending # <<>> /\ Len(stdout) < StdoutSize
        /\ stdout' = Append(stdout, Head(pending)) /\ pending' = Tail(pending)
        /\ UNCHANGED <<main, frames, stdin, encoder, encoded, sender, buf, nal>>
        /\ UNCHANGED <<sock, open, receiver, received>>
    BY <1>6 DEF S!WriteStdout
  <2>2. Head(pending) \in OnePiece /\ Tail(pending) \in Seq(OnePiece)
    BY <1>1, <2>1, HeadTailProperties
  <2>3. /\ stdout' \in Seq(OnePiece) /\ Len(stdout') = Len(stdout) + 1
        /\ Len(stdout) \in Nat
    BY <1>1, <2>1, <2>2, AppendProperties, LenProperties
  <2>4. S!TypeOK'
    BY <1>1, <2>1, <2>2, <2>3, Sizes, Pieced DEF S!TypeOK
  <2>5. StreamShape'
    BY <1>1, <2>1 DEF StreamShape
  <2> QED
    BY <2>4, <2>5
<1> QED
  BY <1>2, <1>3, <1>4, <1>5, <1>6

LEMMA SenderTypes ==
    ASSUME S!TypeOK, StreamShape, S!Sender
    PROVE  S!TypeOK' /\ StreamShape'
<1> USE DEF S!source, S!ffmpeg, S!thread, S!link
<1>1. /\ buf \in Seq(OnePiece) /\ stdout \in Seq(OnePiece) /\ nal \in Seq(OnePiece)
      /\ <<>> \in S!Pieces /\ <<>> \in Seq(OnePiece) /\ Len(<<>>) = 0
  BY Pieced, EmptySeq DEF S!TypeOK
<1>2. CASE S!ReadChunk
  <2>1. buf \o stdout \in S!Pieces
    BY <1>1, ConcatProperties, Pieced
  <2>2. S!TypeOK'
    BY <1>1, <1>2, <2>1, Sizes DEF S!TypeOK, S!ReadChunk
  <2>3. StreamShape'
    BY <1>2 DEF StreamShape, S!ReadChunk
  <2> QED
    BY <2>2, <2>3
<1>3. CASE S!ReadEof
  <2>1. Len(buf) > 2 => buf # <<>>
    BY <1>1
  <2>2. S!TypeOK'
    BY <1>1, <1>3, <2>1 DEF S!TypeOK, S!ReadEof
  <2>3. StreamShape'
    BY <1>3 DEF StreamShape, S!ReadEof
  <2> QED
    BY <2>2, <2>3
<1>4. CASE S!Split
  <2>1. StreamShape'
    BY <1>4 DEF StreamShape, S!Split
  <2>2. CASE S!NextStart = {}
    <3>1. /\ sender' = "read" /\ UNCHANGED <<buf, nal>>
          /\ UNCHANGED <<main, frames, stdin, encoder, encoded, pending, stdout>>
          /\ UNCHANGED <<sock, open, receiver, received>>
      BY <1>4, <2>2 DEF S!Split
    <3> QED
      BY <2>1, <3>1 DEF S!TypeOK
  <2>3. CASE S!NextStart # {}
    <3> DEFINE p == S!First(S!NextStart)
    <3>1. p \in 3 .. Len(buf) - 1 /\ Len(buf) \in Nat
      BY <1>1, <2>3, FirstStart, LenProperties
    <3>2. /\ nal' = SubSeq(buf, 1, p - 1) /\ buf' = SubSeq(buf, p, Len(buf))
          /\ sender' = (IF Len(nal') > 2 THEN "send" ELSE "split")
          /\ UNCHANGED <<main, frames, stdin, encoder, encoded, pending, stdout>>
          /\ UNCHANGED <<sock, open, receiver, received>>
      BY <1>4, <2>3 DEF S!Split
    <3> HIDE DEF p
    <3>3. \A i \in 1 .. Len(buf) : buf[i] \in OnePiece
      BY <1>1, ElementOfSeq
    <3>4. nal' \in Seq(OnePiece) /\ buf' \in Seq(OnePiece)
      BY <3>1, <3>2, <3>3, SubSeqProperties
    <3>9. Len(nal') > 2 => nal' # <<>>
      BY <1>1
    <3>5. sender' \in {"send", "split"} /\ (sender' = "send" => nal' # <<>>)
      BY <3>2, <3>9
    <3>6. nal' \in S!Pieces /\ buf' \in S!Pieces
      BY <3>4, Pieced
    <3> HIDE DEF p
    <3>7. UNCHANGED <<main, frames, stdin, encoder, encoded, pending, stdout>>
      BY <3>2
    <3>8. UNCHANGED <<sock, open, receiver, received>>
      BY <3>2
    <3> QED
      BY <2>1, <3>5, <3>6, <3>7, <3>8 DEF S!TypeOK
  <2> QED
    BY <2>1, <2>2, <2>3
<1>5. CASE S!Send
  <2>1. /\ Len(sock) < SockSize /\ sock' = Append(sock, nal) /\ nal' = <<>>
        /\ sender' = (IF sender = "send" THEN "split" ELSE "ended")
        /\ UNCHANGED <<main, frames, stdin, encoder, encoded, pending, stdout>>
        /\ UNCHANGED <<buf, open, receiver, received>>
    BY <1>5 DEF S!Send
  <2>2. sock' \in Seq(S!Pieces) /\ Len(sock') = Len(sock) + 1 /\ Len(sock) \in Nat
    <3>1. sock \in Seq(S!Pieces) /\ nal \in S!Pieces
      BY DEF S!TypeOK, StreamShape
    <3> QED
      BY <2>1, <3>1, AppendProperties, LenProperties
  <2>3. S!TypeOK'
    BY <1>1, <2>1, <2>2, Sizes DEF S!TypeOK
  <2>4. StreamShape'
    BY <2>1, <2>2 DEF StreamShape
  <2> QED
    BY <2>3, <2>4
<1>6. CASE S!SendFails
  <2>1. S!TypeOK'
    BY <1>1, <1>6 DEF S!TypeOK, S!SendFails
  <2>2. StreamShape'
    BY <1>6 DEF StreamShape, S!SendFails
  <2> QED
    BY <2>1, <2>2
<1> QED
  BY <1>2, <1>3, <1>4, <1>5, <1>6 DEF S!Sender

LEMMA ReceiverTypes ==
    ASSUME S!TypeOK, StreamShape, S!Receiver \/ S!ReceiverGone
    PROVE  S!TypeOK' /\ StreamShape' /\ (S!Receive => S!Sent' = S!Sent)
<1> USE DEF S!source, S!ffmpeg, S!thread, S!link
<1>1. sock \in Seq(S!Pieces) /\ received \in Seq(S!Pieces) /\ Len(sock) \in Nat
  BY LenProperties DEF StreamShape
<1>2. ASSUME S!Receive
      PROVE  S!TypeOK' /\ StreamShape' /\ S!Sent' = S!Sent
  <2>1. /\ sock # <<>> /\ sock' = Tail(sock) /\ received' = Append(received, Head(sock))
        /\ UNCHANGED <<main, frames, stdin, encoder, encoded, pending, stdout>>
        /\ UNCHANGED <<sender, buf, nal, open, receiver>>
    BY <1>2 DEF S!Receive
  <2>2. /\ Head(sock) \in S!Pieces /\ Tail(sock) \in Seq(S!Pieces)
        /\ Len(Tail(sock)) = Len(sock) - 1
    BY <1>1, <2>1, HeadTailProperties
  <2>3. received' \in Seq(S!Pieces)
    BY <1>1, <2>1, <2>2, AppendProperties
  <2>4. S!TypeOK'
    BY <1>1, <2>1, <2>2, Sizes DEF S!TypeOK
  <2>5. StreamShape'
    BY <2>1, <2>2, <2>3 DEF StreamShape
  <2>6. Append(received, Head(sock)) \o Tail(sock) = received \o sock
    <3>1. Append(received, Head(sock)) = received \o <<Head(sock)>>
      BY <1>1, <2>2, AppendIsConcat
    <3>2. <<Head(sock)>> \in Seq(S!Pieces)
      BY <2>2
    <3>3. (received \o <<Head(sock)>>) \o Tail(sock) = received \o (<<Head(sock)>> \o Tail(sock))
      BY <1>1, <2>2, <3>2, ConcatAssociative
    <3>4. <<Head(sock)>> \o Tail(sock) = sock
      BY <1>1, <2>1
    <3> QED
      BY <3>1, <3>3, <3>4
  <2> QED
    BY <2>1, <2>4, <2>5, <2>6 DEF S!Sent
<1>3. ASSUME S!ReceiverDone
      PROVE  S!TypeOK' /\ StreamShape'
  <2>1. S!TypeOK'
    BY <1>3 DEF S!TypeOK, S!ReceiverDone
  <2>2. StreamShape'
    BY <1>3 DEF StreamShape, S!ReceiverDone
  <2> QED
    BY <2>1, <2>2
<1>4. ASSUME S!ReceiverGone
      PROVE  S!TypeOK' /\ StreamShape'
  <2>1. <<>> \in Seq(S!Pieces) /\ Len(<<>>) = 0
    BY EmptySeq
  <2>2. S!TypeOK'
    BY <1>4, <2>1, Sizes DEF S!TypeOK, S!ReceiverGone
  <2>3. StreamShape'
    BY <1>4, <2>1 DEF StreamShape, S!ReceiverGone
  <2> QED
    BY <2>2, <2>3
<1> QED
  BY <1>2, <1>3, <1>4 DEF S!Receiver

-----------------------------------------------------------------------------
(* The order of the stream                                                 *)

\* What stands where in nal_sender's buf.
LEMMA Place ==
    ASSUME S!TypeOK, Ordered, Working, NEW i \in 1 .. Len(buf)
    PROVE  /\ i <= NalLen => buf[i] = S!Piece(Cut, i)
           /\ i = NalLen + 1 => buf[i] = S!Piece(Cut + 1, 1)
           /\ i = NalLen + 2 => buf[i] = S!Piece(Cut + 1, 2)
<1>1. /\ Flow \in Seq(OnePiece) /\ Flow[i] = buf[i] /\ 1 \in 1 .. Len(Flow) /\ i \in 1 .. Len(Flow)
      /\ i \in Nat /\ i > 0 /\ Flow # <<>>
  <2>1. /\ Flow \in Seq(OnePiece) /\ Flow[i] = buf[i] /\ i \in Nat /\ i > 0
        /\ Len(Flow) \in Nat /\ i <= Len(Flow)
    BY FlowFacts
  <2>2. Flow # <<>>
    BY <2>1, EmptySeq
  <2> QED
    BY <2>1, <2>2
<1>2. Flow[1] = S!Piece(Cut, 1) /\ Apart(Flow[1], Flow[i], i - 1)
  BY <1>1 DEF Ordered
<1>3. Flow[1].nal = Cut /\ Flow[1].at = 1
  BY <1>2 DEF S!Piece
<1>4. Flow[i] \in OnePiece /\ Flow[1] \in OnePiece
  BY <1>1, ElementOfSeq
<1>5. Flow[i].nal \in Nat /\ Flow[i].at \in 1 .. NalLen /\ Cut \in Nat /\ NalLen \in Nat /\ NalLen > 2
  BY <1>3, <1>4, Sizes DEF OnePiece
<1>9. \/ Flow[i].nal = Cut /\ i - 1 = Flow[i].at - 1
      \/ Flow[i].nal = Cut + 1 /\ i - 1 = NalLen - 1 + Flow[i].at
      \/ i - 1 >= 2 * NalLen - 1 + Flow[i].at
  BY <1>2, <1>3 DEF Apart
<1>10. i \in Nat /\ i > 0
  BY <1>1
<1>6. i <= NalLen => Flow[i].nal = Cut /\ Flow[i].at = i
  BY <1>5, <1>9, <1>10
<1>7. i = NalLen + 1 => Flow[i].nal = Cut + 1 /\ Flow[i].at = 1
  BY <1>5, <1>9, <1>10
<1>11. i = NalLen + 2 => Flow[i].nal = Cut + 1 /\ Flow[i].at = 2
  BY <1>5, <1>9, <1>10
<1>8. Flow[i] = S!Piece(Flow[i].nal, Flow[i].at)
  BY <1>4 DEF OnePiece, S!Piece
<1> QED
  BY <1>1, <1>6, <1>7, <1>8, <1>11

\* find stops at the end of the first unit; when it finds nothing, there is
\* one unit at most, and the half of a start code.
LEMMA FoundAt ==
    ASSUME S!TypeOK, Ordered, Working
    PROVE  /\ S!NextStart # {} => S!First(S!NextStart) = NalLen + 1
           /\ S!NextStart = {} => Len(buf) <= NalLen + 1
<1>1. Len(buf) \in Nat /\ buf \in Seq(OnePiece) /\ NalLen \in Nat /\ NalLen > 2
  BY FlowFacts, Pieced, Sizes DEF S!TypeOK
<1>2. ASSUME Len(buf) > NalLen + 1
      PROVE  NalLen + 1 \in S!NextStart
  <2>1. /\ NalLen + 1 \in 1 .. Len(buf) /\ NalLen + 2 \in 1 .. Len(buf)
        /\ NalLen + 1 \in 3 .. Len(buf) - 1 /\ NalLen + 1 + 1 = NalLen + 2
    BY <1>1, <1>2
  <2>2. buf[NalLen + 1] = S!Piece(Cut + 1, 1) /\ buf[NalLen + 2] = S!Piece(Cut + 1, 2)
    BY <2>1, Place
  <2>3. buf[NalLen + 1].at = 1 /\ buf[NalLen + 1 + 1].at = 2
    BY <2>1, <2>2 DEF S!Piece
  <2> QED
    BY <2>1, <2>3 DEF S!NextStart
<1>3. ASSUME S!NextStart # {}
      PROVE  S!First(S!NextStart) = NalLen + 1
  <2> DEFINE p == S!First(S!NextStart)
  <2>1. p \in 3 .. Len(buf) - 1 /\ buf[p].at = 1 /\ \A j \in S!NextStart : p <= j
    BY <1>1, <1>3, FirstStart
  <2> HIDE DEF p
  <2>2. p > NalLen
    <3>1. p \in 1 .. Len(buf)
      BY <2>1
    <3>2. p <= NalLen => buf[p] = S!Piece(Cut, p)
      BY <3>1, Place
    <3>3. p <= NalLen => buf[p].at = p
      BY <3>2 DEF S!Piece
    <3>4. p \in Nat /\ p > 1
      BY <2>1
    <3> QED
      BY <1>1, <2>1, <3>3, <3>4
  <2>3. NalLen + 1 \in S!NextStart
    BY <1>1, <1>2, <2>1, <2>2
  <2>4. p = NalLen + 1
    BY <1>1, <2>1, <2>2, <2>3
  <2> QED
    BY <2>4 DEF p
<1> QED
  BY <1>1, <1>2, <1>3

\* Steps that leave the stream as it is.
LEMMA SameFlow ==
    ASSUME Ordered, Working' => Working /\ Cut' = Cut, Flow' = Flow,
           encoder' = encoder, encoded' = encoded
    PROVE  Ordered'
<1>1. Made' = Made
  BY DEF Made, S!Piece
<1> QED
  BY <1>1 DEF Ordered, S!Piece

LEMMA SamePackets ==
    ASSUME OnTheWay, S!Sent' = S!Sent, encoder = "dead" => encoder' = "dead",
           sender = "ended" => sender' = "ended"
    PROVE  OnTheWay'
  BY DEF OnTheWay, Begins

\* Those outside ffmpeg and nal_sender, and a step of neither program.
LEMMA OutsideSteps ==
    ASSUME SInv, S!Capture \/ S!WriteStdin \/ S!CloseSocket \/ S!Receive \/ S!ReceiverDone
                 \/ UNCHANGED streamVars
    PROVE  Ordered' /\ InHand' /\ OnTheWay'
<1> USE DEF S!source, S!ffmpeg, S!thread, S!link
<1>1. /\ UNCHANGED <<buf, stdout, pending>> /\ UNCHANGED <<sender, nal, encoder, encoded>>
      /\ receiver' = "alive" => receiver = "alive"
  BY DEF S!Capture, S!WriteStdin, S!CloseSocket, S!Receive, S!ReceiverDone, streamVars
<1>2. S!Sent' = S!Sent
  <2>1. S!Receive => S!Sent' = S!Sent
    BY ReceiverTypes DEF SInv, S!Receiver
  <2>2. ~S!Receive => UNCHANGED <<sock, received>>
    BY DEF S!Capture, S!WriteStdin, S!CloseSocket, S!ReceiverDone, streamVars
  <2> QED
    BY <2>1, <2>2 DEF S!Sent
<1>3. Flow' = Flow /\ Cut' = Cut /\ (Working' => Working) /\ S!NextStart' = S!NextStart
  BY <1>1, <1>2 DEF Flow, Cut, Working, S!NextStart
<1>4. Ordered'
  BY <1>1, <1>3, SameFlow DEF SInv
<1>5. InHand'
  BY <1>1, <1>2, <1>3 DEF SInv, InHand, Begins
<1>6. OnTheWay'
  BY <1>1, <1>2, SamePackets DEF SInv
<1> QED
  BY <1>4, <1>5, <1>6

\* Those that end nal_sender.
LEMMA SenderEnds ==
    ASSUME SInv, S!Exit \/ S!SendFails \/ S!Quit
    PROVE  Ordered' /\ InHand' /\ OnTheWay'
<1> USE DEF S!source, S!ffmpeg, S!thread, S!link
<1>1. /\ sender' = "ended" /\ UNCHANGED <<sock, received>>
      /\ encoder = "dead" => encoder' = "dead"
  BY DEF S!Exit, S!SendFails, S!Quit
<1>2. S!Sent' = S!Sent
  BY <1>1 DEF S!Sent
<1>3. OnTheWay'
  BY <1>1, <1>2, SamePackets DEF SInv
<1>4. Ordered' /\ InHand'
  BY <1>1 DEF Ordered, InHand, Working
<1> QED
  BY <1>3, <1>4

LEMMA ReceiverLeaves ==
    ASSUME SInv, S!ReceiverGone
    PROVE  Ordered' /\ InHand' /\ OnTheWay'
<1> USE DEF S!source, S!ffmpeg, S!thread, S!link
<1>1. /\ receiver' = "gone" /\ sock' = <<>>
      /\ UNCHANGED <<sender, buf, nal, encoder>> /\ UNCHANGED received
  BY DEF S!ReceiverGone
<1>2. Ordered' /\ InHand'
  BY <1>1 DEF SInv, Ordered, InHand, Working, S!NextStart
<1>3. sock \in Seq(S!Pieces) /\ received \in Seq(S!Pieces)
  BY DEF SInv, StreamShape
<1>4. S!Sent' = received
  BY <1>1, <1>3, ConcatEmptySeq DEF S!Sent
<1>5. /\ Len(received) \in Nat /\ Len(S!Sent) \in Nat /\ Len(received) <= Len(S!Sent)
      /\ \A i \in 1 .. Len(received) : S!Sent[i] = received[i]
  <2>1. /\ Len(received) \in Nat /\ Len(sock) \in Nat
        /\ Len(S!Sent) = Len(received) + Len(sock)
        /\ \A i \in 1 .. Len(received) + Len(sock) :
              S!Sent[i] = IF i <= Len(received) THEN received[i] ELSE sock[i - Len(received)]
    BY <1>3, ConcatProperties, LenProperties DEF S!Sent
  <2> QED
    BY <2>1
<1>6. OnTheWay'
  <2> SUFFICES ASSUME NEW i \in 1 .. Len(received)
               PROVE  \/ received[i] = S!Nal(i)
                      \/ /\ i = Len(received) /\ encoder = "dead" /\ sender = "ended"
                         /\ Begins(i - 1, received[i])
    BY <1>1, <1>4 DEF OnTheWay, Begins
  <2>1. i \in 1 .. Len(S!Sent) /\ S!Sent[i] = received[i] /\ (i = Len(S!Sent) => i = Len(received))
    BY <1>5
  <2>2. \/ S!Sent[i] = S!Nal(i)
        \/ i = Len(S!Sent) /\ encoder = "dead" /\ sender = "ended" /\ Begins(i - 1, S!Sent[i])
    BY <2>1 DEF SInv, OnTheWay
  <2> QED
    BY <2>1, <2>2
<1> QED
  BY <1>2, <1>6

\* Those that end ffmpeg: what it held is lost from the end of the stream.
LEMMA EncoderEnds ==
    ASSUME SInv, S!Stop \/ S!EncoderDies
    PROVE  Ordered' /\ InHand' /\ OnTheWay'
<1> USE DEF S!source, S!ffmpeg, S!thread, S!link
<1>1. /\ encoder' = "dead" /\ pending' = <<>>
      /\ UNCHANGED <<encoded, stdout, sender, buf, nal>> /\ UNCHANGED <<sock, receiver, received>>
  BY DEF S!Stop, S!EncoderDies
<1>2. S!Sent' = S!Sent
  BY <1>1 DEF S!Sent
<1>3. OnTheWay'
  BY <1>1, <1>2, SamePackets DEF SInv
<1>4. InHand'
  BY <1>1, <1>2 DEF SInv, InHand, S!NextStart, Begins
<1>5. Cut' = Cut /\ Working' = Working
  BY <1>1, <1>2 DEF Cut, Working
<1>6. /\ Len(Flow') \in Nat /\ Len(Flow) \in Nat /\ Len(Flow') <= Len(Flow)
      /\ \A i \in 1 .. Len(Flow') : Flow'[i] = Flow[i]
      /\ Flow' # <<>> => Flow # <<>> /\ 1 \in 1 .. Len(Flow')
  <2> DEFINE s == buf \o stdout
  <2>1. buf \in Seq(OnePiece) /\ stdout \in Seq(OnePiece) /\ pending \in Seq(OnePiece)
    BY Pieced DEF SInv, S!TypeOK
  <2>2. s \in Seq(OnePiece) /\ Len(s) \in Nat /\ Len(pending) \in Nat
    BY <2>1, ConcatProperties, LenProperties
  <2>3. Flow' = s
    BY <1>1, <2>2, ConcatEmptySeq DEF Flow
  <2>4. Flow = s \o pending
    BY DEF Flow
  <2> HIDE DEF s
  <2>5. /\ Len(Flow) = Len(s) + Len(pending) /\ Flow \in Seq(OnePiece)
        /\ \A i \in 1 .. Len(s) + Len(pending) :
              Flow[i] = IF i <= Len(s) THEN s[i] ELSE pending[i - Len(s)]
    BY <2>1, <2>2, <2>4, ConcatProperties
  <2>6. s # <<>> => Len(s) \in Nat \ {0}
    BY <2>2, EmptySeq
  <2>7. Flow = <<>> => Len(Flow) = 0
    BY EmptySeq
  <2>8. \A i \in 1 .. Len(s) : Flow[i] = s[i]
    BY <2>2, <2>5
  <2> QED
    BY <2>2, <2>3, <2>5, <2>6, <2>7, <2>8
<1>7. Ordered'
  <2> SUFFICES ASSUME Working'
               PROVE  /\ Flow' # <<>> => Flow'[1] = S!Piece(Cut, 1)
                      /\ \A i, j \in 1 .. Len(Flow') : i <= j => Apart(Flow'[i], Flow'[j], j - i)
    BY <1>1, <1>5 DEF Ordered, S!Piece
  <2>1. /\ Flow # <<>> => Flow[1] = S!Piece(Cut, 1)
        /\ \A i, j \in 1 .. Len(Flow) : i <= j => Apart(Flow[i], Flow[j], j - i)
    BY <1>5 DEF SInv, Ordered
  <2>2. Flow' # <<>> => Flow'[1] = S!Piece(Cut, 1)
    BY <1>6, <2>1
  <2>3. ASSUME NEW i \in 1 .. Len(Flow'), NEW j \in 1 .. Len(Flow'), i <= j
        PROVE  Apart(Flow'[i], Flow'[j], j - i)
    <3>1. i \in 1 .. Len(Flow) /\ j \in 1 .. Len(Flow)
      BY <1>6
    <3>2. Flow'[i] = Flow[i] /\ Flow'[j] = Flow[j]
      BY <1>6
    <3> QED
      BY <2>1, <2>3, <3>1, <3>2
  <2> QED
    BY <2>2, <2>3
<1> QED
  BY <1>3, <1>4, <1>7

LEMMA ReadKeepsOrder ==
    ASSUME SInv, S!ReadChunk \/ S!ReadEof
    PROVE  Ordered' /\ InHand' /\ OnTheWay'
<1> USE DEF S!source, S!ffmpeg, S!thread, S!link
<1>1. /\ sender = "read" /\ UNCHANGED <<encoder, encoded, pending>>
      /\ UNCHANGED <<sock, receiver, received>>
  BY DEF S!ReadChunk, S!ReadEof
<1>2. S!Sent' = S!Sent
  BY <1>1 DEF S!Sent
<1>3. OnTheWay'
  BY <1>1, <1>2, SamePackets DEF SInv
<1>4. buf \in Seq(OnePiece) /\ stdout \in Seq(OnePiece) /\ Len(buf) \in Nat
  BY Pieced, LenProperties DEF SInv, S!TypeOK
<1>5. CASE S!ReadChunk
  <2>1. buf' = buf \o stdout /\ stdout' = <<>> /\ sender' = "split"
    BY <1>5 DEF S!ReadChunk
  <2>2. buf \o stdout \in Seq(OnePiece)
    BY <1>4, ConcatProperties
  <2>3. Flow' = Flow
    BY <1>1, <2>1, <2>2, ConcatEmptySeq DEF Flow
  <2>4. Cut' = Cut /\ (Working' => Working)
    BY <1>1, <1>2, <2>1 DEF Cut, Working
  <2>5. Ordered'
    BY <1>1, <2>3, <2>4, SameFlow DEF SInv
  <2>6. InHand'
    BY <2>1 DEF InHand
  <2> QED
    BY <1>3, <2>5, <2>6
<1>6. CASE S!ReadEof
  <2>1. /\ encoder = "dead"
        /\ sender' \in {"flush", "ended"}
        /\ sender' = "flush" => nal' = buf /\ Len(buf) > 2
    BY <1>6 DEF S!ReadEof
  <2>2. Ordered'
    BY <2>1 DEF Ordered, Working
  <2>3. ASSUME receiver = "alive", Len(buf) > 2
        PROVE  Begins(Len(S!Sent), buf)
    <3>1. Working /\ Cut = Len(S!Sent) + 1
      BY <1>1, <2>3 DEF Working, Cut
    <3>2. /\ Len(buf) <= NalLen + 1
          /\ \A i \in 1 .. Len(buf) : /\ i <= NalLen => buf[i] = S!Piece(Cut, i)
                                      /\ i = NalLen + 1 => buf[i] = S!Piece(Cut + 1, 1)
      <4>1. S!NextStart = {}
        BY <1>1 DEF SInv, InHand
      <4> QED
        BY <3>1, <4>1, FoundAt, Place DEF SInv
    <3> DEFINE s == S!Nal(Cut) \o S!Nal(Cut + 1)
               t == SubSeq(s, 1, Len(buf))
    <3>3. Cut \in Nat /\ Len(S!Sent) \in Nat
      BY <3>1, SentFacts DEF SInv
    <3>4. /\ \A i \in 1 .. NalLen : s[i] = S!Piece(Cut, i)
          /\ s[NalLen + 1] = S!Piece(Cut + 1, 1)
          /\ \A i \in 1 .. NalLen + 1 : s[i] \in AnyPiece
      BY <3>3, TwoNals
    <3> HIDE DEF s
    <3>5. \A i \in 1 .. Len(buf) : i \in 1 .. NalLen + 1 /\ s[i] \in AnyPiece /\ s[i] = buf[i]
      <4> SUFFICES ASSUME NEW i \in 1 .. Len(buf)
                   PROVE  i \in 1 .. NalLen + 1 /\ s[i] \in AnyPiece /\ s[i] = buf[i]
        OBVIOUS
      <4>1. i \in 1 .. NalLen + 1 /\ (i \in 1 .. NalLen \/ i = NalLen + 1)
        BY <1>4, <3>2, Sizes
      <4>2. i \in 1 .. NalLen => i <= NalLen
        BY Sizes
      <4>3. CASE i \in 1 .. NalLen
        <5>1. buf[i] = S!Piece(Cut, i)
          BY <3>2, <4>2, <4>3
        <5>2. s[i] = S!Piece(Cut, i)
          BY ONLY <3>4, <4>3
        <5>3. s[i] \in AnyPiece
          BY ONLY <3>4, <4>1
        <5> QED
          BY ONLY <4>1, <5>1, <5>2, <5>3
      <4>4. CASE i = NalLen + 1
        <5>1. buf[i] = S!Piece(Cut + 1, 1)
          BY <3>2, <4>4
        <5>2. s[i] = S!Piece(Cut + 1, 1)
          BY ONLY <3>4, <4>4
        <5>3. s[i] \in AnyPiece
          BY ONLY <3>4, <4>1
        <5> QED
          BY ONLY <4>1, <5>1, <5>2, <5>3
      <4> QED
        BY <4>1, <4>3, <4>4
    <3>6. /\ t \in Seq(AnyPiece) /\ Len(t) = Len(buf)
          /\ \A i \in 1 .. Len(buf) - 1 + 1 : t[i] = s[1 + i - 1]
      BY <1>4, <2>3, <3>5, SubSeqProperties
    <3> HIDE DEF t
    <3>7. ASSUME NEW i \in 1 .. Len(t)
          PROVE  t[i] = buf[i]
      <4>1. i \in 1 .. Len(buf) /\ i \in 1 .. Len(buf) - 1 + 1 /\ 1 + i - 1 = i
        BY <1>4, <3>6
      <4> QED
        BY <3>5, <3>6, <4>1
    <3>8. t = buf
      <4>1. buf \in Seq(AnyPiece)
        <5>1. \A i \in 1 .. Len(buf) : buf[i] \in AnyPiece
          BY <3>5
        <5>2. buf \in [1 .. Len(buf) -> OnePiece]
          BY <1>4, LenProperties
        <5>3. buf \in [1 .. Len(buf) -> AnyPiece]
          BY ONLY <5>1, <5>2
        <5> QED
          BY ONLY <1>4, <5>3
      <4> QED
        BY <3>6, <3>7, <4>1, SeqEqual
    <3>9. Len(S!Sent) + 2 = Cut + 1
      BY <3>1, <3>3
    <3> QED
      BY <3>1, <3>2, <3>8, <3>9 DEF s, t, Begins
  <2>4. InHand'
    BY <1>1, <1>2, <2>1, <2>3 DEF InHand, Begins
  <2> QED
    BY <1>3, <2>2, <2>4
<1> QED
  BY <1>5, <1>6

LEMMA WriteKeepsOrder ==
    ASSUME SInv, S!WriteStdout
    PROVE  Ordered' /\ InHand' /\ OnTheWay'
<1> USE DEF S!source, S!ffmpeg, S!thread, S!link
<1>1. /\ pending # <<>> /\ stdout' = Append(stdout, Head(pending)) /\ pending' = Tail(pending)
      /\ UNCHANGED <<encoder, encoded, sender, buf, nal>> /\ UNCHANGED <<sock, receiver, received>>
  BY DEF S!WriteStdout
<1>2. S!Sent' = S!Sent
  BY <1>1 DEF S!Sent
<1>3. OnTheWay' /\ InHand'
  <2>1. OnTheWay'
    BY <1>1, <1>2, SamePackets DEF SInv
  <2>2. InHand'
    BY <1>1, <1>2 DEF SInv, InHand, S!NextStart, Begins
  <2> QED
    BY <2>1, <2>2
<1>4. buf \in Seq(OnePiece) /\ stdout \in Seq(OnePiece) /\ pending \in Seq(OnePiece)
  BY Pieced DEF SInv, S!TypeOK
<1> DEFINE h == <<Head(pending)>>
           t == Tail(pending)
           s == buf \o stdout
<1>5. Head(pending) \in OnePiece /\ h \in Seq(OnePiece) /\ t \in Seq(OnePiece) /\ s \in Seq(OnePiece)
  BY <1>1, <1>4, HeadTailProperties, ConcatProperties
<1>6. Append(stdout, Head(pending)) = stdout \o h
  BY <1>4, <1>5, AppendIsConcat
<1>7. h \o t = pending
  BY <1>1, <1>4
<1>8. Flow' = (buf \o (stdout \o h)) \o t
  <2>1. Flow' = (buf' \o stdout') \o pending'
    BY DEF Flow
  <2>2. buf' = buf /\ stdout' = stdout \o h /\ pending' = t
    BY <1>1, <1>6
  <2> HIDE DEF h, t
  <2> QED
    BY <2>1, <2>2, Zenon
<1> HIDE DEF h, t
<1>9. buf \o (stdout \o h) = s \o h
  <2>1. h \in Seq(OnePiece)
    BY <1>5
  <2>2. (buf \o stdout) \o h = buf \o (stdout \o h)
    BY <1>4, <2>1, ConcatAssociative
  <2> QED
    BY <2>2
<1>10. (s \o h) \o t = s \o (h \o t)
  <2> HIDE DEF s
  <2> QED
    BY <1>5, ConcatAssociative
<1>11. Flow' = Flow
  BY <1>7, <1>8, <1>9, <1>10 DEF Flow
<1>12. Cut' = Cut /\ (Working' => Working)
  BY <1>1, <1>2 DEF Cut, Working
<1>13. Ordered'
  BY <1>1, <1>11, <1>12, SameFlow DEF SInv
<1> QED
  BY <1>3, <1>13

LEMMA SendKeepsOrder ==
    ASSUME SInv, S!Send
    PROVE  Ordered' /\ InHand' /\ OnTheWay'
<1> USE DEF S!source, S!ffmpeg, S!thread, S!link
<1>1. /\ sender \in {"send", "flush"} /\ receiver = "alive" /\ sock' = Append(sock, nal)
      /\ sender' = (IF sender = "send" THEN "split" ELSE "ended")
      /\ UNCHANGED <<encoder, encoded, pending, stdout, buf>> /\ UNCHANGED <<receiver, received>>
  BY DEF S!Send
<1>2. sock \in Seq(S!Pieces) /\ received \in Seq(S!Pieces) /\ nal \in S!Pieces
  BY DEF SInv, StreamShape, S!TypeOK
<1>3. S!Sent \in Seq(S!Pieces) /\ Len(S!Sent) \in Nat
  BY SentFacts DEF SInv
<1>4. S!Sent' = Append(S!Sent, nal)
  <2>1. Append(sock, nal) = sock \o <<nal>> /\ <<nal>> \in Seq(S!Pieces)
    BY <1>2, AppendIsConcat
  <2>2. received \o (sock \o <<nal>>) = (received \o sock) \o <<nal>>
    BY <1>2, <2>1, ConcatAssociative
  <2>3. Append(S!Sent, nal) = S!Sent \o <<nal>>
    BY <1>2, <1>3, AppendIsConcat
  <2> QED
    BY <1>1, <2>1, <2>2, <2>3 DEF S!Sent
<1>5. /\ Len(S!Sent') = Len(S!Sent) + 1 /\ S!Sent'[Len(S!Sent) + 1] = nal
      /\ \A i \in 1 .. Len(S!Sent) : S!Sent'[i] = S!Sent[i]
  BY <1>2, <1>3, <1>4, AppendProperties
<1>6. InHand'
  BY <1>1 DEF InHand
<1>7. Ordered'
  <2>1. CASE sender = "send"
    <3>1. Flow' = Flow /\ (Working' => Working)
      BY <1>1 DEF Flow, Working
    <3>2. Cut' = Cut
      <4>1. Cut = Len(S!Sent) + 2 /\ Cut' = Len(S!Sent') + 1
        BY <1>1, <2>1 DEF Cut
      <4> QED
        BY <1>3, <1>5, <4>1
    <3> QED
      BY <1>1, <3>1, <3>2, SameFlow DEF SInv
  <2>2. CASE sender = "flush"
    BY <1>1, <2>2 DEF Ordered, Working
  <2> QED
    BY <1>1, <2>1, <2>2
<1>8. OnTheWay'
  <2> SUFFICES ASSUME NEW i \in 1 .. Len(S!Sent) + 1
               PROVE  \/ S!Sent'[i] = S!Nal(i)
                      \/ /\ i = Len(S!Sent) + 1 /\ encoder = "dead" /\ sender' = "ended"
                         /\ Begins(i - 1, S!Sent'[i])
    BY <1>1, <1>5 DEF OnTheWay, Begins
  <2>1. CASE i \in 1 .. Len(S!Sent)
    BY <1>1, <1>5, <2>1 DEF SInv, OnTheWay
  <2>2. CASE i = Len(S!Sent) + 1 /\ sender = "send"
    BY <1>1, <1>5, <2>2 DEF SInv, InHand
  <2>3. CASE i = Len(S!Sent) + 1 /\ sender = "flush"
    <3>1. encoder = "dead" /\ Begins(Len(S!Sent), nal) /\ sender' = "ended"
      BY <1>1, <2>3 DEF SInv, InHand
    <3>2. i - 1 = Len(S!Sent) /\ S!Sent'[i] = nal
      BY <1>3, <1>5, <2>3
    <3> QED
      BY <2>3, <3>1, <3>2
  <2> QED
    BY <1>1, <1>3, <2>1, <2>2, <2>3
<1> QED
  BY <1>6, <1>7, <1>8

\* d is s without its first n elements.
Rest(d, s, n) == Len(s) = Len(d) + n /\ \A i \in 1 .. Len(d) : d[i] = s[n + i]

LEMMA RestOfConcat ==
    ASSUME NEW s \in Seq(OnePiece), NEW d \in Seq(OnePiece), NEW t \in Seq(OnePiece), NEW n \in Nat,
           Rest(d, s, n)
    PROVE  s \o t \in Seq(OnePiece) /\ d \o t \in Seq(OnePiece) /\ Rest(d \o t, s \o t, n)
<1>0. Len(s) = Len(d) + n /\ \A i \in 1 .. Len(d) : d[i] = s[n + i]
  BY DEF Rest
<1>1. Len(s) \in Nat /\ Len(d) \in Nat /\ Len(t) \in Nat
  BY LenProperties
<1> DEFINE st == s \o t
           dt == d \o t
<1>2. /\ st \in Seq(OnePiece) /\ Len(st) = Len(s) + Len(t)
      /\ \A i \in 1 .. Len(s) + Len(t) : st[i] = IF i <= Len(s) THEN s[i] ELSE t[i - Len(s)]
  BY ConcatProperties
<1>3. /\ dt \in Seq(OnePiece) /\ Len(dt) = Len(d) + Len(t)
      /\ \A i \in 1 .. Len(d) + Len(t) : dt[i] = IF i <= Len(d) THEN d[i] ELSE t[i - Len(d)]
  BY ConcatProperties
<1> HIDE DEF st, dt
<1>4. ASSUME NEW i \in 1 .. Len(dt)
      PROVE  dt[i] = st[n + i]
  <2>1. /\ i \in 1 .. Len(d) + Len(t) /\ n + i \in 1 .. Len(s) + Len(t) /\ i \in Nat /\ i > 0
        /\ n + i - Len(s) = i - Len(d)
    BY <1>0, <1>1, <1>3
  <2>2. CASE i <= Len(d)
    <3>1. i \in 1 .. Len(d) /\ n + i <= Len(s)
      BY <1>0, <1>1, <2>1, <2>2
    <3> QED
      BY <1>0, <1>2, <1>3, <2>1, <2>2, <3>1
  <2>3. CASE ~(i <= Len(d))
    <3>1. ~(n + i <= Len(s))
      BY <1>0, <1>1, <2>1, <2>3
    <3>2. dt[i] = t[i - Len(d)]
      BY <1>3, <2>1, <2>3
    <3>3. st[n + i] = t[n + i - Len(s)]
      BY <1>2, <2>1, <3>1
    <3> QED
      BY <2>1, <3>2, <3>3
  <2> QED
    BY <2>2, <2>3
<1>5. Len(st) = Len(dt) + n
  BY <1>0, <1>1, <1>2, <1>3
<1> QED
  BY <1>5, <1>2, <1>3, <1>4 DEF st, dt, Rest

LEMMA SplitKeepsOrder ==
    ASSUME SInv, S!Split
    PROVE  Ordered' /\ InHand' /\ OnTheWay'
<1> USE DEF S!source, S!ffmpeg, S!thread, S!link
<1>1. /\ sender = "split" /\ UNCHANGED <<encoder, encoded, pending, stdout>>
      /\ UNCHANGED <<sock, receiver, received>>
  BY DEF S!Split
<1>2. S!Sent' = S!Sent
  BY <1>1 DEF S!Sent
<1>3. OnTheWay'
  BY <1>1, <1>2, SamePackets DEF SInv
<1>4. CASE S!NextStart = {}
  <2>1. sender' = "read" /\ UNCHANGED <<buf, nal>>
    BY <1>4 DEF S!Split
  <2>2. InHand'
    BY <1>4, <2>1 DEF InHand, S!NextStart
  <2>3. Flow' = Flow /\ Cut' = Cut /\ (Working' => Working)
    BY <1>1, <1>2, <2>1 DEF Flow, Cut, Working
  <2>4. Ordered'
    BY <1>1, <2>3, SameFlow DEF SInv
  <2> QED
    BY <1>3, <2>2, <2>4
<1>5. CASE S!NextStart # {} /\ receiver # "alive"
  <2>1. sender' \in {"send", "split"}
    BY <1>5 DEF S!Split
  <2> QED
    BY <1>1, <1>3, <1>5, <2>1 DEF Ordered, Working, InHand
<1>6. CASE S!NextStart # {} /\ receiver = "alive"
  <2> DEFINE p == S!First(S!NextStart)
  <2>1. Working /\ Cut = Len(S!Sent) + 1 /\ Len(S!Sent) \in Nat
    BY <1>1, <1>6, SentFacts DEF Working, Cut, SInv
  <2>2. p = NalLen + 1 /\ p \in 3 .. Len(buf) - 1
    <3>1. buf \in Seq(OnePiece)
      BY Pieced DEF SInv, S!TypeOK
    <3> QED
      BY <1>6, <2>1, <3>1, FoundAt, FirstStart DEF SInv
  <2>3. /\ nal' = SubSeq(buf, 1, p - 1) /\ buf' = SubSeq(buf, p, Len(buf))
        /\ sender' = (IF Len(nal') > 2 THEN "send" ELSE "split")
    BY <1>6 DEF S!Split
  <2> HIDE DEF p
  <2>4. /\ buf \in Seq(OnePiece) /\ stdout \in Seq(OnePiece) /\ pending \in Seq(OnePiece)
        /\ Len(buf) \in Nat /\ NalLen \in Nat /\ NalLen > 2 /\ NalLen + 1 <= Len(buf)
        /\ p - 1 = NalLen
    BY <2>2, Pieced, LenProperties, Sizes DEF SInv, S!TypeOK
  <2>5. \A i \in 1 .. Len(buf) : buf[i] \in OnePiece
    BY <2>4, ElementOfSeq
  <2>6. \A i \in 1 .. NalLen : buf[i] = S!Piece(Cut, i)
    <3>1. \A i \in 1 .. NalLen : i \in 1 .. Len(buf) /\ i <= NalLen
      BY <2>4
    <3> QED
      BY <2>1, <3>1, Place DEF SInv
  <2>7. /\ nal' \in Seq(OnePiece) /\ Len(nal') = NalLen
        /\ \A i \in 1 .. NalLen - 1 + 1 : nal'[i] = buf[1 + i - 1]
    <3>1. \A i \in 1 .. NalLen : buf[i] \in OnePiece
      BY <2>4, <2>5
    <3>2. nal' = SubSeq(buf, 1, NalLen)
      BY <2>3, <2>4
    <3> QED
      BY <2>4, <3>1, <3>2, SubSeqProperties
  <2>8. /\ buf' \in Seq(OnePiece) /\ Len(buf) = Len(buf') + NalLen /\ Len(buf') \in Nat \ {0}
        /\ \A i \in 1 .. Len(buf') : buf'[i] = buf[NalLen + i]
    <3>1. buf' = SubSeq(buf, NalLen + 1, Len(buf))
      BY <2>2, <2>3
    <3>2. \A i \in NalLen + 1 .. Len(buf) : buf[i] \in OnePiece
      BY <2>4, <2>5
    <3>3. /\ buf' \in Seq(OnePiece) /\ Len(buf') = Len(buf) - (NalLen + 1) + 1
          /\ \A i \in 1 .. Len(buf) - (NalLen + 1) + 1 : buf'[i] = buf[NalLen + 1 + i - 1]
      BY <2>4, <3>1, <3>2, SubSeqProperties
    <3>4. Len(buf) = Len(buf') + NalLen /\ Len(buf') \in Nat \ {0}
      BY <2>4, <3>3
    <3>5. \A i \in 1 .. Len(buf') : i \in 1 .. Len(buf) - (NalLen + 1) + 1 /\ NalLen + 1 + i - 1 = NalLen + i
      BY <2>4, <3>4
    <3> QED
      BY <3>3, <3>4, <3>5
  <2>9. sender' = "send"
    BY <2>3, <2>4, <2>7
  <2>10. InHand'
    <3>1. nal' = S!Nal(Cut)
      <4>1. 1 \in 1 .. Len(buf) /\ 1 \in 1 .. NalLen
        BY <2>4
      <4>2. buf[1] \in OnePiece /\ buf[1] = S!Piece(Cut, 1)
        BY <2>5, <2>6, <4>1
      <4>3. Cut \in 1 .. 2 * MaxFrames
        BY <4>2 DEF OnePiece, S!Piece
      <4> DEFINE s == S!Nal(Cut)
      <4>4. s \in Seq(OnePiece) /\ Len(s) = NalLen /\ \A k \in 1 .. NalLen : s[k] = S!Piece(Cut, k)
        BY <4>3, NalFacts
      <4> HIDE DEF s
      <4>5. ASSUME NEW i \in 1 .. Len(nal')
            PROVE  nal'[i] = s[i]
        <5>1. i \in 1 .. NalLen /\ i \in 1 .. NalLen - 1 + 1 /\ 1 + i - 1 = i
          BY <2>4, <2>7
        <5> QED
          BY <2>6, <2>7, <4>4, <5>1
      <4>6. nal' = s
        BY <2>7, <4>4, <4>5, SeqEqual
      <4> QED
        BY <4>6 DEF s
    <3>2. sender' # "read" /\ sender' # "flush"
      BY <2>9
    <3>3. nal' = S!Nal(Len(S!Sent) + 1)
      BY <2>1, <3>1
    <3> QED
      BY <1>2, <3>2, <3>3 DEF InHand
  <2>11. Cut' = Cut + 1
    <3>1. Cut' = Len(S!Sent') + 2
      BY <2>9 DEF Cut
    <3> QED
      BY <1>2, <2>1, <3>1
  <2>12. /\ Flow' \in Seq(OnePiece) /\ Len(Flow) = Len(Flow') + NalLen
         /\ \A i \in 1 .. Len(Flow') : Flow'[i] = Flow[NalLen + i]
    <3> DEFINE s == buf \o stdout
               d == buf' \o stdout
    <3>1. s \in Seq(OnePiece) /\ d \in Seq(OnePiece) /\ Rest(d, s, NalLen)
      <4>1. buf \in Seq(OnePiece) /\ buf' \in Seq(OnePiece) /\ stdout \in Seq(OnePiece) /\ NalLen \in Nat
        BY <2>4, <2>8
      <4>2. Rest(buf', buf, NalLen)
        BY <2>8 DEF Rest
      <4> QED
        BY <4>1, <4>2, RestOfConcat
    <3>2. Flow = s \o pending /\ Flow' = d \o pending
      BY <1>1 DEF Flow
    <3> HIDE DEF s, d
    <3>3. /\ s \o pending \in Seq(OnePiece) /\ d \o pending \in Seq(OnePiece)
          /\ Rest(d \o pending, s \o pending, NalLen)
      <4>1. pending \in Seq(OnePiece) /\ NalLen \in Nat
        BY <2>4
      <4> QED
        BY <3>1, <4>1, RestOfConcat
    <3> QED
      BY <3>2, <3>3 DEF Rest
  <2>13. Len(Flow') \in Nat /\ Len(Flow') > 0 /\ Flow' # <<>> /\ Flow'[1] = S!Piece(Cut + 1, 1)
    <3>1. /\ Len(Flow) = Len(buf) + Len(stdout) + Len(pending)
          /\ Len(stdout) \in Nat /\ Len(pending) \in Nat
          /\ \A i \in 1 .. Len(buf) : Flow[i] = buf[i]
      BY FlowFacts DEF SInv
    <3>2. Len(Flow') \in Nat /\ Len(Flow') > 0
      BY <2>4, <2>8, <2>12, <3>1, LenProperties
    <3>3. Flow' # <<>>
      BY <3>2, EmptySeq
    <3>4. NalLen + 1 \in 1 .. Len(buf) /\ 1 \in 1 .. Len(Flow')
      BY <2>4, <3>2
    <3>5. buf[NalLen + 1] = S!Piece(Cut + 1, 1)
      BY <2>1, <3>4, Place DEF SInv
    <3> QED
      BY <2>12, <3>1, <3>2, <3>3, <3>4, <3>5
  <2>14. ASSUME NEW i \in 1 .. Len(Flow'), NEW j \in 1 .. Len(Flow'), i <= j
         PROVE  Apart(Flow'[i], Flow'[j], j - i)
    <3>1. /\ NalLen + i \in 1 .. Len(Flow) /\ NalLen + j \in 1 .. Len(Flow)
          /\ NalLen + i <= NalLen + j /\ (NalLen + j) - (NalLen + i) = j - i
      BY <2>4, <2>12, <2>13, <2>14
    <3>2. Apart(Flow[NalLen + i], Flow[NalLen + j], (NalLen + j) - (NalLen + i))
      BY <2>1, <3>1 DEF SInv, Ordered
    <3> QED
      BY <2>12, <3>1, <3>2
  <2>15. ASSUME encoder = "running", NEW i \in 1 .. Len(Flow')
         PROVE  Apart(Flow'[i], Made, Len(Flow') + 1 - i)
    <3>1. NalLen + i \in 1 .. Len(Flow) /\ Len(Flow) + 1 - (NalLen + i) = Len(Flow') + 1 - i
      BY <2>4, <2>12, <2>13
    <3>2. Apart(Flow[NalLen + i], Made, Len(Flow) + 1 - (NalLen + i))
      BY <2>1, <2>15, <3>1 DEF SInv, Ordered
    <3> QED
      BY <2>12, <3>1, <3>2
  <2>16. Made' = Made
    BY <1>1 DEF Made, S!Piece
  <2>17. Ordered'
    <3>1. Flow'[1] = S!Piece(Cut', 1)
      BY <2>11, <2>13
    <3> QED
      BY <1>1, <2>13, <2>14, <2>15, <2>16, <3>1 DEF Ordered, S!Piece
  <2> QED
    BY <1>3, <2>10, <2>17
<1> QED
  BY <1>4, <1>5, <1>6

\* What is ahead of a piece is further ahead of those made after it.
LEMMA MadeLater ==
    ASSUME NEW u \in OnePiece, NEW n \in Nat, NEW d \in Int, Apart(u, S!Piece(n, 1), d)
    PROVE  /\ \A k \in 1 .. NalLen : Apart(u, S!Piece(n, k), d + k - 1)
           /\ Apart(u, S!Piece(n + 1, 1), d + NalLen)
<1>1. u.nal \in Nat /\ u.at \in 1 .. NalLen /\ NalLen \in Nat
  BY Sizes DEF OnePiece
<1>2. \/ n = u.nal /\ d = 1 - u.at
      \/ n = u.nal + 1 /\ d = NalLen - u.at + 1
      \/ n > u.nal + 1 /\ d >= 2 * NalLen - u.at + 1
  BY DEF Apart, S!Piece
<1>3. ASSUME NEW k \in 1 .. NalLen
      PROVE  Apart(u, S!Piece(n, k), d + k - 1)
  <2>1. \/ n = u.nal /\ d + k - 1 = k - u.at
        \/ n = u.nal + 1 /\ d + k - 1 = NalLen - u.at + k
        \/ n > u.nal + 1 /\ d + k - 1 >= 2 * NalLen - u.at + k
    BY <1>1, <1>2
  <2> QED
    BY <2>1 DEF Apart, S!Piece
<1>4. Apart(u, S!Piece(n + 1, 1), d + NalLen)
  <2>1. \/ n + 1 = u.nal + 1 /\ d + NalLen = NalLen - u.at + 1
        \/ n + 1 > u.nal + 1 /\ d + NalLen >= 2 * NalLen - u.at + 1
    <3>1. CASE n = u.nal /\ d = 1 - u.at
      BY <1>1, <3>1
    <3>2. CASE n = u.nal + 1 /\ d = NalLen - u.at + 1
      BY <1>1, <3>2
    <3>3. CASE n > u.nal + 1 /\ d >= 2 * NalLen - u.at + 1
      BY <1>1, <3>3
    <3> QED
      BY <1>2, <3>1, <3>2, <3>3
  <2> QED
    BY <2>1 DEF Apart, S!Piece
<1> QED
  BY <1>3, <1>4

LEMMA EncodeKeepsOrder ==
    ASSUME SInv, S!Encode
    PROVE  Ordered' /\ InHand' /\ OnTheWay'
<1> USE DEF S!source, S!ffmpeg, S!thread, S!link
<1>1. /\ encoder = "running" /\ pending = <<>> /\ encoded' = encoded + 1
      /\ pending' = S!Nal(encoded + 1) /\ stdin > 0
      /\ UNCHANGED <<encoder, stdout, sender, buf, nal>> /\ UNCHANGED <<sock, receiver, received>>
  BY DEF S!Encode
<1>2. S!Sent' = S!Sent
  BY <1>1 DEF S!Sent
<1>3. OnTheWay' /\ InHand'
  <2>1. OnTheWay'
    BY <1>1, <1>2, SamePackets DEF SInv
  <2>2. InHand'
    BY <1>1, <1>2 DEF SInv, InHand, S!NextStart, Begins
  <2> QED
    BY <2>1, <2>2
<1> DEFINE s == buf \o stdout
           n == encoded + 1
           u == S!Nal(n)
<1>4. n \in 1 .. 2 * MaxFrames /\ encoded \in Nat
  BY <1>1, Sizes DEF SInv, S!TypeOK, StreamShape
<1>5. s \in Seq(OnePiece) /\ Len(s) \in Nat
  <2>1. buf \in Seq(OnePiece) /\ stdout \in Seq(OnePiece)
    BY Pieced DEF SInv, S!TypeOK
  <2> QED
    BY <2>1, ConcatProperties, LenProperties
<1>6. u \in Seq(OnePiece) /\ Len(u) = NalLen /\ \A k \in 1 .. NalLen : u[k] = S!Piece(n, k)
  BY <1>4, NalFacts
<1>7. Flow = s /\ Flow' = s \o u
  <2>1. Flow = s \o <<>>
    BY <1>1 DEF Flow
  <2>2. s \o <<>> = s
    BY <1>5, ConcatEmptySeq
  <2>3. Flow' = s \o u
    BY <1>1 DEF Flow
  <2> QED
    BY <2>1, <2>2, <2>3
<1>8. Made = S!Piece(n, 1) /\ Made' = S!Piece(n + 1, 1)
  BY <1>1 DEF Made, S!Piece
<1> HIDE DEF s, u, n
<1> DEFINE L == Len(s)
<1>9. /\ Len(Flow') = L + NalLen /\ Flow' # <<>>
      /\ \A i \in 1 .. L : Flow'[i] = s[i]
      /\ \A k \in 1 .. NalLen : Flow'[L + k] = S!Piece(n, k)
      /\ L \in Nat /\ NalLen \in Nat /\ NalLen > 2
  <2>1. /\ Len(s \o u) = L + NalLen /\ s \o u \in Seq(OnePiece)
        /\ \A i \in 1 .. L + NalLen : (s \o u)[i] = IF i <= L THEN s[i] ELSE u[i - L]
    BY <1>5, <1>6, ConcatProperties
  <2>2. \A i \in 1 .. L : i \in 1 .. L + NalLen /\ i <= L
    BY <1>5, Sizes
  <2>3. \A k \in 1 .. NalLen : L + k \in 1 .. L + NalLen /\ ~(L + k <= L) /\ L + k - L = k
    BY <1>5, Sizes
  <2>4. Len(s \o u) # 0
    BY <1>5, <2>1, Sizes
  <2>5. s \o u # <<>>
    BY <2>4, EmptySeq
  <2>6. \A i \in 1 .. L : (s \o u)[i] = s[i]
    BY <2>1, <2>2
  <2>7. \A k \in 1 .. NalLen : (s \o u)[L + k] = u[k]
    BY <2>1, <2>3
  <2> QED
    BY <1>5, <1>6, <1>7, <2>1, <2>5, <2>6, <2>7, Sizes
<1>10. Cut' = Cut /\ Working' = Working
  BY <1>1, <1>2 DEF Cut, Working
<1>11. Ordered'
  <2> SUFFICES ASSUME Working
               PROVE  /\ Flow'[1] = S!Piece(Cut, 1)
                      /\ \A i, j \in 1 .. L + NalLen : i <= j => Apart(Flow'[i], Flow'[j], j - i)
                      /\ \A i \in 1 .. L + NalLen : Apart(Flow'[i], Made', L + NalLen + 1 - i)
    BY <1>9, <1>10 DEF Ordered, S!Piece
  <2>1. /\ s # <<>> => s[1] = S!Piece(Cut, 1)
        /\ \A i, j \in 1 .. L : i <= j => Apart(s[i], s[j], j - i)
        /\ s = <<>> => Cut = n
        /\ \A i \in 1 .. L : Apart(s[i], S!Piece(n, 1), L + 1 - i)
    BY <1>1, <1>7, <1>8 DEF SInv, Ordered, n
  <2>2. \A i \in 1 .. L : s[i] \in OnePiece
    BY <1>5, ElementOfSeq
  <2>3. ASSUME NEW i \in 1 .. L
        PROVE  /\ \A k \in 1 .. NalLen : Apart(s[i], S!Piece(n, k), L + 1 - i + k - 1)
               /\ Apart(s[i], S!Piece(n + 1, 1), L + 1 - i + NalLen)
    <3>1. L + 1 - i \in Int /\ n \in Nat /\ s[i] \in OnePiece
      BY <1>4, <1>9, <2>2
    <3>2. Apart(s[i], S!Piece(n, 1), L + 1 - i)
      BY <2>1
    <3> QED
      BY <3>1, <3>2, MadeLater
  <2>4. ASSUME NEW k \in 1 .. NalLen
        PROVE  /\ \A l \in 1 .. NalLen : Apart(S!Piece(n, k), S!Piece(n, l), l - k)
               /\ Apart(S!Piece(n, k), S!Piece(n + 1, 1), NalLen + 1 - k)
    <3>1. NalLen + 1 - k = NalLen - k + 1 /\ n + 1 = n + 1
      BY <1>9
    <3> QED
      BY <3>1 DEF Apart, S!Piece
  <2>5. Flow'[1] = S!Piece(Cut, 1)
    <3>1. CASE L = 0
      <4>1. s = <<>> /\ 1 \in 1 .. NalLen /\ L + 1 = 1
        BY <1>5, <1>9, <3>1, EmptySeq
      <4>2. Flow'[L + 1] = S!Piece(n, 1)
        BY <1>9, <4>1
      <4> QED
        BY <2>1, <4>1, <4>2
    <3>2. CASE L # 0
      <4>1. s # <<>> /\ 1 \in 1 .. L
        BY <1>5, <1>9, <3>2, EmptySeq
      <4> QED
        BY <1>9, <2>1, <4>1
    <3> QED
      BY <3>1, <3>2
  <2>6. ASSUME NEW i \in 1 .. L + NalLen
        PROVE  i \in 1 .. L \/ \E k \in 1 .. NalLen : i = L + k
    <3>1. i \in 1 .. L \/ (i - L \in 1 .. NalLen /\ i = L + (i - L))
      BY <1>9
    <3> QED
      BY <3>1
  <2>7. ASSUME NEW i \in 1 .. L + NalLen, NEW j \in 1 .. L + NalLen, i <= j
        PROVE  Apart(Flow'[i], Flow'[j], j - i)
    <3>1. CASE i \in 1 .. L /\ j \in 1 .. L
      BY <1>9, <2>1, <2>7, <3>1
    <3>2. ASSUME i \in 1 .. L, NEW k \in 1 .. NalLen, j = L + k
          PROVE  Apart(Flow'[i], Flow'[j], j - i)
      <4>1. Apart(s[i], S!Piece(n, k), L + 1 - i + k - 1) /\ L + 1 - i + k - 1 = j - i
        BY <1>9, <2>3, <3>2
      <4>2. Flow'[i] = s[i] /\ Flow'[j] = S!Piece(n, k)
        BY <1>9, <3>2
      <4> QED
        BY <4>1, <4>2
    <3>3. ASSUME NEW k \in 1 .. NalLen, i = L + k, NEW l \in 1 .. NalLen, j = L + l
          PROVE  Apart(Flow'[i], Flow'[j], j - i)
      <4>1. Apart(S!Piece(n, k), S!Piece(n, l), l - k) /\ l - k = j - i
        BY <1>9, <2>4, <3>3
      <4>2. Flow'[i] = S!Piece(n, k) /\ Flow'[j] = S!Piece(n, l)
        BY <1>9, <3>3
      <4> QED
        BY <4>1, <4>2
    <3>4. i \in 1 .. L \/ j \notin 1 .. L
      BY <1>9, <2>7
    <3> QED
      BY <2>6, <3>1, <3>2, <3>3, <3>4
  <2>8. ASSUME NEW i \in 1 .. L + NalLen
        PROVE  Apart(Flow'[i], Made', L + NalLen + 1 - i)
    <3>1. CASE i \in 1 .. L
      <4>1. Apart(s[i], S!Piece(n + 1, 1), L + 1 - i + NalLen)
        BY <2>3, <3>1
      <4>2. L + 1 - i + NalLen = L + NalLen + 1 - i /\ Flow'[i] = s[i]
        BY <1>9, <3>1
      <4> QED
        BY <1>8, <4>1, <4>2
    <3>2. ASSUME NEW k \in 1 .. NalLen, i = L + k
          PROVE  Apart(Flow'[i], Made', L + NalLen + 1 - i)
      <4>1. Apart(S!Piece(n, k), S!Piece(n + 1, 1), NalLen + 1 - k)
        BY <2>4
      <4>2. NalLen + 1 - k = L + NalLen + 1 - i /\ Flow'[i] = S!Piece(n, k)
        BY <1>9, <3>2
      <4> QED
        BY <1>8, <4>1, <4>2
    <3> QED
      BY <2>6, <3>1, <3>2
  <2> QED
    BY <2>5, <2>7, <2>8
<1> QED
  BY <1>3, <1>11

StreamStep == \/ S!Capture \/ S!Stop \/ S!Quit \/ S!WriteStdin \/ S!CloseSocket \/ S!Exit
              \/ S!Ffmpeg \/ S!EncoderDies \/ S!Sender \/ S!Receiver \/ S!ReceiverGone

LEMMA StreamKeepsSInv == ASSUME SInv, StreamStep \/ UNCHANGED streamVars PROVE SInv'
<1>1. S!TypeOK' /\ StreamShape'
  <2>1. CASE \/ S!Capture \/ S!Stop \/ S!Quit \/ S!WriteStdin \/ S!CloseSocket \/ S!Exit
             \/ S!Encode \/ S!WriteStdout \/ S!EncoderDies
    BY <2>1, SourceTypes DEF SInv
  <2>2. CASE S!Sender
    BY <2>2, SenderTypes DEF SInv
  <2>3. CASE S!Receiver \/ S!ReceiverGone
    BY <2>3, ReceiverTypes DEF SInv
  <2>4. CASE UNCHANGED streamVars
    BY <2>4 DEF SInv, S!TypeOK, StreamShape, streamVars
  <2> QED
    BY <2>1, <2>2, <2>3, <2>4 DEF StreamStep, S!Ffmpeg
<1>2. Ordered' /\ InHand' /\ OnTheWay'
  BY OutsideSteps, SenderEnds, ReceiverLeaves, EncoderEnds, ReadKeepsOrder, WriteKeepsOrder,
     SendKeepsOrder, SplitKeepsOrder, EncodeKeepsOrder
     DEF StreamStep, S!Ffmpeg, S!Sender, S!Receiver
<1> QED
  BY <1>1, <1>2 DEF SInv

-----------------------------------------------------------------------------
(* The pipeline                                                            *)

PhInv == CInv /\ SInv /\ frames = delivered

LEMMA InitPhInv == Init => PhInv
  BY InitCInv, InitSInv DEF Init, PhInv, C!Init, S!Init

LEMMA NextPhInv == PhInv /\ [Next]_vars => PhInv'
<1> SUFFICES ASSUME PhInv, [Next]_vars
             PROVE  PhInv'
  OBVIOUS
<1>1. CInv /\ SInv /\ frames = delivered /\ delivered \in Nat
  BY DEF PhInv, CInv, C!TypeOK
<1> USE DEF C!streamer, S!source, S!ffmpeg, S!thread, S!link
<1>2. CASE Acquires \/ Writes \/ CaptureEnds \/ Reads
  <2>1. UNCHANGED streamVars
    BY <1>2 DEF Acquires, Writes, CaptureEnds, Reads
  <2>2. SInv'
    BY <1>1, <2>1, StreamKeepsSInv
  <2>3. CInv'
    BY <1>1, <1>2, CaptureKeepsCInv, ReadsKeepCInv DEF Acquires, Writes, CaptureEnds, Reads, C!Writes
  <2>4. UNCHANGED delivered
    BY <1>2 DEF Acquires, Writes, CaptureEnds, Reads, C!Writes, C!Reads, C!Acquire, C!SetUp,
                C!WriteUnit, C!WriteFails, C!CaptureEnds, C!ReadFirst, C!ReadBody, C!BodyEof,
                C!SizeChanged
  <2>5. UNCHANGED frames
    BY <2>1 DEF streamVars
  <2> QED
    BY <1>1, <2>2, <2>3, <2>4, <2>5 DEF PhInv
<1>3. CASE GetFrame
  <2>1. C!Deliver /\ S!Capture
    BY <1>3 DEF GetFrame
  <2>2. CInv' /\ SInv'
    BY <1>1, <2>1, ReadsKeepCInv, StreamKeepsSInv DEF StreamStep
  <2>3. delivered' = delivered + 1 /\ frames' = frames + 1
    BY <2>1 DEF C!Deliver, S!Capture
  <2> QED
    BY <1>1, <2>2, <2>3 DEF PhInv
<1>4. CASE NoFrame \/ WriteFails \/ Interrupted
  <2>1. \/ S!Stop /\ Terminates
        \/ S!Quit /\ (C!GivesUp \/ UNCHANGED captureVars)
    BY <1>4 DEF NoFrame, WriteFails, Interrupted
  <2>2. SInv'
    BY <1>1, <2>1, StreamKeepsSInv DEF StreamStep
  <2>3. CInv'
    BY <1>1, <2>1, CaptureKeepsCInv, ReadsKeepCInv, StutterKeepsCInv
  <2>4. delivered' = delivered /\ frames' = frames
    BY <2>1 DEF Terminates, S!Stop, S!Quit, C!GivesUp, captureVars
  <2> QED
    BY <1>1, <2>2, <2>3, <2>4 DEF PhInv
<1>5. CASE /\ UNCHANGED captureVars
           /\ \/ S!WriteStdin \/ S!CloseSocket \/ S!Exit \/ S!Ffmpeg \/ S!Sender \/ S!Receiver
              \/ S!EncoderDies \/ S!ReceiverGone
  <2>1. CInv' /\ SInv'
    BY <1>1, <1>5, StutterKeepsCInv, StreamKeepsSInv DEF StreamStep
  <2>2. UNCHANGED delivered
    BY <1>5 DEF captureVars
  <2>3. UNCHANGED frames
    BY <1>5 DEF S!WriteStdin, S!CloseSocket, S!Exit, S!Ffmpeg, S!Encode, S!WriteStdout, S!Sender,
                S!ReadChunk, S!ReadEof, S!Split, S!Send, S!SendFails, S!Receiver, S!Receive,
                S!ReceiverDone, S!EncoderDies, S!ReceiverGone
  <2> QED
    BY <1>1, <2>1, <2>2, <2>3 DEF PhInv
<1>6. CASE UNCHANGED vars
  <2>1. UNCHANGED captureVars /\ UNCHANGED streamVars
    BY <1>6 DEF vars
  <2>2. CInv' /\ SInv'
    BY <1>1, <2>1, StutterKeepsCInv, StreamKeepsSInv
  <2>3. UNCHANGED <<delivered, frames>>
    BY <2>1 DEF captureVars, streamVars
  <2> QED
    BY <1>1, <2>2, <2>3 DEF PhInv
<1> QED
  BY <1>2, <1>3, <1>4, <1>5, <1>6 DEF Next, Main, Ffmpeg, Sender, Receiver, OthersEnd

LEMMA AlwaysPhInv == Spec => []PhInv
  BY InitPhInv, NextPhInv, PTL DEF Spec

\* Every variable of the pipeline keeps its type, and main() passes on to
\* ffmpeg each frame that read_dxgi_frame returns.
THEOREM TypeCorrect == Spec => []TypeOK
<1>1. PhInv => TypeOK
  BY DEF PhInv, CInv, SInv, TypeOK
<1> QED
  BY <1>1, AlwaysPhInv, PTL

\* However the rows of a frame were cut into reads, the n-th frame that
\* read_dxgi_frame returns is the n-th captured, as long as every header was
\* read in one piece: for frames of any length and a pipe of any size.
THEOREM FramesAreWhole == Spec => []AlignedFramesAreWhole
<1>1. ASSUME PhInv
      PROVE  AlignedFramesAreWhole
  <2> SUFFICES ASSUME aligned, reader = "header"
               PROVE  got = C!Body(delivered + 1)
    BY DEF AlignedFramesAreWhole, C!AlignedFramesAreWhole
  <2>1. /\ got \in Seq(C!Units) /\ Len(got) = FrameLen
        /\ \A i \in 1 .. Len(got) : got[i] = C!Unit(delivered + 1, i + 2)
    BY <1>1 DEF PhInv, CInv, C!TypeOK, InStep, C!Ended
  <2>2. got \in [1 .. FrameLen -> C!Units]
    BY <2>1, LenProperties
  <2> QED
    BY <2>1, <2>2 DEF C!Body
<1> QED
  BY <1>1, AlwaysPhInv, PTL

\* However ffmpeg's output was cut into reads, nal_sender sends whole units, in
\* order and none left out, but for what it flushes when ffmpeg has died.
THEOREM UnitsAreWhole == Spec => []PacketsAreNals
<1>1. ASSUME PhInv
      PROVE  PacketsAreNals
  <2>1. S!Sent \in Seq(S!Pieces) /\ Len(S!Sent) \in Nat /\ DOMAIN S!Sent = 1 .. Len(S!Sent)
    BY <1>1, SentFacts, LenProperties DEF PhInv, SInv
  <2> SUFFICES ASSUME NEW i \in 1 .. Len(S!Sent)
               PROVE  \/ S!Sent[i] = S!Nal(i)
                      \/ /\ i = Len(S!Sent) /\ encoder = "dead"
                         /\ Len(S!Sent[i]) <= NalLen + 1
                         /\ S!Sent[i] = SubSeq(S!Nal(i) \o S!Nal(i + 1), 1, Len(S!Sent[i]))
    BY <2>1 DEF PacketsAreNals, S!PacketsAreNals
  <2>2. i - 1 + 1 = i /\ i - 1 + 2 = i + 1
    BY <2>1
  <2>3. \/ S!Sent[i] = S!Nal(i)
        \/ i = Len(S!Sent) /\ encoder = "dead" /\ Begins(i - 1, S!Sent[i])
    BY <1>1 DEF PhInv, SInv, OnTheWay
  <2> QED
    BY <2>2, <2>3 DEF Begins
<1> QED
  BY <1>1, AlwaysPhInv, PTL
=============================================================================
