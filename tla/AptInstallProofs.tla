-------------------------- MODULE AptInstallProofs --------------------------
(***************************************************************************)
(* install, upgrade and remove are right for every finite set of packages, *)
(* whatever requires whatever and however often a command fails or is      *)
(* killed: the recursion of _do-install ends, it downloads where setup.ini *)
(* is, and what is recorded is there.                                      *)
(***************************************************************************)
EXTENDS AptInstall, FiniteSetTheorems, SequenceTheorems, TLAPS

InstallStage == {"download", "extract", "check", "record", "replace", "deps"}
RemoveStage == {"unlist", "unrecord"}
Stage == InstallStage \cup RemoveStage
Frame == [pkg : Pkg, explicit : {0, 1}, at : Stage, deps : SUBSET Pkg]

-----------------------------------------------------------------------------
(* The stack of calls                                                      *)

LEMMA TopFacts ==
    ASSUME stack \in Seq(Frame), stack # <<>>
    PROVE  /\ Len(stack) \in Nat \ {0} /\ DOMAIN stack = 1 .. Len(stack)
           /\ Top = stack[Len(stack)] /\ Top \in Frame
           /\ Top.pkg \in Pkg /\ Top.at \in Stage /\ Top.deps \subseteq Pkg
           /\ Top.explicit \in {0, 1}
<1>1. Len(stack) \in Nat \ {0} /\ DOMAIN stack = 1 .. Len(stack)
  BY EmptySeq, LenProperties
<1>2. Top = stack[Len(stack)] /\ Top \in Frame
  BY <1>1, ElementOfSeq DEF Top, Last
<1> QED
  BY <1>1, <1>2 DEF Frame

\* Goto changes where the innermost call is, and nothing else.
LEMMA GotoFacts ==
    ASSUME stack \in Seq(Frame), stack # <<>>, NEW step \in Stage, Goto(step)
    PROVE  /\ stack' \in Seq(Frame) /\ stack' # <<>> /\ Len(stack') = Len(stack)
           /\ \A i \in 1 .. Len(stack) : /\ stack'[i].pkg = stack[i].pkg
                                         /\ stack'[i].deps = stack[i].deps
                                         /\ i # Len(stack) => stack'[i] = stack[i]
           /\ Top' = [Top EXCEPT !.at = step]
<1>1. /\ Len(stack) \in Nat \ {0} /\ DOMAIN stack = 1 .. Len(stack)
      /\ Top = stack[Len(stack)] /\ Top \in Frame
  BY TopFacts
<1> DEFINE f == [Top EXCEPT !.at = step]
<1>2. f \in Frame /\ f.pkg = Top.pkg /\ f.deps = Top.deps
  BY <1>1 DEF Frame
<1>3. stack' = [stack EXCEPT ![Len(stack)] = f]
  BY <1>1 DEF Goto
<1> HIDE DEF f
<1>4. /\ stack' \in Seq(Frame) /\ Len(stack') = Len(stack)
      /\ \A i \in 1 .. Len(stack) : stack'[i] = IF i = Len(stack) THEN f ELSE stack[i]
  BY <1>1, <1>2, <1>3, ExceptSeq
<1>5. stack' # <<>>
  BY <1>1, <1>4, EmptySeq
<1>6. Top' = f
  <2>1. Len(stack) \in 1 .. Len(stack)
    BY <1>1
  <2>2. stack'[Len(stack')] = f
    BY <1>4, <2>1
  <2> QED
    BY <2>2 DEF Top, Last
<1> QED
  BY <1>1, <1>2, <1>4, <1>5, <1>6 DEF f

\* Pop leaves the calls below as they were.
LEMMA PopFacts ==
    ASSUME stack \in Seq(Frame), stack # <<>>, Pop
    PROVE  /\ stack' \in Seq(Frame) /\ Len(stack') = Len(stack) - 1
           /\ \A i \in 1 .. Len(stack) - 1 : stack'[i] = stack[i]
<1>1. Len(stack) \in Nat \ {0} /\ stack' = SubSeq(stack, 1, Len(stack) - 1)
  BY TopFacts DEF Pop, Front
<1> DEFINE m == Len(stack) - 1
<1>2. \A i \in 1 .. m : stack[i] \in Frame
  BY <1>1, ElementOfSeq
<1>3. m \in Nat /\ stack' = SubSeq(stack, 1, m)
  BY <1>1
<1> HIDE DEF m
<1>4. /\ stack' \in Seq(Frame)
      /\ Len(stack') = IF 1 <= m THEN m - 1 + 1 ELSE 0
      /\ \A i \in 1 .. m - 1 + 1 : stack'[i] = stack[1 + i - 1]
  BY <1>2, <1>3, SubSeqProperties
<1>5. /\ m = (IF 1 <= m THEN m - 1 + 1 ELSE 0) /\ m = m - 1 + 1
      /\ \A i \in 1 .. m : 1 + i - 1 = i
  BY <1>3
<1> QED
  BY <1>4, <1>5 DEF m

LEMMA AppendFacts ==
    ASSUME NEW s \in Seq(Frame), NEW f \in Frame
    PROVE  /\ Append(s, f) \in Seq(Frame) /\ Append(s, f) # <<>>
           /\ Len(s) \in Nat /\ Len(Append(s, f)) = Len(s) + 1
           /\ \A i \in 1 .. Len(s) : Append(s, f)[i] = s[i]
           /\ Append(s, f)[Len(s) + 1] = f
  BY AppendProperties, LenProperties

\* A turn of the dependency loop crosses a name off, and nothing else.
LEMMA LoopFacts ==
    ASSUME stack \in Seq(Frame), stack # <<>>, NEW q
    PROVE  LET base == [stack EXCEPT ![Len(stack)].deps = @ \ {q}]
           IN  /\ base \in Seq(Frame) /\ Len(base) = Len(stack)
               /\ \A i \in 1 .. Len(stack) :
                     /\ base[i].pkg = stack[i].pkg /\ base[i].at = stack[i].at
                     /\ base[i].deps = IF i = Len(stack) THEN Top.deps \ {q} ELSE stack[i].deps
<1> DEFINE f == [Top EXCEPT !.deps = @ \ {q}]
           base == [stack EXCEPT ![Len(stack)].deps = @ \ {q}]
<1>1. /\ Len(stack) \in Nat \ {0} /\ DOMAIN stack = 1 .. Len(stack)
      /\ Top = stack[Len(stack)] /\ Top \in Frame
  BY TopFacts
<1>2. f \in Frame /\ f.pkg = Top.pkg /\ f.at = Top.at /\ f.deps = Top.deps \ {q}
  BY <1>1 DEF Frame
<1>3. base = [stack EXCEPT ![Len(stack)] = f]
  BY <1>1
<1> HIDE DEF f, base
<1>4. /\ base \in Seq(Frame) /\ Len(base) = Len(stack)
      /\ \A i \in 1 .. Len(stack) : base[i] = IF i = Len(stack) THEN f ELSE stack[i]
  BY <1>1, <1>2, <1>3, ExceptSeq
<1> QED
  BY <1>1, <1>2, <1>4 DEF base

-----------------------------------------------------------------------------
(* The shape of a command: what its stack, its guard and its operation     *)
(* have to do with each other                                              *)

CallsOK == /\ stack \in Seq(Frame)
           /\ \A i \in 1 .. Len(stack) - 1 : stack[i].at = "deps"
           /\ \A i, j \in 1 .. Len(stack) : stack[i].pkg = stack[j].pkg => i = j

\* Removing is not recursive and has no guard; installing guards its stack.
Removing == cmd.op = "remove"
Shape ==
    IF Idle THEN stack = <<>> /\ installing = {} /\ fresh = {} /\ cwd = "ini"
    ELSE IF Removing
    THEN /\ Len(stack) <= 1 /\ installing = {} /\ cwd = "ini"
         /\ stack # <<>> => Top.at \in RemoveStage
    ELSE /\ installing = {stack[i].pkg : i \in 1 .. Len(stack)}
         /\ stack # <<>> => Top.at \in InstallStage

TInv == StateOK /\ CallsOK /\ Shape

LEMMA Going ==
    ASSUME TInv, stack # <<>>
    PROVE  /\ ~Idle /\ cmd \in Command
           /\ Removing <=> Top.at \in RemoveStage
           /\ ~Removing => Top.pkg \in installing
<1>1. /\ Len(stack) \in Nat \ {0} /\ Top = stack[Len(stack)]
  BY TopFacts DEF TInv, CallsOK
<1> QED
  BY <1>1 DEF TInv, Shape, StateOK, Idle, InstallStage, RemoveStage

LEMMA ShapeGoto ==
    ASSUME TInv, stack # <<>>, NEW step \in Stage, Goto(step),
           Removing => step \in RemoveStage /\ cwd' = cwd,
           ~Removing => step \in InstallStage,
           UNCHANGED <<cmd, installing>>
    PROVE  CallsOK' /\ Shape' /\ (At("replace")' <=> step = "replace")
<1>1. /\ stack' \in Seq(Frame) /\ stack' # <<>> /\ Len(stack') = Len(stack)
      /\ \A i \in 1 .. Len(stack) : /\ stack'[i].pkg = stack[i].pkg
                                    /\ i # Len(stack) => stack'[i] = stack[i]
      /\ Top'.at = step
      /\ Len(stack) \in Nat \ {0} /\ ~Idle
  BY GotoFacts, TopFacts, Going DEF TInv, CallsOK, Frame
<1>2. CallsOK'
  BY <1>1 DEF TInv, CallsOK
<1>3. {stack'[i].pkg : i \in 1 .. Len(stack')} = {stack[i].pkg : i \in 1 .. Len(stack)}
  BY <1>1
<1>4. Shape'
  BY <1>1, <1>3 DEF TInv, Shape, Idle, Removing
<1> QED
  BY <1>1, <1>2, <1>4 DEF At

LEMMA ShapePop ==
    ASSUME TInv, stack # <<>>, Pop, installing' = installing \ {Top.pkg},
           Removing => cwd' = cwd, UNCHANGED cmd
    PROVE  CallsOK' /\ Shape' /\ ~At("replace")'
<1> DEFINE n == Len(stack)
<1>1. /\ stack' \in Seq(Frame) /\ Len(stack') = n - 1
      /\ \A i \in 1 .. n - 1 : stack'[i] = stack[i]
      /\ n \in Nat \ {0} /\ ~Idle /\ Top = stack[n]
  BY PopFacts, TopFacts, Going DEF TInv, CallsOK
<1> HIDE DEF n
<1>2. /\ \A i \in 1 .. n - 1 : stack[i].at = "deps"
      /\ \A i, j \in 1 .. n : stack[i].pkg = stack[j].pkg => i = j
  BY DEF TInv, CallsOK, n
<1>3. CallsOK'
  BY <1>1, <1>2 DEF CallsOK
<1>4. stack' # <<>> => n - 1 \in 1 .. n - 1 /\ Top'.at = "deps"
  <2> SUFFICES ASSUME stack' # <<>>
               PROVE  n - 1 \in 1 .. n - 1 /\ stack'[n - 1].at = "deps"
    BY <1>1 DEF Top, Last
  <2>1. n - 1 \in 1 .. n - 1
    BY <1>1, EmptySeq
  <2> QED
    BY <1>1, <1>2, <2>1
<1>7. ~At("replace")'
  BY <1>4 DEF At
<1>5. CASE Removing
  <2>1. n = 1
    BY <1>1, <1>5 DEF TInv, Shape, n
  <2> QED
    BY <1>1, <1>3, <1>4, <1>5, <1>7, <2>1 DEF TInv, Shape, Idle, Removing
<1>6. CASE ~Removing
  <2>1. installing = {stack[i].pkg : i \in 1 .. n}
    BY <1>1, <1>6 DEF TInv, Shape, n
  <2>2. installing' = {stack'[i].pkg : i \in 1 .. n - 1}
    BY <1>1, <1>2, <2>1
  <2> QED
    BY <1>1, <1>3, <1>4, <1>6, <1>7, <2>2 DEF Shape, Idle, Removing, InstallStage
<1> QED
  BY <1>5, <1>6, <1>7

\* A call is added, or skipped, on top of calls that wait for their dependencies.
LEMMA ShapeCall ==
    ASSUME TInv, ~Idle, ~Removing, cmd' \in Command, cmd'.op = cmd.op,
           NEW base \in Seq(Frame), Len(base) = Len(stack),
           \A i \in 1 .. Len(stack) : base[i].pkg = stack[i].pkg /\ base[i].at = "deps",
           NEW p \in Pkg, NEW explicit \in {0, 1}, NEW force,
           Call(base, p, explicit, force)
    PROVE  CallsOK' /\ Shape' /\ ~At("replace")' /\ installing' \subseteq Pkg
<1> DEFINE n == Len(stack)
<1>1. /\ n \in Nat /\ installing = {stack[i].pkg : i \in 1 .. n}
      /\ \A i, j \in 1 .. n : stack[i].pkg = stack[j].pkg => i = j
      /\ ~Idle' /\ ~Removing' /\ installing \subseteq Pkg
  BY LenProperties, NoneAssumption DEF TInv, CallsOK, Shape, Idle, Removing, StateOK
<1>2. Len(base) = n /\ \A i \in 1 .. n : base[i].pkg = stack[i].pkg /\ base[i].at = "deps"
  OBVIOUS
<1> HIDE DEF n
<1>3. {base[i].pkg : i \in 1 .. n} = {stack[i].pkg : i \in 1 .. n}
  BY <1>2
<1>4. CASE Skipped(p, force)
  <2>1. stack' = base /\ installing' = installing
    BY <1>4 DEF Call
  <2>2. CallsOK'
    BY <1>1, <1>2, <2>1 DEF CallsOK
  <2>3. stack' # <<>> => Top'.at = "deps"
    BY <1>1, <1>2, <2>1, EmptySeq DEF Top, Last
  <2> QED
    BY <1>1, <1>2, <1>3, <2>1, <2>2, <2>3 DEF Shape, InstallStage, At
<1>5. CASE ~Skipped(p, force)
  <2> DEFINE f == [pkg |-> p, explicit |-> explicit, at |-> "download", deps |-> Requires[p]]
  <2>1. f \in Frame /\ f.pkg = p /\ f.at = "download"
    BY AptAssumption DEF Frame, Stage, InstallStage
  <2>2. stack' = Append(base, f) /\ installing' = installing \cup {p} /\ p \notin installing
    BY <1>5 DEF Call, Skipped
  <2> HIDE DEF f
  <2>3. /\ stack' \in Seq(Frame) /\ stack' # <<>> /\ Len(stack') = n + 1
        /\ \A i \in 1 .. n : stack'[i] = base[i]
        /\ stack'[n + 1] = f
    BY <1>2, <2>1, <2>2, AppendFacts
  <2>4. CallsOK'
    BY <1>1, <1>2, <2>1, <2>2, <2>3 DEF CallsOK
  <2>5. Top'.at = "download"
    BY <2>1, <2>3 DEF Top, Last
  <2>6. installing' = {stack'[i].pkg : i \in 1 .. n + 1}
    <3>1. \A i \in 1 .. n : stack'[i].pkg = stack[i].pkg
      BY <1>2, <2>3
    <3>2. stack'[n + 1].pkg = p /\ 1 .. n + 1 = (1 .. n) \cup {n + 1}
      BY <1>1, <2>1, <2>3
    <3>3. {stack'[i].pkg : i \in 1 .. n} = installing
      BY <1>1, <3>1
    <3> QED
      BY <2>2, <3>2, <3>3
  <2> QED
    BY <1>1, <2>2, <2>3, <2>4, <2>5, <2>6 DEF Shape, InstallStage, At
<1> QED
  BY <1>4, <1>5
LEMMA InitTInv == Init => TInv
<1> SUFFICES ASSUME Init
             PROVE  TInv
  OBVIOUS
<1>1. stack = <<>> /\ Len(stack) = 0 /\ stack \in Seq(Frame) /\ Idle
  BY EmptySeq DEF Init, Idle
<1>2. StateOK
  <2>1. ~At("replace")
    BY <1>1 DEF At
  <2> QED
    BY <2>1, NoneAssumption DEF Init, StateOK, NoRecords, Record
<1> QED
  BY <1>1, <1>2 DEF Init, TInv, CallsOK, Shape

\* The end of the process, wherever it was.
LEMMA ExitKeeps ==
    ASSUME TInv, Exit,
           avail' \in [Pkg -> Ver], db' \in [Pkg -> Record], tmp' = None,
           lst' \in [Pkg -> Ver \cup {None}], fs' \subseteq Path, damaged' \subseteq Pkg
    PROVE  TInv'
<1>1. stack' = <<>> /\ Len(stack') = 0 /\ stack' \in Seq(Frame) /\ Idle'
  BY EmptySeq DEF Exit, Idle
<1>2. ~At("replace")'
  BY <1>1 DEF At
<1>3. StateOK'
  BY <1>1, <1>2 DEF Exit, StateOK
<1> QED
  BY <1>1, <1>3 DEF Exit, TInv, CallsOK, Shape

\* A new command finds no call under way.
LEMMA StartKeeps ==
    ASSUME TInv, Idle, cmd' \in Command, cmd'.op = "remove" => ~cmd'.nodeps,
           UNCHANGED <<avail, disk, stack, installing, cwd, fresh, damaged>>
    PROVE  TInv'
<1>1. stack' = <<>> /\ stack = <<>> /\ Len(stack) = 0 /\ installing = {} /\ cwd = "ini"
  BY EmptySeq DEF TInv, Shape
<1>2. ~At("replace") /\ ~At("replace")'
  BY <1>1 DEF At
<1>3. StateOK'
  BY <1>2 DEF TInv, StateOK, disk
<1>4. ~Idle'
  BY NoneAssumption DEF Idle
<1>5. CallsOK'
  BY DEF TInv, CallsOK
<1> QED
  BY <1>1, <1>3, <1>4, <1>5 DEF TInv, Shape, Removing

LEMMA AllTargets ==
    ASSUME NEW S \in SUBSET Pkg, NEW targets \in SetToSeqs(S)
    PROVE  targets \in Seq(Pkg)
<1>1. IsFiniteSet(S)
  BY AptAssumption, FS_Subset
<1>2. Cardinality(S) \in Nat /\ targets \in [1 .. Cardinality(S) -> S]
  BY <1>1, FS_CardinalityType DEF SetToSeqs
<1> QED
  BY <1>2, SeqDef, SeqMonotonic

LEMMA NamedTargets ==
    ASSUME NEW targets \in Targets
    PROVE  targets \in Seq(Pkg)
<1>1. PICK n \in 1 .. MaxTargets : targets \in [1 .. n -> Pkg]
  BY DEF Targets
<1>2. n \in Nat
  BY AptAssumption
<1> QED
  BY <1>1, <1>2, SeqDef

\* What reaches a target knows of it.
LEMMA TargetFacts ==
    ASSUME TInv, NEW op, AtTarget(op)
    PROVE  /\ ~Idle /\ cmd \in Command /\ cmd.op = op /\ stack = <<>> /\ Len(stack) = 0
           /\ Target \in Pkg /\ [cmd EXCEPT !.todo = Tail(@)] \in Command
           /\ [cmd EXCEPT !.todo = Tail(@)].op = op
           /\ [cmd EXCEPT !.todo = Tail(@)].nodeps = cmd.nodeps
<1>1. cmd \in Command /\ cmd.todo # <<>> /\ cmd.todo \in Seq(Pkg)
  BY DEF AtTarget, Idle, TInv, StateOK, Command
<1>2. Target \in Pkg /\ Tail(cmd.todo) \in Seq(Pkg)
  BY <1>1, HeadTailProperties DEF Target
<1> QED
  BY <1>1, <1>2, EmptySeq DEF AtTarget, Command

LEMMA CallOnTop ==
    ASSUME TInv, ~Idle, ~Removing, cmd' \in Command, cmd'.op = cmd.op,
           NEW base \in Seq(Frame), Len(base) = Len(stack), tmp = None,
           \A i \in 1 .. Len(stack) : base[i].pkg = stack[i].pkg /\ base[i].at = "deps",
           NEW p \in Pkg, NEW explicit \in {0, 1}, NEW force,
           Call(base, p, explicit, force),
           UNCHANGED <<avail, disk, cwd, fresh, damaged>>
    PROVE  TInv'
<1>1. CallsOK' /\ Shape' /\ ~At("replace")' /\ installing' \subseteq Pkg
  BY ShapeCall
<1> QED
  BY <1>1 DEF TInv, StateOK, disk

LEMMA CallTarget ==
    ASSUME TInv, ~Idle, ~Removing, cmd' \in Command, cmd'.op = cmd.op,
           stack = <<>>, tmp = None, NEW p \in Pkg, NEW force, Call(stack, p, 1, force),
           UNCHANGED <<avail, disk, cwd, fresh, damaged>>
    PROVE  TInv'
<1>1. /\ stack \in Seq(Frame) /\ Len(stack) = Len(stack) /\ 1 \in {0, 1}
      /\ \A i \in 1 .. Len(stack) : stack[i].pkg = stack[i].pkg /\ stack[i].at = "deps"
  BY DEF TInv, CallsOK
<1> QED
  BY <1>1, CallOnTop

\* What reaches a stage of a call knows of it.
LEMMA AtFacts ==
    ASSUME TInv, NEW step \in Stage, At(step)
    PROVE  /\ stack # <<>> /\ Top \in Frame /\ Top.pkg \in Pkg /\ Top.at = step
           /\ ~Idle /\ cmd \in Command /\ (Removing <=> step \in RemoveStage)
           /\ step # "replace" => tmp = None
  BY TopFacts, Going DEF At, TInv, CallsOK, StateOK

LEMMA StepsKeepTInv ==
    ASSUME TInv, Steps
    PROVE  TInv'
<1>0. StateOK /\ CallsOK /\ Shape
  BY DEF TInv
<1>00. stack = <<>> => tmp = None
  BY <1>0 DEF StateOK, At
<1> USE DEF disk, process, Stage, InstallStage, RemoveStage
<1>1. CASE InstallTarget
  <2>1. PICK op \in {"install", "reinstall"} : AtTarget(op)
    BY <1>1 DEF InstallTarget
  <2>2. /\ ~Idle /\ ~Removing /\ stack = <<>> /\ Len(stack) = 0 /\ Target \in Pkg
        /\ cmd' \in Command /\ cmd'.op = cmd.op
    BY <1>1, <2>1, TargetFacts DEF InstallTarget, NextTarget, Removing
  <2>3. Call(stack, Target, 1, cmd.op = "reinstall") /\ UNCHANGED <<avail, disk, cwd, fresh, damaged>>
    BY <1>1, <2>2 DEF InstallTarget
  <2> QED
    BY <1>00, <2>2, <2>3, CallTarget
<1>2. CASE UpgradeTarget
  <2>0. AtTarget("upgrade") /\ NextTarget
    BY <1>2 DEF UpgradeTarget
  <2>1. /\ ~Idle /\ ~Removing /\ stack = <<>> /\ Len(stack) = 0 /\ Target \in Pkg
        /\ cmd' \in Command /\ cmd'.op = cmd.op
    <3>1. /\ cmd.op = "upgrade" /\ ~Idle /\ stack = <<>> /\ Len(stack) = 0 /\ Target \in Pkg
          /\ [cmd EXCEPT !.todo = Tail(@)] \in Command
          /\ [cmd EXCEPT !.todo = Tail(@)].op = "upgrade"
      BY <2>0, TargetFacts
    <3>2. cmd' \in Command /\ cmd'.op = "upgrade"
      BY <2>0, <3>1 DEF NextTarget
    <3> QED
      BY <3>1, <3>2 DEF Removing
  <2>2. CASE UpToDate
    <3>1. UNCHANGED <<avail, disk, stack, installing, cwd, fresh, damaged>> /\ ~Idle'
      BY <1>2, <2>1, <2>2, NoneAssumption DEF UpgradeTarget, Idle
    <3>2. StateOK'
      BY <1>0, <2>1, <3>1 DEF StateOK, At, Top
    <3> QED
      BY <1>0, <2>1, <3>1, <3>2 DEF TInv, CallsOK, Shape, Removing, Top
  <2>3. CASE ~UpToDate
    <3>1. Call(stack, Target, 1, TRUE) /\ UNCHANGED <<avail, disk, cwd, fresh, damaged>>
      BY <1>2, <2>1, <2>3 DEF UpgradeTarget
    <3> QED
      BY <1>00, <2>1, <3>1, CallTarget
  <2> QED
    BY <2>2, <2>3
<1>3. CASE Finish
  BY <1>0, <1>00, <1>3, ExitKeeps DEF Finish, StateOK
<1>4. CASE DownloadFails
  BY <1>0, <1>4, AtFacts, ExitKeeps DEF DownloadFails, StateOK
<1>5. CASE Download
  <2>1. stack # <<>> /\ ~Removing /\ tmp = None /\ avail[Top.pkg] \in Ver
    BY <1>0, <1>5, AtFacts DEF Download, StateOK
  <2>2. CallsOK' /\ Shape' /\ ~At("replace")'
    BY <1>5, <2>1, ShapeGoto DEF Download
  <2>3. StateOK'
    BY <1>0, <1>5, <2>1, <2>2 DEF Download, StateOK
  <2> QED
    BY <2>2, <2>3 DEF TInv
<1>6. CASE Extract
  <2>1. stack # <<>> /\ ~Removing /\ tmp = None /\ NewFiles \subseteq Path
    BY <1>0, <1>6, AtFacts, AptAssumption DEF Extract, StateOK, NewFiles
  <2>2. CallsOK' /\ Shape' /\ ~At("replace")'
    BY <1>6, <2>1, ShapeGoto DEF Extract
  <2> QED
    BY <1>0, <1>6, <2>1, <2>2 DEF Extract, TInv, StateOK
<1>7. CASE Rollback
  <2>1. tmp = None
    BY <1>7, AtFacts DEF Rollback
  <2>2. fs' \subseteq Path /\ damaged' \subseteq Pkg
    BY <1>0, <1>7 DEF Rollback, StateOK
  <2> QED
    BY <1>0, <1>7, <2>1, <2>2, ExitKeeps DEF Rollback, StateOK
<1>8. CASE ChecksPass
  <2>1. stack # <<>> /\ ~Removing /\ tmp = None
    BY <1>0, <1>8, AtFacts DEF ChecksPass
  <2>2. CallsOK' /\ Shape' /\ ~At("replace")'
    BY <1>8, <2>1, ShapeGoto DEF ChecksPass
  <2> QED
    BY <1>0, <1>8, <2>1, <2>2 DEF ChecksPass, TInv, StateOK
<1>9. CASE MoveAside
  <2>1. stack # <<>> /\ ~Removing /\ Top.pkg \in Pkg /\ Top.explicit \in {0, 1}
    BY <1>0, <1>9, AtFacts DEF MoveAside, Frame
  <2>2. CallsOK' /\ Shape' /\ At("replace")'
    BY <1>9, <2>1, ShapeGoto DEF MoveAside
  <2>3. [ver |-> avail[Top.pkg], explicit |-> Top.explicit] \in Record
    BY <1>0, <2>1 DEF StateOK, Record, Line
  <2>4. tmp' \in [Pkg -> Record] /\ db' \in [Pkg -> Record] /\ tmp' # None
    BY <1>0, <1>9, <2>3, NoneAssumption DEF MoveAside, StateOK, NoRecords, Record
  <2> QED
    BY <1>0, <1>9, <2>2, <2>4 DEF MoveAside, TInv, StateOK
<1>10. CASE MoveIn
  <2>1. stack # <<>> /\ ~Removing /\ Top.pkg \in Pkg /\ tmp \in [Pkg -> Record]
    BY <1>0, <1>10, AtFacts DEF MoveIn, StateOK, At
  <2>2. CASE cmd.nodeps
    <3>1. CallsOK' /\ Shape' /\ ~At("replace")'
      BY <1>10, <2>1, <2>2, ShapePop DEF MoveIn
    <3>2. /\ db' = tmp /\ tmp' = None /\ fresh' = fresh \cup {Top.pkg}
          /\ damaged' = damaged \ {Top.pkg} /\ installing' = installing \ {Top.pkg}
          /\ UNCHANGED <<avail, lst, fs, cmd, cwd>>
      BY <1>10, <2>2 DEF MoveIn
    <3> QED
      BY <1>0, <2>1, <3>1, <3>2 DEF TInv, StateOK
  <2>3. CASE ~cmd.nodeps
    <3>1. CallsOK' /\ Shape' /\ ~At("replace")'
      BY <1>10, <2>1, <2>3, ShapeGoto DEF MoveIn
    <3>2. /\ db' = tmp /\ tmp' = None /\ fresh' = fresh \cup {Top.pkg}
          /\ damaged' = damaged \ {Top.pkg} /\ cwd' = "ini"
          /\ UNCHANGED <<avail, lst, fs, cmd, installing>>
      BY <1>10, <2>3 DEF MoveIn
    <3> QED
      BY <1>0, <2>1, <3>1, <3>2 DEF TInv, StateOK
  <2> QED
    BY <2>2, <2>3
<1>11. CASE \E q \in Pkg : Dependency(q)
  <2>1. PICK q \in Pkg : Dependency(q)
    BY <1>11
  <2> DEFINE base == [stack EXCEPT ![Len(stack)].deps = @ \ {q}]
  <2>2. stack # <<>> /\ ~Removing /\ tmp = None
    BY <1>0, <2>1, AtFacts DEF Dependency
  <2>5. \A i \in 1 .. Len(stack) : stack[i].at = "deps"
    BY <1>0, <2>1, <2>2, AtFacts, TopFacts DEF Dependency, CallsOK
  <2>3. /\ base \in Seq(Frame) /\ Len(base) = Len(stack)
        /\ \A i \in 1 .. Len(stack) : base[i].pkg = stack[i].pkg /\ base[i].at = "deps"
    BY <1>0, <2>2, <2>5, LoopFacts DEF CallsOK
  <2>4. Call(base, q, 0, FALSE) /\ UNCHANGED <<avail, disk, cmd, cwd, fresh, damaged>>
    BY <2>1 DEF Dependency
  <2> HIDE DEF base
  <2>6. ~Idle /\ cmd' \in Command /\ cmd'.op = cmd.op
    BY <2>1, AtFacts DEF Dependency
  <2> QED
    BY <2>2, <2>3, <2>4, <2>6, CallOnTop
<1>12. CASE Returns
  <2>1. stack # <<>> /\ ~Removing /\ tmp = None
    BY <1>0, <1>12, AtFacts DEF Returns
  <2>2. CallsOK' /\ Shape' /\ ~At("replace")'
    BY <1>12, <2>1, ShapePop DEF Returns
  <2> QED
    BY <1>0, <1>12, <2>1, <2>2 DEF Returns, TInv, StateOK
<1>13. CASE RemoveSkips
  <2>1. /\ ~Idle /\ stack = <<>> /\ cmd' \in Command /\ cmd'.op = cmd.op
    BY <1>13, TargetFacts DEF RemoveSkips, NextTarget
  <2>2. UNCHANGED <<avail, disk, stack, installing, cwd, fresh, damaged>> /\ ~Idle'
    BY <1>13, <2>1, NoneAssumption DEF RemoveSkips, Idle
  <2>3. StateOK'
    BY <1>0, <2>1, <2>2 DEF StateOK, At, Top
  <2> QED
    BY <1>0, <2>1, <2>2, <2>3 DEF TInv, CallsOK, Shape, Removing, Top
<1>14. CASE RemoveRefuses
  BY <1>0, <1>00, <1>14, ExitKeeps DEF RemoveRefuses, AtTarget, StateOK
<1>15. CASE RemoveFiles
  <2>1. /\ ~Idle /\ stack = <<>> /\ cmd' \in Command /\ cmd'.op = "remove" /\ Target \in Pkg
        /\ Removing /\ Removing' /\ ~Idle'
    BY <1>15, TargetFacts, NoneAssumption DEF RemoveFiles, NextTarget, Removing, Idle
  <2> DEFINE f == [pkg |-> Target, explicit |-> 1, at |-> "unlist", deps |-> {}]
  <2>2. f \in Frame /\ f.at = "unlist"
    BY <2>1 DEF Frame
  <2>3. stack' = <<f>> /\ UNCHANGED <<avail, db, tmp, lst, installing, cwd, fresh>>
    BY <1>15 DEF RemoveFiles
  <2> HIDE DEF f
  <2>4. stack' \in Seq(Frame) /\ Len(stack') = 1 /\ stack' # <<>> /\ stack'[1] = f
    BY <2>2, <2>3
  <2>5. Top'.at = "unlist" /\ ~At("replace")'
    BY <2>2, <2>4 DEF Top, Last, At
  <2>6. StateOK'
    BY <1>0, <1>00, <1>15, <2>1, <2>3, <2>5 DEF RemoveFiles, StateOK
  <2>7. CallsOK'
    BY <2>4 DEF CallsOK
  <2>8. installing = {} /\ cwd = "ini"
    BY <1>0, <2>1 DEF Shape
  <2> QED
    BY <2>1, <2>3, <2>4, <2>5, <2>6, <2>7, <2>8 DEF TInv, Shape
<1>16. CASE Unlist
  <2>1. stack # <<>> /\ Removing /\ tmp = None
    BY <1>0, <1>16, AtFacts DEF Unlist
  <2>2. CallsOK' /\ Shape' /\ ~At("replace")'
    BY <1>16, <2>1, ShapeGoto DEF Unlist
  <2> QED
    BY <1>0, <1>16, <2>1, <2>2 DEF Unlist, TInv, StateOK
<1>17. CASE Unrecord
  <2>1. stack # <<>> /\ Removing /\ tmp = None /\ Top.pkg \in Pkg /\ installing = {}
    BY <1>0, <1>17, AtFacts DEF Unrecord, Shape
  <2>2. CallsOK' /\ Shape' /\ ~At("replace")'
    BY <1>17, <2>1, ShapePop DEF Unrecord
  <2> QED
    BY <1>0, <1>17, <2>1, <2>2 DEF Unrecord, TInv, StateOK, Record
<1> QED
  BY <1>1, <1>2, <1>3, <1>4, <1>5, <1>6, <1>7, <1>8, <1>9, <1>10, <1>11, <1>12, <1>13, <1>14, <1>15, <1>16, <1>17 DEF Steps

LEMMA NextTInv == TInv /\ [Next]_vars => TInv'
<1> SUFFICES ASSUME TInv, [Next]_vars
             PROVE  TInv'
  OBVIOUS
<1>0. StateOK
  BY DEF TInv
<1> USE DEF disk, process
<1>1. CASE Steps
  BY <1>1, StepsKeepTInv
<1>2. ASSUME NEW op \in Op, NEW targets \in Targets, NEW nodeps \in BOOLEAN,
             Start(op, targets, op # "remove" /\ nodeps)
      PROVE  TInv'
  <2>1. [op |-> op, todo |-> targets, nodeps |-> op # "remove" /\ nodeps] \in Command
    BY NamedTargets DEF Command
  <2> QED
    BY <1>2, <2>1, StartKeeps DEF Start
<1>3. CASE StartUpgradeAll
  <2> DEFINE S == {p \in Pkg : Recorded(p) /\ ~Overlooked(p)}
  <2>1. PICK targets \in SetToSeqs(S), nodeps \in BOOLEAN :
           cmd' = [op |-> "upgrade", todo |-> targets, nodeps |-> nodeps]
    BY <1>3 DEF StartUpgradeAll
  <2>2. targets \in Seq(Pkg)
    <3>1. S \in SUBSET Pkg
      OBVIOUS
    <3> HIDE DEF S
    <3> QED
      BY <2>1, <3>1, AllTargets
  <2>3. cmd' \in Command /\ cmd'.op = "upgrade"
    BY <2>1, <2>2 DEF Command, Op
  <2> QED
    BY <1>3, <2>3, StartKeeps DEF StartUpgradeAll
<1>4. ASSUME NEW p \in Pkg, NEW v \in Versions[p], Update(p, v)
      PROVE  TInv'
  <2>1. v \in Ver
    BY <1>4, AptAssumption
  <2>2. StateOK'
    BY <1>0, <1>4, <2>1 DEF Update, StateOK, At, Top
  <2> QED
    BY <1>4, <2>2 DEF Update, TInv, CallsOK, Shape, Idle, Top, Removing
<1>5. CASE Killed
  <2>1. fs' \subseteq Path
    <3>1. CASE At("extract")
      <4>1. NewFiles \subseteq Path
        BY <1>0, <3>1, AtFacts, AptAssumption DEF NewFiles, StateOK, Stage, InstallStage
      <4> QED
        BY <1>0, <1>5, <3>1, <4>1 DEF Killed, StateOK
    <3>2. CASE ~At("extract")
      BY <1>0, <1>5, <3>2 DEF Killed, StateOK
    <3> QED
      BY <3>1, <3>2
  <2> QED
    BY <1>0, <1>5, <2>1, ExitKeeps DEF Killed, StateOK
<1>6. CASE UNCHANGED vars
  BY <1>6 DEF vars, TInv, StateOK, At, Top, CallsOK, Shape, Idle, Removing
<1> QED
  BY <1>1, <1>2, <1>3, <1>4, <1>5, <1>6 DEF Next, Commands
LEMMA TInvHolds == Spec => []TInv
  BY InitTInv, NextTInv, PTL DEF Spec

-----------------------------------------------------------------------------
(* The working directory: away from setup.ini only between a download and  *)
(* the record it ends in                                                   *)

Cwd == ~Idle /\ ~Removing /\ ~cmd.nodeps =>
    \/ cwd = "ini"
    \/ stack # <<>> /\ Top.at \in {"extract", "check", "record", "replace"}

LEMMA GotoTop ==
    ASSUME TInv, stack # <<>>, NEW step \in Stage, Goto(step)
    PROVE  stack' # <<>> /\ Top'.at = step /\ Top'.pkg = Top.pkg /\ Top'.deps = Top.deps
  BY GotoFacts, TopFacts DEF TInv, CallsOK, Frame

LEMMA InitCwd == Init => Cwd
  BY DEF Init, Idle, Cwd

LEMMA NextCwd == TInv /\ Cwd /\ [Next]_vars => Cwd'
<1> SUFFICES ASSUME TInv, Cwd, [Next]_vars
             PROVE  Cwd'
  OBVIOUS
<1>0. (Idle => cwd = "ini") /\ (~Idle /\ Removing => cwd = "ini")
  BY DEF TInv, Shape
<1> USE DEF disk, process
<1>1. ASSUME cmd'.nodeps = cmd.nodeps, cmd'.op = cmd.op, ~Idle, stack = <<>>, cwd' = cwd
      PROVE  Cwd'
  <2>1. cmd.nodeps \/ cwd = "ini"
    BY <1>0, <1>1 DEF Cwd
  <2> QED
    BY <1>1, <2>1 DEF Cwd
<1>2. ASSUME NEW op, AtTarget(op), NextTarget, cwd' = cwd
      PROVE  Cwd'
  <2>1. ~Idle /\ stack = <<>> /\ cmd'.op = cmd.op /\ cmd'.nodeps = cmd.nodeps
    BY <1>2, TargetFacts DEF NextTarget
  <2> QED
    BY <1>1, <1>2, <2>1
<1>3. CASE InstallTarget \/ UpgradeTarget \/ RemoveSkips \/ RemoveFiles
  <2>1. CASE InstallTarget
    BY <1>2, <2>1 DEF InstallTarget
  <2>2. CASE UpgradeTarget
    <3>1. AtTarget("upgrade") /\ NextTarget /\ cwd' = cwd
      BY <2>2 DEF UpgradeTarget
    <3> QED
      BY <1>2, <3>1
  <2>3. CASE RemoveSkips \/ RemoveFiles
    BY <1>2, <2>3 DEF RemoveSkips, RemoveFiles
  <2> QED
    BY <1>3, <2>1, <2>2, <2>3
<1>4. CASE Exit
  BY <1>4 DEF Exit, Cwd
<1>5. CASE Finish \/ DownloadFails \/ Rollback \/ RemoveRefuses \/ Killed
  BY <1>4, <1>5 DEF Finish, DownloadFails, Rollback, RemoveRefuses, Killed
<1>6. ASSUME NEW step \in {"extract", "check", "record", "replace"}, stack # <<>>, Goto(step)
      PROVE  Cwd'
  BY <1>6, GotoTop DEF Cwd, Stage, InstallStage
<1>7. CASE Download \/ Extract \/ ChecksPass \/ MoveAside
  <2>1. stack # <<>> /\ \E step \in {"extract", "check", "record", "replace"} : Goto(step)
    BY <1>7 DEF Download, Extract, ChecksPass, MoveAside, At
  <2> QED
    BY <1>6, <2>1
<1>8. CASE MoveIn
  <2>1. cmd.nodeps \/ cwd' = "ini"
    BY <1>8 DEF MoveIn
  <2>2. cmd' = cmd
    BY <1>8 DEF MoveIn
  <2> QED
    BY <2>1, <2>2 DEF Cwd
<1>9. ASSUME At("deps"), UNCHANGED <<cmd, cwd>>
      PROVE  Cwd'
  BY <1>9 DEF Cwd, At, Idle, Removing
<1>10. CASE Returns \/ \E q \in Pkg : Dependency(q)
  BY <1>9, <1>10 DEF Returns, Dependency
<1>11. ASSUME NEW step \in RemoveStage, At(step), UNCHANGED <<cmd, cwd>>
       PROVE  Cwd'
  <2>1. Removing
    BY <1>11, AtFacts DEF Stage
  <2> QED
    BY <1>11, <2>1 DEF Cwd, Removing, Idle
<1>12. CASE Unlist \/ Unrecord
  BY <1>11, <1>12 DEF Unlist, Unrecord, RemoveStage
<1>13. CASE Commands
  <2>1. cwd = "ini" /\ cwd' = cwd
    <3>1. Idle /\ cwd' = cwd
      BY <1>13 DEF Commands, Start, StartUpgradeAll, Update
    <3> QED
      BY <1>0, <3>1
  <2> QED
    BY <2>1 DEF Cwd
<1>14. CASE UNCHANGED vars
  BY <1>14 DEF vars, Cwd, Idle, Removing, Top
<1> QED
  BY <1>3, <1>5, <1>7, <1>8, <1>10, <1>12, <1>13, <1>14 DEF Next, Steps

-----------------------------------------------------------------------------
(* What a command has recorded, and what that requires                     *)

\* In the table, or in the one about to take its place.
Entered == {p \in Pkg : (IF At("replace") THEN tmp ELSE db)[p] # None}
Handled(p, q) == \/ q \in Entered \cup installing
                 \/ \E i \in 1 .. Len(stack) : stack[i].pkg = p /\ q \in stack[i].deps

Closure == ~Idle /\ ~Removing /\ ~cmd.nodeps =>
    /\ \A i \in 1 .. Len(stack) : stack[i].at = "deps" => stack[i].pkg \in Entered
    /\ stack # <<>> /\ Top.at # "deps" => Top.deps = Requires[Top.pkg]
    /\ At("replace") => Top.pkg \in Entered
    /\ \A p \in fresh : \A q \in Requires[p] : Handled(p, q)

LEMMA InitClosure == Init => Closure
  BY DEF Init, Idle, Closure

LEMMA StackFacts ==
    ASSUME TInv
    PROVE  /\ stack \in Seq(Frame) /\ Len(stack) \in Nat
           /\ \A i \in 1 .. Len(stack) : stack[i] \in Frame /\ stack[i].pkg \in Pkg
           /\ fresh \subseteq Pkg /\ \A p \in Pkg : Requires[p] \subseteq Pkg
<1>1. \A i \in 1 .. Len(stack) : stack[i] \in Frame
  BY ElementOfSeq DEF TInv, CallsOK
<1> QED
  BY <1>1, LenProperties, AptAssumption DEF TInv, CallsOK, Frame, StateOK

\* Going from stage to stage of a call.
LEMMA ClosureGoto ==
    ASSUME TInv, Closure, NEW from \in InstallStage \ {"deps"}, At(from),
           NEW step \in InstallStage, Goto(step), UNCHANGED <<cmd, installing>>,
           Entered \subseteq Entered',
           step \in {"replace", "deps"} => Top.pkg \in Entered',
           fresh' \subseteq fresh \cup (IF step = "deps" THEN {Top.pkg} ELSE {})
    PROVE  Closure'
<1> SUFFICES ASSUME ~Idle, ~Removing, ~cmd.nodeps
             PROVE  Closure'
  BY DEF Closure, Idle, Removing
<1> DEFINE n == Len(stack)
<1>1. /\ stack # <<>> /\ Top.at = from /\ n \in Nat \ {0} /\ Top = stack[n] /\ n \in 1 .. n
      /\ \A i \in 1 .. n - 1 : stack[i].at = "deps"
  BY AtFacts, TopFacts DEF TInv, CallsOK, Stage
<1>2. /\ stack' # <<>> /\ Top'.at = step /\ Top'.pkg = Top.pkg /\ Top'.deps = Top.deps
      /\ Len(stack') = n /\ Top' = stack'[n]
      /\ \A i \in 1 .. n : /\ stack'[i].pkg = stack[i].pkg
                           /\ stack'[i].deps = stack[i].deps
                           /\ i # n => stack'[i] = stack[i]
  BY <1>1, GotoTop, GotoFacts DEF TInv, CallsOK, Stage, Top, Last
<1>3. /\ \A i \in 1 .. n : stack[i].at = "deps" => stack[i].pkg \in Entered
      /\ Top.deps = Requires[Top.pkg]
      /\ \A p \in fresh : \A q \in Requires[p] : Handled(p, q)
  BY <1>1 DEF Closure
<1> HIDE DEF n
<1>4. \A i \in 1 .. n : stack'[i].at = "deps" => stack'[i].pkg \in Entered'
  <2> SUFFICES ASSUME NEW i \in 1 .. n, stack'[i].at = "deps"
               PROVE  stack'[i].pkg \in Entered'
    OBVIOUS
  <2>1. CASE i = n
    BY <1>1, <1>2, <2>1
  <2>2. CASE i # n
    BY <1>1, <1>2, <1>3, <2>2
  <2> QED
    BY <2>1, <2>2
<1>5. (At("replace")' => Top'.pkg \in Entered') /\ Len(stack) = n
  BY <1>2 DEF At, n
<1>6. ASSUME NEW p \in fresh', NEW q \in Requires[p]
      PROVE  Handled(p, q)'
  <2>1. CASE p \in fresh
    BY <1>2, <1>3, <1>5, <2>1 DEF Handled
  <2>2. CASE p = Top.pkg
    <3>1. stack'[n].pkg = p /\ q \in stack'[n].deps
      BY <1>1, <1>2, <1>3, <2>2
    <3> QED
      BY <1>1, <1>2, <3>1 DEF Handled
  <2> QED
    BY <2>1, <2>2
<1> QED
  BY <1>2, <1>3, <1>4, <1>5, <1>6 DEF Closure

\* Coming back from a call whose requirements have all been seen to.
LEMMA ClosureReturns ==
    ASSUME TInv, Closure, Returns
    PROVE  Closure'
<1> USE DEF disk
<1>0. /\ At("deps") /\ Top.deps = {} /\ Pop /\ installing' = installing \ {Top.pkg}
      /\ UNCHANGED <<avail, db, tmp, lst, fs, cmd, fresh, cwd, damaged>>
  BY DEF Returns
<1> SUFFICES ASSUME ~Idle, ~Removing, ~cmd.nodeps
             PROVE  Closure'
  BY <1>0 DEF Closure, Idle, Removing
<1> DEFINE n == Len(stack)
<1>1. /\ stack # <<>> /\ Top.at = "deps" /\ n \in Nat \ {0} /\ Top = stack[n] /\ n \in 1 .. n
      /\ \A i \in 1 .. n - 1 : stack[i].at = "deps"
      /\ ~At("replace") /\ stack \in Seq(Frame)
  BY <1>0, AtFacts, TopFacts DEF TInv, CallsOK, Stage, InstallStage, At
<1>2. /\ Len(stack') = n - 1 /\ stack' \in Seq(Frame)
      /\ \A i \in 1 .. n - 1 : stack'[i] = stack[i]
  BY <1>0, <1>1, PopFacts
<1>3. /\ \A i \in 1 .. n : stack[i].at = "deps" => stack[i].pkg \in Entered
      /\ \A p \in fresh : \A q \in Requires[p] : Handled(p, q)
  BY <1>1 DEF Closure
<1>4. stack' # <<>> => Top'.at = "deps"
  <2> SUFFICES ASSUME stack' # <<>>
               PROVE  stack'[n - 1].at = "deps"
    BY <1>2 DEF Top, Last
  <2>1. n - 1 \in 1 .. n - 1
    BY <1>1, <1>2, EmptySeq
  <2> QED
    BY <1>1, <1>2, <2>1
<1> HIDE DEF n
<1>5. ~At("replace")' /\ Entered' = Entered
  BY <1>0, <1>1, <1>4 DEF At, Entered
<1>6. ASSUME NEW p \in fresh, NEW q \in Requires[p]
      PROVE  Handled(p, q)'
  <2>1. CASE q \in Entered \cup installing
    BY <1>0, <1>1, <1>3, <1>5, <2>1 DEF Handled
  <2>2. ASSUME NEW i \in 1 .. n, stack[i].pkg = p, q \in stack[i].deps
        PROVE  Handled(p, q)'
    <3>1. i \in 1 .. n - 1
      BY <1>0, <1>1, <2>2
    <3> QED
      BY <1>2, <2>2, <3>1 DEF Handled
  <2> QED
    BY <1>3, <2>1, <2>2 DEF Handled, n
<1>7. \A i \in 1 .. n - 1 : i \in 1 .. n
  BY <1>1
<1> QED
  BY <1>0, <1>2, <1>3, <1>4, <1>5, <1>6, <1>7 DEF Closure

\* A call for a package that is named, or is the next requirement: only that
\* one is crossed off.
LEMMA ClosureCall ==
    ASSUME TInv, Closure, ~Idle, ~Removing, UNCHANGED <<db, tmp, fresh>>, tmp = None,
           cmd'.nodeps = cmd.nodeps,
           NEW base \in Seq(Frame), Len(base) = Len(stack), NEW p \in Pkg,
           \A i \in 1 .. Len(stack) : /\ stack[i].at = "deps"
                                      /\ base[i].pkg = stack[i].pkg /\ base[i].at = "deps"
                                      /\ stack[i].deps \subseteq base[i].deps \cup {p},
           NEW explicit \in {0, 1}, NEW force, Call(base, p, explicit, force)
    PROVE  Closure'
<1> SUFFICES ASSUME ~cmd.nodeps
             PROVE  Closure'
  BY DEF Closure
<1> DEFINE n == Len(stack)
<1>1. /\ Len(base) = n /\ n \in Nat /\ ~At("replace")
      /\ \A i \in 1 .. n : /\ base[i].pkg = stack[i].pkg /\ base[i].at = "deps"
                           /\ stack[i].deps \subseteq base[i].deps \cup {p}
  BY StackFacts DEF TInv, StateOK
<1>2. /\ \A i \in 1 .. n : stack[i].pkg \in Entered
      /\ \A x \in fresh : \A q \in Requires[x] : Handled(x, q)
  BY DEF Closure
<1> HIDE DEF n
<1>3. Len(stack) = n
  BY DEF n
<1>4. CASE Skipped(p, force)
  <2>1. stack' = base /\ installing' = installing
    BY <1>4 DEF Call
  <2>2. stack' # <<>> => Top'.at = "deps"
    BY <1>1, <2>1, EmptySeq DEF Top, Last
  <2>3. ~At("replace")' /\ Entered' = Entered /\ p \in Entered \cup installing
    BY <1>1, <1>4, <2>2 DEF At, Entered, Skipped, Recorded
  <2>4. ASSUME NEW x \in fresh, NEW q \in Requires[x]
        PROVE  Handled(x, q)'
    BY <1>1, <1>2, <1>3, <2>1, <2>3 DEF Handled
  <2> QED
    BY <1>1, <1>2, <2>1, <2>2, <2>3, <2>4 DEF Closure
<1>5. CASE ~Skipped(p, force)
  <2> DEFINE f == [pkg |-> p, explicit |-> explicit, at |-> "download", deps |-> Requires[p]]
  <2>1. f \in Frame /\ f.pkg = p /\ f.at = "download" /\ f.deps = Requires[p]
    BY AptAssumption DEF Frame, Stage, InstallStage
  <2>2. stack' = Append(base, f) /\ installing' = installing \cup {p}
    BY <1>5 DEF Call
  <2> HIDE DEF f
  <2>3. /\ Len(stack') = n + 1 /\ stack'[n + 1] = f
        /\ \A i \in 1 .. n : stack'[i] = base[i] /\ i \in 1 .. n + 1
    BY <1>1, <2>1, <2>2, AppendFacts
  <2>4. Top' = f
    BY <2>3 DEF Top, Last
  <2>5. ~At("replace")' /\ Entered' = Entered
    BY <1>1, <2>1, <2>4 DEF At, Entered
  <2>6. ASSUME NEW i \in 1 .. n + 1, stack'[i].at = "deps"
        PROVE  stack'[i].pkg \in Entered'
    <3>1. i \in 1 .. n
      BY <1>1, <2>1, <2>3, <2>6
    <3> QED
      BY <1>1, <1>2, <2>3, <2>5, <3>1
  <2>7. ASSUME NEW x \in fresh, NEW q \in Requires[x]
        PROVE  Handled(x, q)'
    <3>1. CASE q \in Entered \cup installing \cup {p}
      BY <2>2, <2>5, <3>1 DEF Handled
    <3>2. ASSUME NEW i \in 1 .. n, stack[i].pkg = x, q \in stack[i].deps, q # p
          PROVE  Handled(x, q)'
      <4>1. stack'[i].pkg = x /\ q \in stack'[i].deps /\ i \in 1 .. Len(stack')
        BY <1>1, <2>3, <3>2
      <4> QED
        BY <4>1 DEF Handled
    <3> QED
      BY <1>2, <1>3, <3>1, <3>2 DEF Handled
  <2> QED
    BY <2>1, <2>3, <2>4, <2>5, <2>6, <2>7 DEF Closure
<1> QED
  BY <1>4, <1>5

LEMMA NextClosure == TInv /\ Closure /\ [Next]_vars => Closure'
<1> SUFFICES ASSUME TInv, Closure, [Next]_vars
             PROVE  Closure'
  OBVIOUS
<1>0. (Idle => stack = <<>> /\ Len(stack) = 0 /\ fresh = {}) /\ StateOK
  BY EmptySeq DEF TInv, Shape
<1> USE DEF disk, process
<1>1. CASE Exit
  BY <1>1 DEF Exit, Closure, Idle
<1>2. CASE Finish \/ DownloadFails \/ Rollback \/ RemoveRefuses \/ Killed
  BY <1>1, <1>2 DEF Finish, DownloadFails, Rollback, RemoveRefuses, Killed
<1>3. ASSUME Removing, ~Idle, cmd' = cmd \/ NextTarget
      PROVE  Closure'
  <2>1. cmd'.op = cmd.op
    BY <1>0, <1>3 DEF NextTarget, StateOK, Idle, Command
  <2> QED
    BY <1>3, <2>1 DEF Closure, Removing
<1>4. CASE RemoveSkips \/ RemoveFiles
  BY <1>3, <1>4 DEF RemoveSkips, RemoveFiles, AtTarget, Removing
<1>5. ASSUME NEW step \in RemoveStage, At(step), UNCHANGED cmd
      PROVE  Closure'
  <2>1. Removing /\ ~Idle
    BY <1>5, AtFacts DEF Stage
  <2> QED
    BY <1>3, <1>5, <2>1
<1>6. CASE Unlist \/ Unrecord
  BY <1>5, <1>6 DEF Unlist, Unrecord, RemoveStage
<1>7. CASE InstallTarget \/ UpgradeTarget
  <2>1. /\ AtTarget("install") \/ AtTarget("reinstall") \/ AtTarget("upgrade")
        /\ NextTarget /\ UNCHANGED <<db, tmp, fresh>>
        /\ (\E force \in BOOLEAN : Call(<<>>, Target, 1, force)) \/ UNCHANGED <<stack, installing>>
    BY <1>7 DEF InstallTarget, UpgradeTarget
  <2>2. PICK op \in {"install", "reinstall", "upgrade"} : AtTarget(op)
    BY <2>1
  <2>3. /\ ~Idle /\ ~Removing /\ stack = <<>> /\ Len(stack) = 0 /\ Target \in Pkg
        /\ cmd'.nodeps = cmd.nodeps
    BY <2>1, <2>2, TargetFacts DEF NextTarget, Removing
  <2>4. tmp = None
    BY <1>0, <2>3 DEF StateOK, At
  <2>5. CASE UNCHANGED <<stack, installing>>
    BY <2>1, <2>3, <2>5 DEF Closure, At, Handled, Entered, Idle, Removing
  <2>6. ASSUME NEW force, Call(stack, Target, 1, force)
        PROVE  Closure'
    <3>1. /\ stack \in Seq(Frame) /\ 1 \in {0, 1} /\ Len(stack) = Len(stack)
          /\ \A i \in 1 .. Len(stack) : /\ stack[i].at = "deps"
                                     /\ stack[i].pkg = stack[i].pkg /\ stack[i].at = "deps"
                                     /\ stack[i].deps \subseteq stack[i].deps \cup {Target}
      BY <2>3 DEF TInv, CallsOK
    <3>2. UNCHANGED <<db, tmp, fresh>>
      BY <2>1
    <3> QED
      BY <2>3, <2>4, <2>6, <3>1, <3>2, ClosureCall
  <2> QED
    BY <2>1, <2>3, <2>5, <2>6
<1>8. ASSUME NEW from \in {"download", "extract", "check"}, At(from),
             NEW step \in {"extract", "check", "record"}, Goto(step),
             UNCHANGED <<cmd, installing, fresh, db, tmp>>
      PROVE  Closure'
  <2>1. stack # <<>> /\ Top.at = from /\ stack' # <<>> /\ Top'.at = step
    BY <1>8, AtFacts, GotoTop DEF Stage, InstallStage
  <2>2. Entered' = Entered
    BY <1>8, <2>1 DEF Entered, At
  <2> QED
    BY <1>8, <2>2, ClosureGoto DEF InstallStage
<1>9. CASE Download \/ Extract \/ ChecksPass
  BY <1>8, <1>9 DEF Download, Extract, ChecksPass
<1>10. CASE MoveAside
  <2>1. /\ At("record") /\ Goto("replace") /\ UNCHANGED <<cmd, installing, fresh>>
        /\ tmp' = [db EXCEPT ![Top.pkg] = [ver |-> avail[Top.pkg], explicit |-> Top.explicit]]
    BY <1>10 DEF MoveAside
  <2>2. stack # <<>> /\ Top \in Frame /\ Top.pkg \in Pkg /\ Top.at = "record" /\ stack' # <<>> /\ Top'.at = "replace"
    BY <2>1, AtFacts, GotoTop DEF Stage, InstallStage
  <2>3. [ver |-> avail[Top.pkg], explicit |-> Top.explicit] # None
    BY <1>0, <2>2, NoneAssumption DEF Line, StateOK, Frame
  <2>4. ~At("replace") /\ At("replace")' /\ db \in [Pkg -> Record]
    BY <1>0, <2>2 DEF At, StateOK
  <2>5. Entered' = {p \in Pkg : tmp'[p] # None} /\ Entered = {p \in Pkg : db[p] # None}
    BY <2>4 DEF Entered
  <2>6. Entered \subseteq Entered' /\ Top.pkg \in Entered'
    BY <2>1, <2>2, <2>3, <2>4, <2>5
  <2> QED
    BY <2>1, <2>6, ClosureGoto DEF InstallStage
<1>11. CASE MoveIn
  <2>1. /\ At("replace") /\ db' = tmp /\ fresh' = fresh \cup {Top.pkg} /\ cmd' = cmd
        /\ ~cmd.nodeps => Goto("deps") /\ installing' = installing
    BY <1>11 DEF MoveIn
  <2>2. CASE cmd.nodeps
    BY <2>1, <2>2 DEF Closure
  <2>3. CASE ~cmd.nodeps
    <3>1. stack # <<>> /\ Top.pkg \in Pkg /\ stack' # <<>> /\ Top'.at = "deps" /\ ~Idle /\ ~Removing
      BY <2>1, <2>3, AtFacts, GotoTop DEF Stage, InstallStage, RemoveStage
    <3>2. Entered' = Entered
      BY <2>1, <3>1 DEF Entered, At
    <3>3. Top.pkg \in Entered
      BY <2>1, <2>3, <3>1 DEF Closure
    <3> QED
      BY <2>1, <2>3, <3>2, <3>3, ClosureGoto DEF InstallStage
  <2> QED
    BY <2>2, <2>3
<1>12. CASE \E q \in Pkg : Dependency(q)
  <2>1. PICK q \in Pkg : Dependency(q)
    BY <1>12
  <2> DEFINE base == [stack EXCEPT ![Len(stack)].deps = @ \ {q}]
  <2>2. stack # <<>> /\ Top.at = "deps" /\ ~Removing /\ ~Idle /\ tmp = None
    BY <2>1, AtFacts DEF Dependency, Stage, InstallStage, RemoveStage
  <2>3. /\ stack \in Seq(Frame) /\ Len(stack) \in Nat \ {0} /\ Top = stack[Len(stack)]
        /\ \A i \in 1 .. Len(stack) : stack[i].at = "deps"
    BY <2>2, TopFacts DEF TInv, CallsOK
  <2>4. /\ base \in Seq(Frame) /\ Len(base) = Len(stack)
        /\ \A i \in 1 .. Len(stack) :
              /\ stack[i].at = "deps"
              /\ base[i].pkg = stack[i].pkg /\ base[i].at = "deps"
              /\ stack[i].deps \subseteq base[i].deps \cup {q}
    <3>1. /\ base \in Seq(Frame) /\ Len(base) = Len(stack)
          /\ \A i \in 1 .. Len(stack) :
                /\ base[i].pkg = stack[i].pkg /\ base[i].at = stack[i].at
                /\ base[i].deps = IF i = Len(stack) THEN Top.deps \ {q} ELSE stack[i].deps
      BY <2>2, <2>3, LoopFacts
    <3> HIDE DEF base
    <3>2. \A i \in 1 .. Len(stack) : stack[i].deps \subseteq base[i].deps \cup {q}
      BY <2>3, <3>1
    <3> QED
      BY <2>3, <3>1, <3>2
  <2>5. Call(base, q, 0, FALSE) /\ UNCHANGED <<db, tmp, fresh>> /\ cmd' = cmd
    BY <2>1 DEF Dependency
  <2> HIDE DEF base
  <2> QED
    BY <2>2, <2>4, <2>5, ClosureCall
<1>13. CASE Returns
  BY <1>13, ClosureReturns
<1>14. CASE Commands
  <2>1. Idle /\ UNCHANGED <<stack, fresh>>
    BY <1>14 DEF Commands, Start, StartUpgradeAll, Update
  <2> QED
    BY <1>0, <2>1 DEF Closure, At
<1>15. CASE UNCHANGED vars
  BY <1>15 DEF vars, Closure, Idle, Removing, Top, At, Entered, Handled
<1> QED
  BY <1>2, <1>4, <1>6, <1>7, <1>9, <1>10, <1>11, <1>12, <1>13, <1>14, <1>15 DEF Next, Steps

-----------------------------------------------------------------------------
(* What is recorded is there                                               *)

\* Two packages never own the same file.  The script relies on it when it
\* deletes what one package's manifest lists (apt-remove, _rollback-extract);
\* the packages of MCAptInstall are that way.
FilesApart == \A p, q \in Pkg : \A v, w \in Ver :
    p # q => Files[p][v] \cap Files[q][w] = {}

There(table, p) == table[p] # None => Files[p][table[p].ver] \subseteq fs

Truth == /\ \A p \in Pkg \ damaged : There(db, p)
         /\ At("check") \/ At("record") \/ At("replace") => NewFiles \subseteq fs
         /\ At("replace") => /\ tmp[Top.pkg].ver = avail[Top.pkg]
                             /\ \A p \in Pkg \ (damaged \cup {Top.pkg}) : There(tmp, p)

LEMMA InitTruth == Init => Truth
  BY DEF Init, Truth, There, NoRecords, At
\* A step that leaves the innermost call away from check, record and replace.
LEMMA TruthElsewhere ==
    ASSUME Truth, UNCHANGED <<db, damaged>>, fs \subseteq fs',
           stack' # <<>> => Top'.at \notin {"check", "record", "replace"}
    PROVE  Truth'
  BY DEF Truth, There, At

LEMMA CallTop ==
    ASSUME NEW base \in Seq(Frame), \A i \in 1 .. Len(base) : base[i].at = "deps",
           NEW p \in Pkg, NEW explicit \in {0, 1}, NEW force, Call(base, p, explicit, force),
           stack' # <<>>
    PROVE  Top'.at \in {"download", "deps"}
<1>1. CASE Skipped(p, force)
  <2>1. stack' = base
    BY <1>1 DEF Call
  <2>2. Len(base) \in 1 .. Len(base)
    BY <2>1, EmptySeq, LenProperties
  <2> QED
    BY <2>1, <2>2 DEF Top, Last
<1>2. CASE ~Skipped(p, force)
  <2> DEFINE f == [pkg |-> p, explicit |-> explicit, at |-> "download", deps |-> Requires[p]]
  <2>1. f \in Frame /\ f.at = "download" /\ stack' = Append(base, f)
    BY <1>2, AptAssumption DEF Call, Frame, Stage, InstallStage
  <2> HIDE DEF f
  <2>2. stack'[Len(stack')] = f
    BY <2>1, AppendFacts
  <2> QED
    BY <2>1, <2>2 DEF Top, Last
<1> QED
  BY <1>1, <1>2

LEMMA PopTop ==
    ASSUME TInv, stack # <<>>, Pop, stack' # <<>>
    PROVE  Top'.at = "deps"
<1>1. /\ stack \in Seq(Frame) /\ Len(stack) \in Nat \ {0}
      /\ \A i \in 1 .. Len(stack) - 1 : stack[i].at = "deps"
  BY TopFacts DEF TInv, CallsOK
<1>2. /\ Len(stack') = Len(stack) - 1 /\ stack' \in Seq(Frame)
      /\ \A i \in 1 .. Len(stack) - 1 : stack'[i] = stack[i]
  BY <1>1, PopFacts
<1>3. Len(stack') # 0
  BY <1>2, EmptySeq
<1>4. Len(stack') \in 1 .. Len(stack) - 1
  BY <1>1, <1>2, <1>3
<1> QED
  BY <1>1, <1>2, <1>4 DEF Top, Last

LEMMA NextTruth == FilesApart /\ TInv /\ Truth /\ [Next]_vars => Truth'
<1> SUFFICES ASSUME FilesApart, TInv, Truth, [Next]_vars
             PROVE  Truth'
  OBVIOUS
<1>0. (Idle => stack = <<>>) /\ StateOK
  BY DEF TInv, Shape
<1> USE DEF disk, process
<1>1. CASE Finish \/ DownloadFails \/ RemoveRefuses
  BY <1>1, TruthElsewhere DEF Finish, DownloadFails, RemoveRefuses, Exit
<1>2. CASE Killed
  <2>1. fs \subseteq fs' /\ stack' = <<>> /\ UNCHANGED <<db, damaged>>
    BY <1>2 DEF Killed, Exit
  <2> QED
    BY <2>1, TruthElsewhere
<1>3. CASE Rollback
  <2>1. /\ fs' = fs \ NewFiles /\ stack' = <<>> /\ db' = db
        /\ damaged' = damaged \cup ({Top.pkg} \cap {p \in Pkg : Recorded(p)})
    BY <1>3 DEF Rollback, Exit
  <2>2. Top.pkg \in Pkg /\ avail[Top.pkg] \in Ver
    BY <1>0, <1>3, AtFacts DEF Rollback, Stage, InstallStage, StateOK
  <2>3. ASSUME NEW p \in Pkg \ damaged'
        PROVE  There(db, p)'
    <3>1. There(db, p)
      BY <2>1, <2>3 DEF Truth
    <3>2. CASE db[p] = None
      BY <2>1, <3>2 DEF There
    <3>3. CASE db[p] # None
      <4>1. p # Top.pkg /\ db[p].ver \in Ver
        BY <1>0, <2>1, <2>3, <3>3 DEF Recorded, StateOK, Record, Line
      <4>2. Files[p][db[p].ver] \cap NewFiles = {}
        BY <2>2, <4>1 DEF FilesApart, NewFiles
      <4> QED
        BY <2>1, <3>1, <3>3, <4>2 DEF There
    <3> QED
      BY <3>2, <3>3
  <2> QED
    BY <2>1, <2>3 DEF Truth, At
<1>4. CASE InstallTarget \/ UpgradeTarget
  <2>1. /\ AtTarget("install") \/ AtTarget("reinstall") \/ AtTarget("upgrade")
        /\ UNCHANGED <<db, fs, damaged>>
        /\ (\E force \in BOOLEAN : Call(<<>>, Target, 1, force)) \/ UNCHANGED <<stack, installing>>
    BY <1>4 DEF InstallTarget, UpgradeTarget
  <2>2. stack = <<>> /\ Target \in Pkg
    BY <2>1, TargetFacts
  <2>3. ASSUME NEW force, Call(stack, Target, 1, force), stack' # <<>>
        PROVE  Top'.at \in {"download", "deps"}
    <3>1. stack \in Seq(Frame) /\ (\A i \in 1 .. Len(stack) : stack[i].at = "deps") /\ 1 \in {0, 1}
      BY <2>2 DEF TInv, CallsOK
    <3> QED
      BY <2>2, <2>3, <3>1, CallTop
  <2>4. stack' # <<>> => Top'.at \in {"download", "deps"}
    BY <2>1, <2>2, <2>3
  <2> QED
    BY <2>1, <2>4, TruthElsewhere
<1>5. CASE Download
  <2>1. At("download") /\ Goto("extract") /\ UNCHANGED <<db, fs, damaged>>
    BY <1>5 DEF Download
  <2>2. Top'.at = "extract"
    BY <2>1, AtFacts, GotoTop DEF Stage, InstallStage
  <2> QED
    BY <2>1, <2>2, TruthElsewhere
<1>6. CASE Extract
  <2>1. At("extract") /\ Goto("check") /\ UNCHANGED <<avail, db, damaged>> /\ fs' = fs \cup NewFiles
    BY <1>6 DEF Extract
  <2>2. stack' # <<>> /\ Top'.at = "check" /\ Top'.pkg = Top.pkg
    BY <2>1, AtFacts, GotoTop DEF Stage, InstallStage
  <2>3. NewFiles' = NewFiles /\ ~At("replace")'
    BY <2>1, <2>2 DEF NewFiles, At
  <2> QED
    BY <2>1, <2>3 DEF Truth, There
<1>7. CASE ChecksPass
  <2>1. At("check") /\ Goto("record") /\ UNCHANGED <<avail, db, damaged, fs>>
    BY <1>7 DEF ChecksPass
  <2>2. stack' # <<>> /\ Top'.at = "record" /\ Top'.pkg = Top.pkg
    BY <2>1, AtFacts, GotoTop DEF Stage, InstallStage
  <2>3. NewFiles' = NewFiles /\ ~At("replace")'
    BY <2>1, <2>2 DEF NewFiles, At
  <2> QED
    BY <2>1, <2>3 DEF Truth, There
<1>8. CASE MoveAside
  <2>1. /\ At("record") /\ Goto("replace") /\ UNCHANGED <<avail, damaged, fs>> /\ db' = NoRecords
        /\ tmp' = [db EXCEPT ![Top.pkg] = [ver |-> avail[Top.pkg], explicit |-> Top.explicit]]
    BY <1>8 DEF MoveAside
  <2>2. stack' # <<>> /\ Top'.at = "replace" /\ Top'.pkg = Top.pkg /\ Top.pkg \in Pkg
    BY <2>1, AtFacts, GotoTop DEF Stage, InstallStage
  <2>3. NewFiles' = NewFiles /\ NewFiles \subseteq fs
    BY <2>1, <2>2 DEF NewFiles, Truth
  <2>4. tmp'[Top'.pkg].ver = avail'[Top'.pkg]
    BY <1>0, <2>1, <2>2 DEF StateOK
  <2>5. ASSUME NEW p \in Pkg \ (damaged \cup {Top.pkg})
        PROVE  There(tmp, p)'
    <3>1. tmp'[p] = db[p] /\ There(db, p)
      BY <1>0, <2>1, <2>5 DEF StateOK, Truth
    <3> QED
      BY <2>1, <3>1 DEF There
  <2>6. ASSUME NEW p \in Pkg
        PROVE  There(db, p)'
    BY <2>1, <2>6 DEF There, NoRecords
  <2> QED
    BY <2>1, <2>2, <2>3, <2>4, <2>5, <2>6 DEF Truth
<1>9. CASE MoveIn
  <2>1. /\ At("replace") /\ db' = tmp /\ damaged' = damaged \ {Top.pkg} /\ fs' = fs
        /\ Pop \/ Goto("deps")
    BY <1>9 DEF MoveIn
  <2>2. stack # <<>> /\ Top.pkg \in Pkg
    BY <2>1, AtFacts DEF Stage, InstallStage
  <2>3. stack' # <<>> => Top'.at = "deps"
    BY <2>1, <2>2, PopTop, GotoTop DEF Stage, InstallStage
  <2>4. ASSUME NEW p \in Pkg \ damaged'
        PROVE  There(db, p)'
    <3>1. CASE p = Top.pkg
      <4>1. tmp[p].ver = avail[p] /\ Files[p][avail[p]] \subseteq fs
        BY <2>1, <3>1 DEF Truth, NewFiles
      <4> QED
        BY <2>1, <4>1 DEF There
    <3>2. CASE p # Top.pkg
      <4>1. There(tmp, p)
        BY <2>1, <2>4, <3>2 DEF Truth
      <4> QED
        BY <2>1, <4>1 DEF There
    <3> QED
      BY <3>1, <3>2
  <2> QED
    BY <2>3, <2>4 DEF Truth, At
<1>10. CASE \E q \in Pkg : Dependency(q)
  <2>1. PICK q \in Pkg : Dependency(q)
    BY <1>10
  <2> DEFINE base == [stack EXCEPT ![Len(stack)].deps = @ \ {q}]
  <2>2. /\ stack # <<>> /\ Top.at = "deps" /\ stack \in Seq(Frame) /\ Top = stack[Len(stack)]
        /\ Len(stack) \in Nat \ {0} /\ \A i \in 1 .. Len(stack) - 1 : stack[i].at = "deps"
    BY <2>1, AtFacts, TopFacts DEF Dependency, Stage, InstallStage, TInv, CallsOK
  <2>3. \A i \in 1 .. Len(stack) : stack[i].at = "deps"
    BY <2>2
  <2>4. base \in Seq(Frame) /\ \A i \in 1 .. Len(base) : base[i].at = "deps"
    <3>1. /\ base \in Seq(Frame) /\ Len(base) = Len(stack)
          /\ \A i \in 1 .. Len(stack) : base[i].at = stack[i].at
      BY <2>2, LoopFacts
    <3> HIDE DEF base
    <3> QED
      BY <2>3, <3>1
  <2>5. Call(base, q, 0, FALSE) /\ UNCHANGED <<db, fs, damaged>>
    BY <2>1 DEF Dependency
  <2> HIDE DEF base
  <2>6. stack' # <<>> => Top'.at \in {"download", "deps"}
    BY <2>4, <2>5, CallTop
  <2> QED
    BY <2>5, <2>6, TruthElsewhere
<1>11. CASE Returns
  <2>1. Pop /\ UNCHANGED <<db, fs, damaged>> /\ stack # <<>>
    BY <1>11, AtFacts DEF Returns, Stage, InstallStage
  <2> QED
    BY <2>1, PopTop, TruthElsewhere
<1>12. CASE RemoveSkips
  <2>1. stack = <<>> /\ UNCHANGED <<stack, db, fs, damaged>>
    BY <1>12, TargetFacts DEF RemoveSkips
  <2> QED
    BY <2>1, TruthElsewhere
<1>13. CASE RemoveFiles
  <2> DEFINE f == [pkg |-> Target, explicit |-> 1, at |-> "unlist", deps |-> {}]
  <2>1. /\ fs' = fs \ Files[Target][lst[Target]] /\ lst[Target] # None /\ stack' = <<f>>
        /\ damaged' = damaged \cup {Target} /\ db' = db /\ AtTarget("remove")
    BY <1>13 DEF RemoveFiles
  <2>2. Target \in Pkg /\ lst[Target] \in Ver
    BY <1>0, <2>1, TargetFacts DEF StateOK
  <2>3. ASSUME NEW p \in Pkg \ damaged'
        PROVE  There(db, p)'
    <3>1. There(db, p) /\ p # Target
      BY <2>1, <2>3 DEF Truth
    <3>2. CASE db[p] = None
      BY <2>1, <3>2 DEF There
    <3>3. CASE db[p] # None
      <4>1. db[p].ver \in Ver
        BY <1>0, <2>3, <3>3 DEF StateOK, Record, Line
      <4>2. Files[p][db[p].ver] \cap Files[Target][lst[Target]] = {}
        BY <2>2, <2>3, <3>1, <4>1 DEF FilesApart
      <4> QED
        BY <2>1, <3>1, <3>3, <4>2 DEF There
    <3> QED
      BY <3>2, <3>3
  <2>4. Top'.at = "unlist"
    BY <2>1 DEF Top, Last
  <2> QED
    BY <2>3, <2>4 DEF Truth, At
<1>14. CASE Unlist
  <2>1. At("unlist") /\ Goto("unrecord") /\ UNCHANGED <<db, fs, damaged>>
    BY <1>14 DEF Unlist
  <2>2. Top'.at = "unrecord"
    BY <2>1, AtFacts, GotoTop DEF Stage, RemoveStage
  <2> QED
    BY <2>1, <2>2, TruthElsewhere
<1>15. CASE Unrecord
  <2>1. /\ At("unrecord") /\ db' = [db EXCEPT ![Top.pkg] = None] /\ Pop
        /\ damaged' = damaged \ {Top.pkg} /\ fs' = fs
    BY <1>15 DEF Unrecord
  <2>2. stack # <<>> /\ Top.pkg \in Pkg
    BY <2>1, AtFacts DEF Stage, RemoveStage
  <2>3. stack' # <<>> => Top'.at = "deps"
    BY <2>1, <2>2, PopTop
  <2>4. ASSUME NEW p \in Pkg \ damaged'
        PROVE  There(db, p)'
    <3>1. CASE p = Top.pkg
      BY <1>0, <2>1, <3>1 DEF There, StateOK
    <3>2. CASE p # Top.pkg
      <4>1. There(db, p) /\ db'[p] = db[p]
        BY <1>0, <2>1, <2>4, <3>2 DEF Truth, StateOK
      <4> QED
        BY <2>1, <4>1 DEF There
    <3> QED
      BY <3>1, <3>2
  <2> QED
    BY <2>3, <2>4 DEF Truth, At
<1>16. CASE Commands
  <2>1. Idle /\ UNCHANGED <<stack, db, fs, damaged>>
    BY <1>16 DEF Commands, Start, StartUpgradeAll, Update
  <2> QED
    BY <1>0, <2>1, TruthElsewhere
<1>17. CASE UNCHANGED vars
  BY <1>17 DEF vars, Truth, There, At, Top, NewFiles
<1> QED
  BY <1>1, <1>2, <1>3, <1>4, <1>5, <1>6, <1>7, <1>8, <1>9, <1>10, <1>11, <1>12, <1>13, <1>14, <1>15, <1>16, <1>17 DEF Next, Steps

-----------------------------------------------------------------------------
(* The theorems                                                            *)

\* Every variable keeps its type, and the table waiting to be moved in exists
\* exactly between the two moves, in every command and after every end of one.
THEOREM TypeCorrect == Spec => []TypeOK
<1>1. TInv => StateOK
  BY DEF TInv
<1>2. Init => headed \in BOOLEAN
  BY DEF Init
<1>3. headed \in BOOLEAN /\ [Next]_vars => (headed \in BOOLEAN)'
  BY DEF Next, Commands, Steps, Killed, vars
<1>4. TypeOK <=> StateOK /\ headed \in BOOLEAN
  BY DEF TypeOK
<1> QED
  BY <1>1, <1>2, <1>3, <1>4, TInvHolds, PTL DEF Spec

\* Whatever requires whatever, _do-install never has two calls for the same
\* package, so its recursion is no deeper than there are packages.
THEOREM RecursionIsBounded == Spec => []CallsAreDistinct
<1>1. TInv => CallsAreDistinct
  <2> SUFFICES ASSUME TInv
               PROVE  CallsAreDistinct
    OBVIOUS
  <2> DEFINE n == Len(stack)
             f == [i \in 1 .. n |-> stack[i].pkg]
  <2>1. /\ n \in Nat /\ DOMAIN stack = 1 .. n
        /\ \A i \in 1 .. n : stack[i].pkg \in Pkg
        /\ \A i, j \in 1 .. n : stack[i].pkg = stack[j].pkg => i = j
    BY StackFacts, LenProperties DEF TInv, CallsOK
  <2> HIDE DEF n
  <2>2. f \in Injection(1 .. n, Pkg)
    BY <2>1 DEF Injection, IsInjective
  <2>3. IsFiniteSet(1 .. n) /\ Cardinality(1 .. n) <= Cardinality(Pkg)
    BY <2>2, AptAssumption, FS_Injection
  <2>4. Cardinality(1 .. n) = n
    BY <2>1, FS_Interval
  <2> QED
    BY <2>1, <2>3, <2>4 DEF CallsAreDistinct, n
<1> QED
  BY <1>1, TInvHolds, PTL

\* At whatever depth, a download without --nodeps starts where setup.ini is:
\* the changes of directory undo each other on every way through _do-install.
THEOREM DownloadsAreAtHome == Spec => []DownloadsFindSetupIni
<1>1. Init => TInv /\ Cwd
  BY InitTInv, InitCwd
<1>2. TInv /\ Cwd /\ [Next]_vars => (TInv /\ Cwd)'
  BY NextTInv, NextCwd
<1>3. TInv /\ Cwd => DownloadsFindSetupIni
  BY AtFacts DEF Cwd, DownloadsFindSetupIni, Stage, InstallStage, RemoveStage
<1> QED
  BY <1>1, <1>2, <1>3, PTL DEF Spec

\* A command that comes to its end without --nodeps has recorded all that the
\* packages it recorded require, through cycles and requirements they share.
THEOREM NothingIsMissing == Spec => []FreshIsComplete
<1>1. Init => TInv /\ Closure
  BY InitTInv, InitClosure
<1>2. TInv /\ Closure /\ [Next]_vars => (TInv /\ Closure)'
  BY NextTInv, NextClosure
<1>3. TInv /\ Closure => FreshIsComplete
  <2> SUFFICES ASSUME TInv, Closure, ~Idle, ~cmd.nodeps, stack = <<>>, ~Removing,
                      NEW p \in fresh, NEW q \in Requires[p]
               PROVE  Recorded(q)
    BY DEF FreshIsComplete, Removing
  <2>1. Len(stack) = 0 /\ installing = {}
    BY EmptySeq DEF TInv, Shape
  <2>2. q \in Entered /\ ~At("replace")
    BY <2>1 DEF Closure, Handled, At
  <2> QED
    BY <2>2 DEF Entered, Recorded
<1> QED
  BY <1>1, <1>2, <1>3, PTL DEF Spec

\* Of packages that share no file, one that is recorded has its files, through
\* failures and kills at any point and upgrades of it and of others, unless a
\* rollback or a killed removal of that very package has taken them.
THEOREM RecordsHold ==
    ASSUME FilesApart
    PROVE  Spec => []RecordsAreTrue
<1>1. Init => TInv /\ Truth
  BY InitTInv, InitTruth
<1>2. TInv /\ Truth /\ [Next]_vars => (TInv /\ Truth)'
  BY NextTInv, NextTruth
<1>3. TInv /\ Truth => RecordsAreTrue
  BY DEF Truth, There, RecordsAreTrue, Recorded
<1> QED
  BY <1>1, <1>2, <1>3, PTL DEF Spec
=============================================================================
