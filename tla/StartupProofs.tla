--------------------------- MODULE StartupProofs ----------------------------
(***************************************************************************)
(* The configuration is layered whatever the files hold, and the extension *)
(* is visible only when it is wired, for every set of built-in extensions, *)
(* every configuration and every server.                                   *)
(***************************************************************************)
EXTENDS Startup, FiniteSetTheorems, WellFoundedInduction, TLAPS

-----------------------------------------------------------------------------
(* Induction on a number, stated for a set instead of a formula            *)

LEMMA NatSetInduction ==
    ASSUME NEW S, 0 \in S, \A n \in Nat : n \in S => n + 1 \in S
    PROVE  Nat \subseteq S
<1> DEFINE R == {ss \in Nat \X Nat : ss[1] < ss[2]}
           T == Nat \ S
<1>1. IsWellFoundedOn(R, Nat)
  BY NatLessThanWellFounded DEF OpToRel
<1>2. ASSUME T # {}
      PROVE  FALSE
  <2>1. PICK n \in T : \A m \in T : <<m, n>> \notin R
    BY <1>1, <1>2, WFMin
  <2>2. n - 1 \in Nat /\ <<n - 1, n>> \in R
    BY <2>1
  <2>3. n - 1 \in S
    BY <2>1, <2>2
  <2>4. n - 1 + 1 = n
    BY <2>1
  <2> QED
    BY <2>1, <2>2, <2>3, <2>4
<1> QED
  BY <1>2

-----------------------------------------------------------------------------
(* ParseFile as a loop over the lines                                      *)

Line == [key : STRING, val : STRING]
Lines == Seq(Line)

\* What the fold computes for each set of line numbers.
IsFold(g, base, file, N) ==
    g = [s \in SUBSET N |-> IF s = {} THEN base
                            ELSE Apply(g[s \ {Max(s)}], file[Max(s)])]
Fold(base, file) == CHOOSE g : IsFold(g, base, file, DOMAIN file)

LEMMA ParseFileFolds ==
    ASSUME NEW base, NEW file
    PROVE  ParseFile(base, file) = Fold(base, file)[DOMAIN file]
  BY DEF ParseFile, FoldLeft, MapThenFoldSet, Fold, IsFold

\* A set of the first numbers has a greatest one.
LEMMA MaxIn ==
    ASSUME NEW n \in Nat
    PROVE  \A s \in SUBSET (1 .. n) : s # {} =>
               /\ Max(s) \in s
               /\ \A i \in s : i <= Max(s)
<1> DEFINE HasMax(m) == \A s \in SUBSET (1 .. m) : s # {} =>
                            \E x \in s : \A i \in s : x >= i
           S == {m \in Nat : HasMax(m)}
<1>1. 0 \in S
  <2>1. 1 .. 0 = {}
    OBVIOUS
  <2> QED
    BY <2>1
<1>2. ASSUME NEW m \in Nat, m \in S
      PROVE  m + 1 \in S
  <2>1. ASSUME NEW s \in SUBSET (1 .. m + 1), s # {}
        PROVE  \E x \in s : \A i \in s : x >= i
    <3>1. CASE m + 1 \in s
      BY <3>1
    <3>2. CASE m + 1 \notin s
      <4>1. s \in SUBSET (1 .. m)
        BY <3>2
      <4> QED
        BY <1>2, <2>1, <4>1
    <3> QED
      BY <3>1, <3>2
  <2> QED
    BY <2>1
<1>3. HasMax(n)
  <2> HIDE DEF S
  <2>1. Nat \subseteq S
    BY <1>1, <1>2, NatSetInduction
  <2> QED
    BY <2>1 DEF S
<1> QED
  BY <1>3 DEF Max

LEMMA FoldExists ==
    ASSUME NEW base, NEW file, NEW n \in Nat
    PROVE  \E g : IsFold(g, base, file, 1 .. n)
<1> DEFINE S == {m \in Nat : \E g : IsFold(g, base, file, 1 .. m)}
<1>1. 0 \in S
  <2> DEFINE g == [s \in SUBSET (1 .. 0) |-> base]
  <2>1. \A s \in SUBSET (1 .. 0) : s = {}
    OBVIOUS
  <2>2. IsFold(g, base, file, 1 .. 0)
    BY <2>1 DEF IsFold
  <2> QED
    BY <2>2
<1>2. ASSUME NEW m \in Nat, m \in S
      PROVE  m + 1 \in S
  <2>1. PICK g : IsFold(g, base, file, 1 .. m)
    BY <1>2
  <2> DEFINE h == [s \in SUBSET (1 .. m + 1) |->
                      IF m + 1 \in s THEN Apply(g[s \ {m + 1}], file[m + 1])
                      ELSE g[s]]
             Unfolded(s) == IF s = {} THEN base
                        ELSE Apply(h[s \ {Max(s)}], file[Max(s)])
  <2>2. ASSUME NEW s \in SUBSET (1 .. m + 1)
        PROVE  h[s] = Unfolded(s)
    <3>1. CASE m + 1 \in s
      <4>1. Max(s) = m + 1
        <5> HIDE DEF h, Unfolded
        <5>1. m + 1 \in Nat /\ s # {}
          BY <3>1
        <5>2. Max(s) \in s /\ \A i \in s : i <= Max(s)
          BY <5>1, MaxIn
        <5>3. Max(s) \in 1 .. m + 1 /\ m + 1 <= Max(s)
          BY <3>1, <5>2
        <5> QED
          BY <5>3
      <4>2. s \ {m + 1} \in SUBSET (1 .. m) /\ s \ {m + 1} \in SUBSET (1 .. m + 1)
        OBVIOUS
      <4>3. h[s \ {m + 1}] = g[s \ {m + 1}]
        BY <4>2
      <4> QED
        BY <3>1, <4>1, <4>3
    <3>2. CASE m + 1 \notin s /\ s # {}
      <4>1. s \in SUBSET (1 .. m)
        BY <3>2
      <4>2. Max(s) \in s
        BY <3>2, <4>1, MaxIn
      <4>3. h[s \ {Max(s)}] = g[s \ {Max(s)}] /\ h[s] = g[s]
        BY <3>2, <4>1
      <4>4. g[s] = Apply(g[s \ {Max(s)}], file[Max(s)])
        BY <2>1, <3>2, <4>1 DEF IsFold
      <4> QED
        BY <3>2, <4>3, <4>4
    <3>3. CASE s = {}
      BY <2>1, <3>3 DEF IsFold
    <3> QED
      BY <3>1, <3>2, <3>3
  <2>3. IsFold(h, base, file, 1 .. m + 1)
    <3>1. h = [s \in SUBSET (1 .. m + 1) |-> h[s]]
      OBVIOUS
    <3> HIDE DEF h
    <3> QED
      BY <2>2, <3>1 DEF IsFold
  <2> QED
    BY <2>3
<1> HIDE DEF S
<1>3. n \in S
  BY <1>1, <1>2, NatSetInduction
<1> QED
  BY <1>3 DEF S

\* The program's loop: the configuration after the first n lines.
After(base, file, n) == Fold(base, file)[1 .. n]

LEMMA AfterSteps ==
    ASSUME NEW base, NEW file \in Lines
    PROVE  /\ After(base, file, 0) = base
           /\ \A n \in 1 .. Len(file) :
                 After(base, file, n) = Apply(After(base, file, n - 1), file[n])
           /\ ParseFile(base, file) = After(base, file, Len(file))
<1> DEFINE g == Fold(base, file)
           N == 1 .. Len(file)
<1>1. Len(file) \in Nat /\ DOMAIN file = N
  BY DEF Lines
<1>2. IsFold(g, base, file, N)
  <2>1. \E x : IsFold(x, base, file, N)
    BY <1>1, FoldExists
  <2> QED
    BY <1>1, <2>1 DEF Fold
<1> HIDE DEF g
<1>3. g[1 .. 0] = base
  BY <1>1, <1>2 DEF IsFold
<1>4. ASSUME NEW n \in N
      PROVE  g[1 .. n] = Apply(g[1 .. n - 1], file[n])
  <2>1. 1 .. n \in SUBSET N /\ 1 .. n # {} /\ n \in Nat
    BY <1>1
  <2>2. Max(1 .. n) \in 1 .. n /\ \A i \in 1 .. n : i <= Max(1 .. n)
    BY <2>1, MaxIn
  <2>3. Max(1 .. n) = n
    BY <2>1, <2>2
  <2>4. (1 .. n) \ {n} = 1 .. n - 1
    BY <2>1
  <2> QED
    BY <1>2, <2>1, <2>3, <2>4 DEF IsFold
<1> QED
  BY <1>1, <1>3, <1>4, ParseFileFolds DEF After, g

-----------------------------------------------------------------------------
(* The last line that gives a key a value holds                            *)

\* A line gives its key its value, if it is understood, and touches no other.
LEMMA ApplySetsOneKey ==
    ASSUME NEW c, DOMAIN c = Keys, NEW line \in Line,
           NEW key \in Keys
    PROVE  /\ DOMAIN Apply(c, line) = Keys
           /\ line.key = key /\ Understood(line) => Apply(c, line)[key] = Value(line)
           /\ ~ (line.key = key /\ Understood(line)) => Apply(c, line)[key] = c[key]
<1>1. CASE Says(line) /\ line.key \in Keys
  <2>1. Apply(c, line) = [c EXCEPT ![line.key] = Parsed(line, @)]
    BY <1>1 DEF Apply
  <2>2. Understood(line) => Parsed(line, c[line.key]) = Value(line)
    BY DEF Understood, Parsed, Flag, Value
  <2>3. ~Understood(line) => Parsed(line, c[line.key]) = c[line.key]
    BY <1>1 DEF Understood, Parsed, Flag
  <2> QED
    BY <1>1, <2>1, <2>2, <2>3
<1>2. CASE ~ (Says(line) /\ line.key \in Keys)
  BY <1>2 DEF Apply, Understood
<1> QED
  BY <1>1, <1>2

Given(lines, n, key) == {i \in 1 .. n : lines[i].key = key /\ Understood(lines[i])}

\* What c says of a key after n lines have been read over base.
KeyHolds(base, c, lines, n, key) ==
    \/ Given(lines, n, key) = {} /\ c[key] = base[key]
    \/ \E i \in Given(lines, n, key) : /\ \A j \in Given(lines, n, key) : j <= i
                                       /\ c[key] = Value(lines[i])

LEMMA FileHolds ==
    ASSUME NEW base, DOMAIN base = Keys, NEW file \in Lines
    PROVE  /\ DOMAIN ParseFile(base, file) = Keys
           /\ \A key \in Keys : KeyHolds(base, ParseFile(base, file), file, Len(file), key)
<1> DEFINE c(n) == After(base, file, n)
           S == {n \in Nat : n <= Len(file) =>
                    /\ DOMAIN c(n) = Keys
                    /\ \A key \in Keys : KeyHolds(base, c(n), file, n, key)}
<1>0. /\ Len(file) \in Nat
      /\ \A n \in 1 .. Len(file) : file[n] \in Line
  BY DEF Lines
<1>1. 0 \in S
  <2>1. c(0) = base
    BY AfterSteps
  <2>2. 1 .. 0 = {}
    OBVIOUS
  <2>3. \A key \in Keys : Given(file, 0, key) = {}
    BY <2>2 DEF Given
  <2> QED
    BY <2>1, <2>3 DEF KeyHolds
<1>2. ASSUME NEW n \in Nat, n \in S, n + 1 <= Len(file)
      PROVE  /\ DOMAIN c(n + 1) = Keys
             /\ \A key \in Keys : KeyHolds(base, c(n + 1), file, n + 1, key)
  <2> HIDE DEF c
  <2>1. DOMAIN c(n) = Keys /\ \A key \in Keys : KeyHolds(base, c(n), file, n, key)
    BY <1>0, <1>2
  <2>2. n + 1 \in 1 .. Len(file) /\ n + 1 - 1 = n
    BY <1>0, <1>2
  <2>3. c(n + 1) = Apply(c(n), file[n + 1])
    BY <2>2, AfterSteps DEF c
  <2>4. ASSUME NEW key \in Keys
        PROVE  /\ DOMAIN c(n + 1) = Keys
               /\ KeyHolds(base, c(n + 1), file, n + 1, key)
    <3> DEFINE says == file[n + 1].key = key /\ Understood(file[n + 1])
    <3>1. /\ DOMAIN c(n + 1) = Keys
          /\ says => c(n + 1)[key] = Value(file[n + 1])
          /\ ~says => c(n + 1)[key] = c(n)[key]
      BY <1>0, <2>1, <2>2, <2>3, ApplySetsOneKey
    <3>2. \A i : i \in Given(file, n + 1, key)
                   <=> i \in Given(file, n, key) \/ (i = n + 1 /\ says)
      BY DEF Given
    <3>3. CASE says
      <4>1. n + 1 \in Given(file, n + 1, key)
        BY <3>2, <3>3
      <4>2. \A j \in Given(file, n + 1, key) : j <= n + 1
        BY DEF Given
      <4> QED
        BY <3>1, <3>3, <4>1, <4>2 DEF KeyHolds
    <3>4. CASE ~says
      <4>1. Given(file, n + 1, key) = Given(file, n, key)
        BY <3>2, <3>4
      <4> QED
        BY <2>1, <3>1, <3>4, <4>1 DEF KeyHolds
    <3> QED
      BY <3>1, <3>3, <3>4
  <2>5. Keys # {}
    BY DEF Keys, Defaults
  <2> QED
    BY <2>4, <2>5
<1> HIDE DEF c
<1>3. \A n \in Nat : n \in S => n + 1 \in S
  BY <1>0, <1>2
<1>4. Nat \subseteq S
  <2> HIDE DEF S
  <2> QED
    BY <1>1, <1>3, NatSetInduction
<1>5. ParseFile(base, file) = c(Len(file))
  BY AfterSteps DEF c
<1> QED
  BY <1>0, <1>4, <1>5

\* Load keeps that over two files: the system's lines follow the user's.
LEMMA LoadHolds ==
    ASSUME NEW override \in {<<>>} \cup {<<f>> : f \in Lines},
           NEW user \in Lines, NEW system \in Lines
    PROVE  /\ DOMAIN Load(override, user, system) = Keys
           /\ LastHolds(Load(override, user, system), Read(override, user, system))
<1> DEFINE c == Load(override, user, system)
           lines == Read(override, user, system)
<1>1. lines \in Lines /\ DOMAIN lines = 1 .. Len(lines)
  BY DEF Read, Lines
<1>2. DOMAIN c = Keys /\ \A key \in Keys : KeyHolds(Defaults, c, lines, Len(lines), key)
  <2>0. DOMAIN Defaults = Keys
    BY DEF Keys
  <2>1. CASE override # <<>>
    <3>1. c = ParseFile(Defaults, Head(override)) /\ lines = Head(override)
      BY <2>1 DEF Load, Read
    <3> QED
      BY <1>1, <2>0, <3>1, FileHolds
  <2>2. CASE override = <<>>
    <3> DEFINE u == ParseFile(Defaults, user)
               m == Len(user)
               n == Len(system)
    <3>1. c = ParseFile(u, system) /\ lines = user \o system
      BY <2>2 DEF Load, Read
    <3>2. DOMAIN u = Keys /\ \A key \in Keys : KeyHolds(Defaults, u, user, m, key)
      BY <2>0, FileHolds
    <3>3. DOMAIN c = Keys /\ \A key \in Keys : KeyHolds(u, c, system, n, key)
      BY <3>1, <3>2, FileHolds
    <3>4. /\ m \in Nat /\ n \in Nat /\ Len(lines) = m + n
          /\ \A i \in 1 .. m : lines[i] = user[i]
          /\ \A i \in 1 .. n : lines[m + i] = system[i]
      BY <3>1 DEF Lines
    <3> HIDE DEF u, m, n, c, lines
    <3>5. ASSUME NEW key \in Keys
          PROVE  KeyHolds(Defaults, c, lines, Len(lines), key)
      <4> DEFINE G == Given(lines, m + n, key)
                 U == Given(user, m, key)
                 V == Given(system, n, key)
      <4>1. \A i \in 1 .. m : i \in G <=> i \in U
        BY <3>4 DEF Given
      <4>2. \A i \in 1 .. n : m + i \in G <=> i \in V
        BY <3>4 DEF Given
      <4>3. /\ \A i \in G : i \in 1 .. m \/ (i - m \in 1 .. n /\ m + (i - m) = i)
            /\ U \subseteq 1 .. m /\ V \subseteq 1 .. n
        BY <3>4 DEF Given
      <4> HIDE DEF G, U, V
      <4>4. CASE V = {}
        <5>1. G = U
          BY <4>1, <4>2, <4>3, <4>4
        <5>2. c[key] = u[key]
          BY <3>3, <4>4 DEF KeyHolds, V
        <5>3. \A i \in U : lines[i] = user[i]
          BY <3>4, <4>3
        <5> QED
          BY <3>2, <3>4, <5>1, <5>2, <5>3 DEF KeyHolds, G, U
      <4>5. CASE V # {}
        <5>1. PICK i \in V : (\A j \in V : j <= i) /\ c[key] = Value(system[i])
          BY <3>3, <4>5 DEF KeyHolds, V
        <5>2. m + i \in G /\ lines[m + i] = system[i]
          BY <3>4, <4>2, <4>3, <5>1
        <5>3. ASSUME NEW j \in G
              PROVE  j <= m + i
          <6>1. CASE j \in 1 .. m
            BY <3>4, <4>3, <5>1, <6>1
          <6>2. CASE j - m \in 1 .. n /\ m + (j - m) = j
            <7>1. j - m \in V
              BY <4>2, <6>2
            <7> QED
              BY <3>4, <4>3, <5>1, <6>2, <7>1
          <6> QED
            BY <4>3, <6>1, <6>2
        <5> QED
          BY <3>4, <5>1, <5>2, <5>3 DEF KeyHolds, G
      <4> QED
        BY <4>4, <4>5
    <3> QED
      BY <3>3, <3>5
  <2> QED
    BY <2>1, <2>2
<1> HIDE DEF c, lines
<1>3. LastHolds(c, lines)
  BY <1>1, <1>2 DEF LastHolds, KeyHolds, Given, Keys
<1> QED
  BY <1>2, <1>3 DEF c, lines

-----------------------------------------------------------------------------
(* Types, and where the configuration comes from                           *)

EnvOK == /\ env.override \in {<<>>} \cup {<<f>> : f \in Files}
         /\ env.user \in Files /\ env.system \in Files

\* AddExtension's own count is set before it is used.
SeenOK == /\ seen \in [{"main", "init"} -> Nat]
          /\ main \in {"adding", "hookedAdding"} => seen["main"] # 0
          /\ init = "adding" => seen["init"] # 0

\* The constructor reads the files before it does anything else.
Untouched == /\ cfg = Defaults /\ init = "none" /\ ~patched /\ ~site
             /\ count = 0 /\ todo = Builtin
             /\ \A i \in 1 .. MaxExt : table[i] = Vacant
LoadedFirst == IF main = "load" THEN Untouched
               ELSE cfg = Load(env.override, env.user, env.system)

\* Only one of the constructor and the hook makes the thread that runs do_init.
SpawnedOnce ==
    /\ main \in {"load", "ctor"} => init = "none" /\ ~patched
    /\ main = "spawning" => ~patched
    /\ main \in {"hook", "hookedBuiltins", "hookedAdding"} => init = "none"
    /\ main \in {"hookedBuiltins", "hookedAdding"} => ~patched
    /\ patched => init = "none"

TInv == TypeOK /\ EnvOK /\ SeenOK /\ LoadedFirst /\ SpawnedOnce

LEMMA LoadKeys ==
    ASSUME EnvOK
    PROVE  /\ DOMAIN Load(env.override, env.user, env.system) = Keys
           /\ LastHolds(Load(env.override, env.user, env.system),
                        Read(env.override, env.user, env.system))
<1>1. Files \subseteq Lines
  BY StartupAssumption DEF Lines, Line
<1> QED
  BY <1>1, LoadHolds DEF EnvOK

LEMMA InitTInv == Init => TInv
<1> SUFFICES ASSUME Init
             PROVE  TInv
  OBVIOUS
<1>1. EnvOK
  BY DEF Init, EnvOK
<1>2. SeenOK
  BY DEF Init, SeenOK
<1>3. Untouched /\ main = "load"
  BY DEF Init, Untouched
<1>4. TypeOK
  <2>1. /\ table = [i \in 1 .. MaxExt |-> Vacant] /\ count = 0 /\ todo = Builtin
        /\ cfg = Defaults /\ main = "load" /\ patched = FALSE /\ site = FALSE
        /\ init = "none" /\ wired = {} /\ display = "untried"
    BY DEF Init
  <2>2. count \in 0 .. MaxExt /\ DOMAIN cfg = DOMAIN Defaults
    BY <2>1, StartupAssumption
  <2>3. table \in [1 .. MaxExt -> Builtin \cup CyXV \cup {Vacant}]
    BY <2>1
  <2> QED
    BY <2>1, <2>2, <2>3 DEF TypeOK
<1>5. SpawnedOnce
  BY DEF Init, SpawnedOnce
<1> QED
  BY <1>1, <1>2, <1>3, <1>4, <1>5 DEF TInv, LoadedFirst

\* A step of AddExtension keeps the table a table.
LEMMA StoreType ==
    ASSUME TypeOK, NEW t \in {"main", "init"}, seen[t] \in Nat \ {0},
           NEW e \in Builtin \cup CyXV, Store(t, e)
    PROVE  /\ count' \in 0 .. MaxExt
           /\ table' \in [1 .. MaxExt -> Builtin \cup CyXV \cup {Vacant}]
  BY StartupAssumption DEF Store, TypeOK

LEMMA NameOfCyXV == ExtensionName(cfg) \in CyXV
  BY DEF ExtensionName, CyXV

LEMMA NextTInv == TInv /\ [Next]_vars => TInv'
<1> SUFFICES ASSUME TInv, [Next]_vars
             PROVE  TInv'
  OBVIOUS
<1>0. TypeOK /\ EnvOK /\ SeenOK /\ LoadedFirst /\ SpawnedOnce
  BY DEF TInv
<1> USE DEF code, server, Step, InBuiltins
<1>1. CASE LoadConfig
  <2>1. /\ cfg' = Load(env.override, env.user, env.system)
        /\ main' = "ctor" /\ main = "load"
        /\ UNCHANGED <<env, code, init, wired, display, server, seen>>
    BY <1>1 DEF LoadConfig
  <2>2. DOMAIN cfg' = DOMAIN Defaults
    BY <1>0, <2>1, LoadKeys DEF Keys
  <2> QED
    BY <1>0, <2>1, <2>2 DEF TInv, TypeOK, EnvOK, SeenOK, LoadedFirst, Untouched, SpawnedOnce
<1> USE DEF TInv, TypeOK, EnvOK, SeenOK, LoadedFirst, SpawnedOnce
<1>2. CASE CtorHooks
  BY <1>0, <1>2 DEF CtorHooks, WriteHook, Untouched
<1>3. CASE CtorSpawns
  BY <1>0, <1>3 DEF CtorSpawns, Untouched
<1>4. CASE CtorReturns
  BY <1>0, <1>4 DEF CtorReturns, Untouched
<1>5. CASE CallInitExtensions
  BY <1>0, <1>5 DEF CallInitExtensions, Untouched
<1>6. CASE HookCallsReal
  BY <1>0, <1>6 DEF HookCallsReal, RemoveHook, Untouched
<1>7. CASE BuiltinLoads
  BY <1>0, <1>7 DEF BuiltinLoads, Untouched
<1>8. CASE BuiltinStores
  <2>1. PICK e \in todo : Store("main", e) /\ todo' = todo \ {e}
    BY <1>8 DEF BuiltinStores
  <2>2. /\ main \in {"adding", "hookedAdding"}
        /\ main' = IF main = "adding" THEN "builtins" ELSE "hookedBuiltins"
        /\ UNCHANGED <<env, cfg, code, init, wired, display, seen>>
    BY <1>8 DEF BuiltinStores
  <2>3. /\ count' \in 0 .. MaxExt
        /\ table' \in [1 .. MaxExt -> Builtin \cup CyXV \cup {Vacant}]
    BY <1>0, <2>1, <2>2, StoreType
  <2>4. TypeOK'
    BY <1>0, <2>1, <2>2, <2>3
  <2>5. SpawnedOnce'
    BY <1>0, <2>2
  <2>7. EnvOK' /\ SeenOK'
    BY <1>0, <2>2
  <2>6. LoadedFirst'
    BY <1>0, <2>2
  <2> HIDE DEF TypeOK, EnvOK, SeenOK, LoadedFirst, SpawnedOnce
  <2> QED
    BY <2>4, <2>5, <2>6, <2>7
<1>9. CASE HookSpawns
  BY <1>0, <1>9 DEF HookSpawns, Untouched
<1>10. CASE Serve
  BY <1>0, <1>10 DEF Serve, Untouched
<1>11. CASE ThreadStarts
  BY <1>0, <1>11 DEF ThreadStarts, Untouched
<1>12. CASE GiveUp
  BY <1>0, <1>12 DEF GiveUp, Untouched
<1>13. CASE SetWriteFn
  BY <1>0, <1>13 DEF SetWriteFn, Untouched
<1>14. CASE SetShmLookup
  BY <1>0, <1>14 DEF SetShmLookup, Untouched
<1>15. CASE OpenDisplay
  BY <1>0, <1>15 DEF OpenDisplay, Untouched
<1>16. CASE OpenDisplayFails
  BY <1>0, <1>16 DEF OpenDisplayFails, Untouched
<1>17. CASE StartRenderThread
  BY <1>0, <1>17 DEF StartRenderThread, Untouched
<1>18. CASE CyxvLoads
  BY <1>0, <1>18 DEF CyxvLoads, Untouched
<1>19. CASE CyxvStores
  <2>1. /\ count' \in 0 .. MaxExt
        /\ table' \in [1 .. MaxExt -> Builtin \cup CyXV \cup {Vacant}]
    BY <1>0, <1>19, StoreType, NameOfCyXV DEF CyxvStores
  <2> QED
    BY <1>0, <1>19, <2>1 DEF CyxvStores, Untouched
<1>20. CASE UNCHANGED vars
  BY <1>0, <1>20 DEF vars, Untouched
<1> QED
  BY <1>1, <1>2, <1>3, <1>4, <1>5, <1>6, <1>7, <1>8, <1>9, <1>10, <1>11, <1>12, <1>13, <1>14, <1>15, <1>16, <1>17, <1>18, <1>19, <1>20
  DEF Next, MainThread, InitThread

LEMMA TInvHolds == Spec => []TInv
  BY InitTInv, NextTInv, PTL DEF Spec

-----------------------------------------------------------------------------
(* do_init sets things up in order, and stores its own name last           *)

\* The configuration decides, once and for all, what do_init finds and whether
\* there is a hook.
LEMMA DecidedByConfig ==
    ASSUME UNCHANGED <<env, cfg>>
    PROVE  Found' = Found /\ HookPath' = HookPath
  BY DEF Found, Resolve, HookPath, Hookable, ImageBase

Registers == init = "done" /\ "AddExtension" \in Found
Past(steps) == init \in steps \/ Registers

WiredInOrder ==
    /\ init \in {"lookup", "open", "start", "add", "adding"} => "AddExtension" \in Found
    /\ Past({"lookup", "open", "start", "add", "adding"}) =>
          ("WriteToClient" \in Found => "WriteToClient" \in wired)
    /\ Past({"open", "start", "add", "adding"}) =>
          ({"dixLookupResourceByType", "ShmSegType"} \subseteq Found => "ShmLookup" \in wired)
    /\ init = "start" => display = "open" /\ "Display" \in wired
    /\ Past({"add", "adding"}) =>
          /\ display # "untried"
          /\ display = "open" => {"Display", "RenderThread"} \subseteq wired
    /\ \A i \in 1 .. MaxExt : table[i] \in CyXV => Registers

LEMMA InitWired == Init => WiredInOrder
  BY StartupAssumption DEF Init, WiredInOrder, Past, Registers

LEMMA NextWired == TInv /\ WiredInOrder /\ [Next]_vars => WiredInOrder'
<1> SUFFICES ASSUME TInv, WiredInOrder, [Next]_vars
             PROVE  WiredInOrder'
  OBVIOUS
<1>0. /\ table \in [1 .. MaxExt -> Builtin \cup CyXV \cup {Vacant}]
      /\ todo \subseteq Builtin /\ Vacant \notin CyXV /\ Builtin \cap CyXV = {}
      /\ SpawnedOnce
  BY StartupAssumption DEF TInv, TypeOK
<1> USE DEF code, server, Step, InBuiltins, WiredInOrder, Past, Registers
<1>1. CASE LoadConfig
  <2>1. /\ init' = "none"
        /\ \A i \in 1 .. MaxExt : table'[i] = Vacant
    BY <1>1 DEF LoadConfig, TInv, LoadedFirst, Untouched
  <2> QED
    BY <1>0, <2>1
<1>2. CASE CtorHooks
  BY <1>2, DecidedByConfig DEF CtorHooks, WriteHook
<1>3. CASE CtorSpawns
  BY <1>0, <1>3, DecidedByConfig DEF CtorSpawns, SpawnedOnce
<1>4. CASE CtorReturns
  BY <1>4, DecidedByConfig DEF CtorReturns
<1>5. CASE CallInitExtensions
  BY <1>5, DecidedByConfig DEF CallInitExtensions
<1>6. CASE HookCallsReal
  BY <1>6, DecidedByConfig DEF HookCallsReal, RemoveHook
<1>7. CASE BuiltinLoads
  BY <1>7, DecidedByConfig DEF BuiltinLoads
<1>8. CASE BuiltinStores
  <2>1. PICK e \in todo : Store("main", e)
    BY <1>8 DEF BuiltinStores
  <2>2. \A i \in 1 .. MaxExt : table'[i] \in CyXV => table[i] \in CyXV
    BY <1>0, <2>1 DEF Store
  <2> QED
    BY <1>8, <2>2, DecidedByConfig DEF BuiltinStores
<1>9. CASE HookSpawns
  BY <1>0, <1>9, DecidedByConfig DEF HookSpawns, SpawnedOnce
<1>10. CASE Serve
  BY <1>10, DecidedByConfig DEF Serve
<1>11. CASE ThreadStarts
  BY <1>11, DecidedByConfig DEF ThreadStarts
<1>12. CASE GiveUp
  BY <1>12, DecidedByConfig DEF GiveUp
<1>13. CASE SetWriteFn
  BY <1>13, DecidedByConfig DEF SetWriteFn
<1>14. CASE SetShmLookup
  BY <1>14, DecidedByConfig DEF SetShmLookup
<1>15. CASE OpenDisplay
  BY <1>15, DecidedByConfig DEF OpenDisplay
<1>16. CASE OpenDisplayFails
  BY <1>16, DecidedByConfig DEF OpenDisplayFails
<1>17. CASE StartRenderThread
  BY <1>17, DecidedByConfig DEF StartRenderThread
<1>18. CASE CyxvLoads
  BY <1>18, DecidedByConfig DEF CyxvLoads
<1>19. CASE CyxvStores
  BY <1>19, DecidedByConfig DEF CyxvStores
<1>20. CASE UNCHANGED vars
  BY <1>20, DecidedByConfig DEF vars
<1> QED
  BY <1>1, <1>2, <1>3, <1>4, <1>5, <1>6, <1>7, <1>8, <1>9, <1>10, <1>11, <1>12, <1>13, <1>14, <1>15, <1>16, <1>17, <1>18, <1>19, <1>20
  DEF Next, MainThread, InitThread

-----------------------------------------------------------------------------
(* On the hook path, one AddExtension at a time                            *)

Added == Cardinality(Builtin \ todo)
Listed(n) == {table[i] : i \in 1 .. n}

\* The thread that runs do_init is made when InitExtensions has come to its end.
OneAfterTheOther == HookPath /\ main # "load" =>
    /\ main \in {"ctor", "boot", "hook", "hookedBuiltins", "hookedAdding", "hooked", "serve"}
    /\ main \in {"boot", "hook"} => patched /\ site
    /\ main \notin {"hooked", "serve"} => init = "none"
    /\ main \in {"hooked", "serve"} => todo = {}

\* So the count is that of the extensions added, each has an entry, and a count
\* that was read is still the count when it is used.
Counted == HookPath /\ main # "load" /\ Cardinality(Builtin) < MaxExt =>
    /\ count = IF Registers THEN Added + 1 ELSE Added
    /\ Builtin \ todo \subseteq Listed(Added)
    /\ main = "hookedAdding" => seen["main"] = Added + 1
    /\ init = "adding" => seen["init"] = Added + 1
    /\ Registers => table[count] = ExtensionName(cfg)

LEMMA AddedType ==
    ASSUME TypeOK
    PROVE  Added \in Nat /\ Added <= Cardinality(Builtin)
<1>1. IsFiniteSet(Builtin) /\ Builtin \ todo \subseteq Builtin
  BY StartupAssumption
<1> QED
  BY <1>1, FS_Subset, FS_CardinalityType DEF Added

LEMMA AddedOne ==
    ASSUME TypeOK, NEW e \in todo, todo' = todo \ {e}
    PROVE  Added' = Added + 1 /\ Added' <= Cardinality(Builtin)
<1>1. IsFiniteSet(Builtin \ todo) /\ IsFiniteSet(Builtin)
  BY StartupAssumption, FS_Subset
<1>2. Builtin \ todo' = (Builtin \ todo) \cup {e} /\ e \notin Builtin \ todo
  BY DEF TypeOK
<1>3. Cardinality((Builtin \ todo) \cup {e}) = Cardinality(Builtin \ todo) + 1
  BY <1>1, <1>2, FS_AddElement
<1>4. Cardinality(Builtin \ todo') <= Cardinality(Builtin)
  BY <1>1, <1>2, FS_Subset
<1> QED
  BY <1>2, <1>3, <1>4 DEF Added

HInv == OneAfterTheOther /\ Counted

LEMMA NextHInv == TInv /\ WiredInOrder /\ HInv /\ [Next]_vars => HInv'
<1> SUFFICES ASSUME TInv, WiredInOrder, HInv, [Next]_vars
             PROVE  HInv'
  OBVIOUS
<1>0. /\ TypeOK /\ Added \in Nat /\ Added <= Cardinality(Builtin)
      /\ Cardinality(Builtin) \in Nat /\ MaxExt \in Nat
      /\ seen \in [{"main", "init"} -> Nat]
  BY AddedType, StartupAssumption, FS_CardinalityType DEF TInv, SeenOK
<1> USE DEF code, server, Step, InBuiltins, HInv, OneAfterTheOther, Counted, Registers, Listed
<1>1. CASE LoadConfig
  <2>1. /\ init' = "none" /\ main' = "ctor" /\ count' = 0 /\ todo' = Builtin
    BY <1>1 DEF LoadConfig, TInv, LoadedFirst, Untouched
  <2>2. Added' = 0
    BY <2>1, FS_EmptySet DEF Added
  <2> QED
    BY <2>1, <2>2
<1>2. CASE CtorHooks
  <2>1. /\ main = "ctor" /\ main' = "boot" /\ patched' /\ site' /\ init' = "none"
        /\ UNCHANGED <<env, cfg, init, wired, display, server, seen>>
    BY <1>2 DEF CtorHooks, WriteHook, TInv, SpawnedOnce
  <2>2. OneAfterTheOther'
    BY <2>1
  <2>3. Counted'
    BY <2>1, DecidedByConfig DEF Added
  <2> QED
    BY <2>2, <2>3
<1>3. CASE CtorSpawns
  <2>1. ~ HookPath'
    BY <1>3, DecidedByConfig DEF CtorSpawns, HookPath
  <2> QED
    BY <2>1
<1>4. CASE CtorReturns
  BY <1>0, <1>4, DecidedByConfig DEF CtorReturns, Added
<1>5. CASE CallInitExtensions
  BY <1>0, <1>5, DecidedByConfig DEF CallInitExtensions, Added
<1>6. CASE HookCallsReal
  BY <1>0, <1>6, DecidedByConfig DEF HookCallsReal, RemoveHook, Added
<1>7. CASE BuiltinLoads
  BY <1>0, <1>7, DecidedByConfig DEF BuiltinLoads, Added
<1>8. CASE BuiltinStores
  <2> SUFFICES ASSUME HookPath
               PROVE  HInv'
    BY <1>8, DecidedByConfig DEF BuiltinStores
  <2>1. PICK e \in todo : Store("main", e) /\ todo' = todo \ {e}
    BY <1>8 DEF BuiltinStores
  <2>2. /\ main = "hookedAdding" /\ main' = "hookedBuiltins" /\ init = "none"
        /\ UNCHANGED <<env, cfg, code, init, wired, display, seen>>
    BY <1>8 DEF BuiltinStores
  <2>3. ASSUME Cardinality(Builtin) < MaxExt
        PROVE  count' = Added' /\ Builtin \ todo' \subseteq Listed(Added)'
    <3>1. Added' = Added + 1 /\ Added' <= MaxExt /\ seen["main"] = Added + 1
      BY <1>0, <2>1, <2>2, <2>3, AddedOne
    <3>2. /\ count' = Added' /\ table' = [table EXCEPT ![Added'] = e]
      BY <1>0, <2>1, <3>1 DEF Store
    <3>3. \A i \in 1 .. Added : table'[i] = table[i] /\ i \in 1 .. Added'
      BY <1>0, <3>1, <3>2 DEF TypeOK
    <3>4. table'[Added'] = e /\ Added' \in 1 .. Added'
      BY <1>0, <3>1, <3>2 DEF TypeOK
    <3>5. Builtin \ todo \subseteq Listed(Added)
      BY <2>2, <2>3
    <3>6. Builtin \ todo' = (Builtin \ todo) \cup {e}
      BY <1>0, <2>1 DEF TypeOK
    <3>7. ASSUME NEW x \in Builtin \ todo'
          PROVE  \E i \in 1 .. Added' : x = table'[i]
      <4>1. CASE x = e
        BY <3>4, <4>1
      <4>2. CASE x # e
        BY <3>3, <3>5, <3>6, <4>2
      <4> QED
        BY <4>1, <4>2
    <3> QED
      BY <3>2, <3>7
  <2> QED
    BY <2>2, <2>3
<1>9. CASE HookSpawns
  BY <1>0, <1>9, DecidedByConfig DEF HookSpawns, Added
<1>10. CASE Serve
  BY <1>0, <1>10, DecidedByConfig DEF Serve, Added
<1>11. CASE ThreadStarts
  BY <1>0, <1>11, DecidedByConfig DEF ThreadStarts, Added
<1>12. CASE GiveUp
  <2>1. /\ init = "resolve" /\ init' = "done"
        /\ UNCHANGED <<env, cfg, main, code, wired, display, server, seen>>
    BY <1>12 DEF GiveUp
  <2>2. "AddExtension" \notin Found /\ "AddExtension" \notin Found'
    BY <1>12, <2>1, DecidedByConfig DEF GiveUp
  <2>3. ~Registers /\ ~Registers'
    BY <2>2
  <2>4. OneAfterTheOther'
    BY <2>1, DecidedByConfig
  <2>5. Counted'
    BY <2>1, <2>3, DecidedByConfig DEF Added
  <2> QED
    BY <2>4, <2>5
<1>13. CASE SetWriteFn
  <2>0. /\ init = "resolve" /\ init' = "lookup"
        /\ UNCHANGED <<env, cfg, main, code, server, seen>>
    BY <1>13 DEF SetWriteFn
  <2>1. OneAfterTheOther'
    BY <2>0, DecidedByConfig
  <2>2. Counted'
    BY <2>0, DecidedByConfig DEF Added
  <2> QED
    BY <2>1, <2>2
<1>14. CASE SetShmLookup
  <2>0. /\ init = "lookup" /\ init' = "open"
        /\ UNCHANGED <<env, cfg, main, code, server, seen>>
    BY <1>14 DEF SetShmLookup
  <2>1. OneAfterTheOther'
    BY <2>0, DecidedByConfig
  <2>2. Counted'
    BY <2>0, DecidedByConfig DEF Added
  <2> QED
    BY <2>1, <2>2
<1>15. CASE OpenDisplay
  <2>0. /\ init = "open" /\ init' = "start"
        /\ UNCHANGED <<env, cfg, main, code, server, seen>>
    BY <1>15 DEF OpenDisplay
  <2>1. OneAfterTheOther'
    BY <2>0, DecidedByConfig
  <2>2. Counted'
    BY <2>0, DecidedByConfig DEF Added
  <2> QED
    BY <2>1, <2>2
<1>16. CASE OpenDisplayFails
  <2>0. /\ init = "open" /\ init' = "add"
        /\ UNCHANGED <<env, cfg, main, code, server, seen>>
    BY <1>16 DEF OpenDisplayFails
  <2>1. OneAfterTheOther'
    BY <2>0, DecidedByConfig
  <2>2. Counted'
    BY <2>0, DecidedByConfig DEF Added
  <2> QED
    BY <2>1, <2>2
<1>17. CASE StartRenderThread
  <2>0. /\ init = "start" /\ init' = "add"
        /\ UNCHANGED <<env, cfg, main, code, server, seen>>
    BY <1>17 DEF StartRenderThread
  <2>1. OneAfterTheOther'
    BY <2>0, DecidedByConfig
  <2>2. Counted'
    BY <2>0, DecidedByConfig DEF Added
  <2> QED
    BY <2>1, <2>2
<1>18. CASE CyxvLoads
  BY <1>0, <1>18, DecidedByConfig DEF CyxvLoads, Added
<1>19. CASE CyxvStores
  <2> SUFFICES ASSUME HookPath
               PROVE  HInv'
    BY <1>19, DecidedByConfig DEF CyxvStores
  <2>1. /\ init = "adding" /\ init' = "done" /\ Store("init", ExtensionName(cfg))
        /\ UNCHANGED <<env, cfg, main, code, wired, display, todo, seen>>
    BY <1>19 DEF CyxvStores
  <2>2. OneAfterTheOther' /\ Added' = Added
    BY <2>1, DecidedByConfig DEF Added
  <2>3. ASSUME Cardinality(Builtin) < MaxExt, main # "load"
        PROVE  Counted'
    <3>1. /\ seen["init"] = Added + 1 /\ Added + 1 <= MaxExt
      BY <1>0, <2>1, <2>3
    <3>2. /\ count' = Added + 1 /\ table' = [table EXCEPT ![Added + 1] = ExtensionName(cfg)]
      BY <1>0, <2>1, <3>1 DEF Store
    <3>3. Listed(Added)' = Listed(Added)
      BY <1>0, <2>2, <3>1, <3>2 DEF TypeOK
    <3>4. table'[count'] = ExtensionName(cfg)
      BY <1>0, <3>1, <3>2 DEF TypeOK
    <3>5. Registers'
      BY <2>1, DecidedByConfig DEF WiredInOrder
    <3>6. ExtensionName(cfg)' = ExtensionName(cfg)
      BY <2>1
    <3> QED
      BY <2>1, <2>2, <2>3, <3>1, <3>2, <3>3, <3>4, <3>5, <3>6
  <2> QED
    BY <2>1, <2>2, <2>3
<1>20. CASE UNCHANGED vars
  BY <1>20, DecidedByConfig DEF vars, Added
<1> QED
  BY <1>1, <1>2, <1>3, <1>4, <1>5, <1>6, <1>7, <1>8, <1>9, <1>10, <1>11, <1>12, <1>13, <1>14, <1>15, <1>16, <1>17, <1>18, <1>19, <1>20
  DEF Next, MainThread, InitThread
LEMMA InitHInv == Init => HInv
<1> SUFFICES ASSUME Init
             PROVE  HInv
  OBVIOUS
<1>1. main = "load"
  BY DEF Init
<1> QED
  BY <1>1 DEF HInv, OneAfterTheOther, Counted

LEMMA HInvHolds == Spec => [](TInv /\ WiredInOrder /\ HInv)
<1>1. Init => TInv /\ WiredInOrder /\ HInv
  BY InitTInv, InitWired, InitHInv
<1>2. TInv /\ WiredInOrder /\ HInv /\ [Next]_vars => (TInv /\ WiredInOrder /\ HInv)'
  BY NextTInv, NextWired, NextHInv
<1> QED
  BY <1>1, <1>2, PTL DEF Spec

-----------------------------------------------------------------------------
(* The theorems                                                            *)

\* Every variable of the start-up keeps its type; in particular the count of
\* the extension table stays within the table, whichever thread stored last.
THEOREM TypeCorrect == Spec => []TypeOK
<1>1. TInv => TypeOK
  BY DEF TInv
<1> QED
  BY <1>1, TInvHolds, PTL

\* cyxv_config_load layers the files as the program means them to be: for files
\* of any length, each key ends up with what its last line said.
THEOREM LayersHold == Spec => []ConfigIsLayered
<1>1. TInv => ConfigIsLayered
  BY LoadKeys DEF TInv, LoadedFirst, ConfigIsLayered
<1> QED
  BY <1>1, TInvHolds, PTL

\* Whatever the server exports and however the two threads interleave, do_init
\* has wired everything it can before AddExtension lets a client in.
THEOREM WiringPrecedesClients == Spec => []WiredBeforeVisible
<1>1. TInv /\ WiredInOrder => WiredBeforeVisible
  <2> SUFFICES ASSUME TInv, WiredInOrder, Registered
               PROVE  WiredBeforeVisible
    BY DEF WiredBeforeVisible
  <2>1. PICK i \in 1 .. count : table[i] = ExtensionName(cfg)
    BY DEF Registered, Extensions
  <2>2. i \in 1 .. MaxExt /\ table[i] \in CyXV
    BY <2>1, NameOfCyXV, StartupAssumption DEF TInv, TypeOK
  <2>3. Registers
    BY <2>2 DEF WiredInOrder
  <2> QED
    BY <2>3 DEF WiredInOrder, WiredBeforeVisible, Past
<1> QED
  BY <1>1, HInvHolds, PTL

\* With any set of built-in extensions that leaves the table room for one more,
\* the hook loses none of them, nor the one it is there for.
THEOREM RegistrationsSurvive == Spec => []NoneLost
<1>1. TInv /\ HInv => NoneLost
  <2> SUFFICES ASSUME TInv, HInv, HookPath, Cardinality(Builtin) < MaxExt
               PROVE  /\ Builtin \ todo \subseteq Extensions
                      /\ init = "done" /\ "AddExtension" \in Found =>
                             table[count] = ExtensionName(cfg)
    BY DEF NoneLost
  <2>1. main # "load"
    BY DEF TInv, LoadedFirst, Untouched, HookPath, Hookable, Defaults
  <2>2. Counted /\ Added \in Nat
    BY AddedType DEF HInv, TInv
  <2>3. Added <= count /\ Builtin \ todo \subseteq Listed(Added)
    BY <2>1, <2>2 DEF Counted
  <2>4. Listed(Added) \subseteq Extensions
    BY <2>2, <2>3 DEF Listed, Extensions, Counted, TInv, TypeOK
  <2> QED
    BY <2>1, <2>2, <2>3, <2>4 DEF Counted, Registers
<1> QED
  BY <1>1, HInvHolds, PTL
=============================================================================
