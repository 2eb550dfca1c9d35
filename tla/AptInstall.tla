----------------------------- MODULE AptInstall -----------------------------
(***************************************************************************)
(* install, reinstall, upgrade and remove of src/apt-cyg: the recursion of *)
(* _do-install over dependencies, download, extraction, the checks with    *)
(* their rollback, and the record in installed.db.  A command is one run   *)
(* of the script; it can be killed anywhere (Ctrl-C, power), and whatever  *)
(* it left on disk is what the next one finds.                             *)
(*                                                                         *)
(* What a mirror, tar or the PE check answers is a choice: a download may  *)
(* fail (unknown package, wrong hash, hollow archive), an extraction may   *)
(* fail, a binary may be a ghost.  setup.ini changes only between commands.*)
(***************************************************************************)
EXTENDS Naturals, Sequences, FiniteSets, SequencesExt

CONSTANTS Pkg,        \* package names
          Rank,       \* their places in the order of names
          Ver,        \* versions
          Versions,   \* the versions each package has come out in
          Path,       \* installable files
          Requires,   \* the packages each package requires, provides resolved
          Files,      \* the files of each version of each package
          Essential,  \* packages cygcheck finds under the tools apt-cyg runs
          MaxTargets, \* how many packages a command line names
          None

Op == {"install", "reinstall", "upgrade", "remove"}

ASSUME AptAssumption == /\ Rank \in [Pkg -> Nat]
                        /\ Versions \in [Pkg -> SUBSET Ver]
                        /\ Requires \in [Pkg -> SUBSET Pkg]
                        /\ Files \in [Pkg -> [Ver -> SUBSET Path]]
                        /\ Essential \subseteq Pkg
                        /\ MaxTargets \in Nat
                        /\ IsFiniteSet(Pkg)

Line == [ver : Ver, explicit : {0, 1}]
Record == Line \cup {None}
Command == [op : Op, todo : Seq(Pkg), nodeps : BOOLEAN]

\* None is none of the values it stands in for.
ASSUME NoneAssumption == /\ None \notin Ver \cup Line
                         /\ None \notin [Pkg -> Record] \cup Command

VARIABLES avail,      \* the version setup.ini offers
          db,         \* /etc/setup/installed.db: version and "explicit" column
          headed,     \* installed.db has its header line
          tmp,        \* /tmp/awk.$$, the table that is to replace it
          lst,        \* /etc/setup/<pkg>.lst.gz: the version it lists
          fs,         \* the files on disk
          cmd,        \* the command being run and the targets it has not reached
          stack,      \* the calls of _do-install, innermost last
          installing, \* _installing
          cwd,        \* "ini": setup.ini is in the current directory; or "pkg"
          fresh,      \* history: packages this command has recorded
          damaged     \* history: recorded packages some of whose files a
                      \* rollback or a killed removal has deleted
disk == <<db, tmp, lst, fs>>
process == <<cmd, stack, installing, cwd, fresh>>
vars == <<avail, disk, headed, process, damaged>>

Targets == UNION {[1 .. n -> Pkg] : n \in 1 .. MaxTargets}
NoRecords == [p \in Pkg |-> None]
Idle == cmd = None

Init == /\ avail \in [Pkg -> Ver] /\ \A p \in Pkg : avail[p] \in Versions[p]
        /\ db = NoRecords
        /\ headed = TRUE
        /\ tmp = None
        /\ lst = [p \in Pkg |-> None]
        /\ fs = {}
        /\ cmd = None
        /\ stack = <<>>
        /\ installing = {}
        /\ cwd = "ini"
        /\ fresh = {}
        /\ damaged = {}

\* The process ends, whatever it was in the middle of.
Exit == /\ cmd' = None
        /\ stack' = <<>>
        /\ installing' = {}
        /\ cwd' = "ini"
        /\ fresh' = {}

Top == Last(stack)
At(step) == stack # <<>> /\ Top.at = step
Goto(step) == stack' = [stack EXCEPT ![Len(stack)].at = step]
Pop == stack' = Front(stack)

Recorded(p) == db[p] # None

\* apt-upgrade looks behind the first line of the table.  One begun anew after
\* the old one was lost has no header there, but the first of its records.
Overlooked(p) == ~headed /\ \A q \in Pkg : Recorded(q) => Rank[p] <= Rank[q]

-----------------------------------------------------------------------------
(* The command line                                                        *)

Start(op, targets, nodeps) ==
    /\ Idle
    /\ cmd' = [op |-> op, todo |-> targets, nodeps |-> nodeps]
    /\ UNCHANGED <<avail, disk, stack, installing, cwd, fresh, damaged>>

\* "upgrade" without targets takes every recorded package, in the order of the
\* table, which is that of the names.
StartUpgradeAll ==
    /\ Idle
    /\ \E targets \in SetToSeqs({p \in Pkg : Recorded(p) /\ ~Overlooked(p)}), nodeps \in BOOLEAN :
         /\ \A i, j \in DOMAIN targets : i < j => Rank[targets[i]] <= Rank[targets[j]]
         /\ cmd' = [op |-> "upgrade", todo |-> targets, nodeps |-> nodeps]
    /\ UNCHANGED <<avail, disk, stack, installing, cwd, fresh, damaged>>

\* apt-update, between commands.
Update(p, v) == /\ Idle
                /\ avail' = [avail EXCEPT ![p] = v]
                /\ UNCHANGED <<disk, process, damaged>>

\* The head of _do-install: a package already being installed, or already
\* installed and not forced, is skipped; otherwise base gets a new call.
MutSkipped(p, force) == FALSE \* mutant: neither guard
Skipped(p, force) == p \in installing \/ (~force /\ Recorded(p))
Call(base, p, explicit, force) ==
    IF Skipped(p, force)
    THEN stack' = base /\ UNCHANGED installing
    ELSE /\ stack' = Append(base, [pkg |-> p, explicit |-> explicit,
                                   at |-> "download", deps |-> Requires[p]])
         /\ installing' = installing \cup {p}

AtTarget(op) == ~Idle /\ cmd.op = op /\ stack = <<>> /\ cmd.todo # <<>>
Target == Head(cmd.todo)
NextTarget == cmd' = [cmd EXCEPT !.todo = Tail(@)]

InstallTarget == /\ AtTarget("install") \/ AtTarget("reinstall")
                 /\ NextTarget
                 /\ Call(<<>>, Target, 1, cmd.op = "reinstall")
                 /\ UNCHANGED <<avail, disk, cwd, fresh, damaged>>

\* apt-upgrade looks the target up in the setup.ini of the current directory; a
\* record it overlooks has no version that could be the one offered.
UpToDate == \/ ~Recorded(Target)
            \/ cwd # "ini"
            \/ ~Overlooked(Target) /\ db[Target].ver = avail[Target]
UpgradeTarget == /\ AtTarget("upgrade")
                 /\ NextTarget
                 /\ IF UpToDate THEN UNCHANGED <<stack, installing>>
                    ELSE Call(<<>>, Target, 1, TRUE)
                 /\ UNCHANGED <<avail, disk, cwd, fresh, damaged>>

Finish == /\ ~Idle /\ stack = <<>> /\ cmd.todo = <<>>
          /\ Exit
          /\ UNCHANGED <<avail, disk, damaged>>

-----------------------------------------------------------------------------
(* _do-install                                                             *)

\* download found no such package, a wrong hash or a hollow archive: exit, at
\* whatever depth of the recursion.
DownloadFails == /\ At("download")
                 /\ Exit
                 /\ UNCHANGED <<avail, disk, damaged>>

\* The manifest is written when the archive has passed; then the caller
\* changes into the package's directory.
Download == /\ At("download")
            /\ cwd = "ini"
            /\ lst' = [lst EXCEPT ![Top.pkg] = avail[Top.pkg]]
            /\ cwd' = "pkg"
            /\ Goto("extract")
            /\ UNCHANGED <<avail, db, tmp, fs, cmd, installing, fresh, damaged>>

NewFiles == Files[Top.pkg][avail[Top.pkg]]

MutExtract == /\ At("extract") \* mutant: tar's status is not looked at
              /\ \E S \in SUBSET NewFiles : fs' = fs \cup S
              /\ Goto("check")
              /\ UNCHANGED <<avail, db, tmp, lst, cmd, installing, cwd, fresh, damaged>>
Extract == /\ At("extract")
           /\ fs' = fs \cup NewFiles
           /\ Goto("check")
           /\ UNCHANGED <<avail, db, tmp, lst, cmd, installing, cwd, fresh, damaged>>

\* tar failed, or a binary is a ghost: _rollback-extract removes every file of
\* the archive's manifest, then exit.
Rollback == /\ At("extract") \/ At("check")
            /\ fs' = fs \ NewFiles
            /\ damaged' = damaged \cup ({Top.pkg} \cap {p \in Pkg : Recorded(p)})
            /\ Exit
            /\ UNCHANGED <<avail, db, tmp, lst>>

ChecksPass == /\ At("check")
              /\ Goto("record")
              /\ UNCHANGED <<avail, disk, cmd, installing, cwd, fresh, damaged>>

\* awk writes the new table, mv puts the old one aside ...
MoveAside == /\ At("record")
             /\ tmp' = [db EXCEPT ![Top.pkg] = [ver |-> avail[Top.pkg],
                                                explicit |-> Top.explicit]]
             /\ db' = NoRecords
             /\ Goto("replace")
             /\ UNCHANGED <<avail, lst, fs, cmd, installing, cwd, fresh, damaged>>

MutMoveInStays == /\ At("replace") \* mutant: the way back comes after the dependencies
                  /\ db' = tmp
                  /\ tmp' = None
                  /\ fresh' = fresh \cup {Top.pkg}
                  /\ damaged' = damaged \ {Top.pkg}
                  /\ Goto("deps")
                  /\ UNCHANGED <<avail, lst, fs, cmd, installing, cwd>>
MutMoveIn == /\ At("replace") \* mutant: the new table is copied, not moved
             /\ db' = tmp
             /\ fresh' = fresh \cup {Top.pkg}
             /\ damaged' = damaged \ {Top.pkg}
             /\ Goto("deps")
             /\ cwd' = "ini"
             /\ UNCHANGED <<avail, tmp, lst, fs, cmd, installing>>
\* ... and mv puts the new one in place.  --nodeps returns here, without the
\* way back to the directory of setup.ini.
MoveIn == /\ At("replace")
          /\ db' = tmp
          /\ tmp' = None
          /\ fresh' = fresh \cup {Top.pkg}
          /\ damaged' = damaged \ {Top.pkg}
          /\ IF cmd.nodeps
             THEN /\ Pop
                  /\ installing' = installing \ {Top.pkg}
                  /\ UNCHANGED cwd
             ELSE /\ Goto("deps")
                  /\ cwd' = "ini"
                  /\ UNCHANGED installing
          /\ UNCHANGED <<avail, lst, fs, cmd>>

\* One turn of the dependency loop.  Its own look into installed.db is the one
\* the call would make.
Dependency(q) ==
    /\ At("deps")
    /\ q \in Top.deps
    /\ Call([stack EXCEPT ![Len(stack)].deps = @ \ {q}], q, 0, FALSE)
    /\ UNCHANGED <<avail, disk, cmd, cwd, fresh, damaged>>

MutReturnsEarly == /\ At("deps") \* mutant: only the first dependency is handled
                   /\ Cardinality(Top.deps) <= 1
                   /\ Pop
                   /\ installing' = installing \ {Top.pkg}
                   /\ UNCHANGED <<avail, disk, cmd, cwd, fresh, damaged>>
Returns == /\ At("deps")
           /\ Top.deps = {}
           /\ Pop
           /\ installing' = installing \ {Top.pkg}
           /\ UNCHANGED <<avail, disk, cmd, cwd, fresh, damaged>>

-----------------------------------------------------------------------------
(* apt-remove                                                              *)

RemoveSkips == /\ AtTarget("remove")
               /\ ~Recorded(Target)
               /\ NextTarget
               /\ UNCHANGED <<avail, disk, stack, installing, cwd, fresh, damaged>>

RemoveRefuses == /\ AtTarget("remove")
                 /\ Recorded(Target)
                 /\ lst[Target] = None \/ Target \in Essential
                 /\ Exit
                 /\ UNCHANGED <<avail, disk, damaged>>

\* The files of the manifest go first, then the manifest, then the record.
RemoveFiles == /\ AtTarget("remove")
               /\ Recorded(Target)
               /\ lst[Target] # None /\ Target \notin Essential
               /\ fs' = fs \ Files[Target][lst[Target]]
               /\ stack' = <<[pkg |-> Target, explicit |-> 1, at |-> "unlist", deps |-> {}]>>
               /\ damaged' = damaged \cup {Target}
               /\ NextTarget
               /\ UNCHANGED <<avail, db, tmp, lst, installing, cwd, fresh>>

Unlist == /\ At("unlist")
          /\ lst' = [lst EXCEPT ![Top.pkg] = None]
          /\ Goto("unrecord")
          /\ UNCHANGED <<avail, db, tmp, fs, cmd, installing, cwd, fresh, damaged>>

Unrecord == /\ At("unrecord")
            /\ db' = [db EXCEPT ![Top.pkg] = None]
            /\ damaged' = damaged \ {Top.pkg}
            /\ Pop
            /\ UNCHANGED <<avail, tmp, lst, fs, cmd, installing, cwd, fresh>>

-----------------------------------------------------------------------------
\* The process dies; an extraction under way has written some of the files, and
\* between the two mv's the table is gone, with its header.
Killed == /\ ~Idle
          /\ IF At("extract") THEN \E S \in SUBSET NewFiles : fs' = fs \cup S
             ELSE UNCHANGED fs
          /\ tmp' = None
          /\ headed' = (headed /\ ~At("replace"))
          /\ Exit
          /\ UNCHANGED <<avail, db, lst, damaged>>

Commands == /\ UNCHANGED headed
            /\ \/ \E op \in Op, targets \in Targets, nodeps \in BOOLEAN :
                   Start(op, targets, op # "remove" /\ nodeps)
               \/ StartUpgradeAll
               \/ \E p \in Pkg : \E v \in Versions[p] : Update(p, v)
Steps == /\ UNCHANGED headed
         /\ \/ InstallTarget \/ UpgradeTarget \/ Finish
            \/ DownloadFails \/ Download \/ Extract \/ Rollback \/ ChecksPass
            \/ MoveAside \/ MoveIn \/ (\E q \in Pkg : Dependency(q)) \/ Returns
            \/ RemoveSkips \/ RemoveRefuses \/ RemoveFiles \/ Unlist \/ Unrecord
Next == Commands \/ Steps \/ Killed

\* A script that is not killed goes on.
Spec == Init /\ [][Next]_vars /\ WF_vars(Steps)

-----------------------------------------------------------------------------
StateOK ==
    /\ avail \in [Pkg -> Ver]
    /\ db \in [Pkg -> Record]
    /\ tmp \in [Pkg -> Record] \cup {None}
    /\ (tmp # None) <=> At("replace")
    /\ lst \in [Pkg -> Ver \cup {None}]
    /\ fs \subseteq Path
    /\ cmd = None \/ cmd \in Command
    /\ installing \subseteq Pkg
    /\ cwd \in {"ini", "pkg"}
    /\ fresh \subseteq Pkg /\ damaged \subseteq Pkg
TypeOK == StateOK /\ headed \in BOOLEAN

\* A recorded package has its files, through failed installs of others, kills
\* at any point and upgrades; only a rollback or a killed removal of the very
\* package is excepted.
RecordsAreTrue ==
    \A p \in Pkg \ damaged : Recorded(p) => Files[p][db[p].ver] \subseteq fs

\* No package is being installed twice at once, whatever cycles the
\* requirements have: the recursion of _do-install is at most |Pkg| calls deep
\* and ends.  The guard of lines 785-788 and the record made before the
\* dependencies are looked at both see to it.
CallsAreDistinct ==
    /\ \A i, j \in DOMAIN stack : stack[i].pkg = stack[j].pkg => i = j
    /\ Len(stack) <= Cardinality(Pkg)

\* When a command comes to its end without --nodeps, every package it has
\* recorded has all it requires recorded, cycles and shared requirements too.
FreshIsComplete ==
    ~Idle /\ ~cmd.nodeps /\ stack = <<>> /\ cmd.todo = <<>> /\ cmd.op # "remove" =>
        \A p \in fresh : \A q \in Requires[p] : Recorded(q)

\* At any depth of the recursion, a package is downloaded in the directory that
\* has setup.ini: the cd's of download and _do-install undo each other.  With
\* --nodeps they do not (line 856 returns before the second "cd ~-"), and a
\* second target is then not found.
DownloadsFindSetupIni == At("download") /\ ~cmd.nodeps => cwd = "ini"

-----------------------------------------------------------------------------
(* What the script says of itself and does not do                          *)

\* "on failure we roll back the extracted files so the target stays in a clean
\* state" (apt-cyg:826-827): installing deletes no file of a recorded package.
RollbackIsClean ==
    [][~Idle /\ cmd.op # "remove" => 
         \A p \in Pkg : Recorded(p) => fs \cap Files[p][db[p].ver] \subseteq fs']_vars
=============================================================================
