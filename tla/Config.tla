------------------------------- MODULE Config -------------------------------
(***************************************************************************)
(* cyxv_config.c: what a configuration file is taken to say, and which     *)
(* files are read.  A file is the sequence of what fgets returns, each     *)
(* without its comment and cut at its "="; a missing file is the empty     *)
(* one.  A line longer than the buffer comes in pieces, and each piece is  *)
(* read like a line.                                                       *)
(***************************************************************************)
EXTENDS Naturals, SequencesExt

Flags == {"xvcompat", "ring_drop_log"}
Addresses == {"rva_add_extension", "rva_write_to_client", "rva_init_extensions"}

Defaults == [xvcompat |-> TRUE, ring_drop_log |-> FALSE, display |-> ":0",
             rva_add_extension |-> 0, rva_write_to_client |-> 0, rva_init_extensions |-> 0]

\* parse_bool leaves alone what it does not understand, strtoull makes it 0.
Flag(val, old) == IF val = "yes" THEN TRUE ELSE IF val = "no" THEN FALSE ELSE old
Address(val) == IF val = "0x48a4e0" THEN 4760800 ELSE 0
Parsed(line, old) == IF line.key \in Flags THEN Flag(line.val, old)
                     ELSE IF line.key \in Addresses THEN Address(line.val) ELSE line.val

\* A line without "=", a key or a value is skipped, and so is an unknown key.
Keys == DOMAIN Defaults
Says(line) == line.key # "" /\ line.val # ""
Apply(cfg, line) == IF Says(line) /\ line.key \in Keys
                    THEN [cfg EXCEPT ![line.key] = Parsed(line, @)] ELSE cfg
ParseFile(cfg, file) == FoldLeft(Apply, cfg, file)

MutLoad(override, user, system) == \* mutant: the system's file is read first
    IF override # <<>> THEN ParseFile(Defaults, Head(override))
    ELSE ParseFile(ParseFile(Defaults, system), user)
\* The file $CYXV_CONFIG names, if it is set, alone; otherwise the user's file,
\* and the system's over it.
Load(override, user, system) ==
    IF override # <<>> THEN ParseFile(Defaults, Head(override))
    ELSE ParseFile(ParseFile(Defaults, user), system)

ExtensionName(cfg) == IF cfg.xvcompat THEN "XVideo" ELSE "CyXV-D3D"

-----------------------------------------------------------------------------
(* What the files say, without reading them line by line: of the lines     *)
(* that give a key a value the program understands, the last one holds.    *)

Read(override, user, system) == IF override # <<>> THEN Head(override) ELSE user \o system
Understood(line) == /\ Says(line)
                    /\ line.key \in Flags => line.val \in {"yes", "no"}
Value(line) == IF line.key \in Flags THEN line.val = "yes"
               ELSE IF line.key \in Addresses THEN Address(line.val) ELSE line.val
LastHolds(cfg, lines) ==
    \A key \in Keys :
        LET given == {i \in DOMAIN lines : lines[i].key = key /\ Understood(lines[i])}
        IN  \/ given = {} /\ cfg[key] = Defaults[key]
            \/ \E i \in given : /\ \A j \in given : j <= i
                                /\ cfg[key] = Value(lines[i])
=============================================================================
