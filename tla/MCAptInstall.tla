---------------------------- MODULE MCAptInstall ----------------------------
(* a requires b and c, b requires a back (a cycle), c is essential.  The    *)
(* second version of a adds a file.                                        *)
EXTENDS AptInstall
CONSTANTS a, b, c
MCPkg == {a, b, c}
MCRank == [p \in MCPkg |-> CASE p = a -> 1 [] p = b -> 2 [] p = c -> 3]
MCVer == {1, 2}
MCVersions == [p \in MCPkg |-> IF p = a THEN {1, 2} ELSE {1}]
MCPath == {"a.dll", "a2.txt", "b.dll", "c.dll"}
MCRequires == [p \in MCPkg |-> CASE p = a -> {b, c} [] p = b -> {a} [] p = c -> {}]
MCFiles == [p \in MCPkg |-> [v \in MCVer |->
    CASE p = a -> IF v = 1 THEN {"a.dll"} ELSE {"a.dll", "a2.txt"}
      [] p = b -> {"b.dll"}
      [] p = c -> {"c.dll"}]]
MCEssential == {c}
=============================================================================
