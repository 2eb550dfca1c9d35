----------------------------- MODULE MCStartup ------------------------------
(* Two built-ins, so that cyxv can come before, between and after them, and  *)
(* a table that has room for all three.  The files turn the hook on and off, *)
(* give the other addresses, move the display, and hold garbled values;      *)
(* Cygwin exports the two symbols the code has no address for.               *)
EXTENDS Startup
CONSTANTS render, shm
MCBuiltin == {render, shm}

Line(k, v) == [key |-> k, val |-> v]
Hook == <<Line("rva_init_extensions", "0x48a4e0")>>
Plain == <<Line("rva_init_extensions", "garbled"), Line("xvcompat", "no"), Line("", "")>>
Full == <<Line("rva_add_extension", "0x48a4e0"), Line("rva_write_to_client", "0x48a4e0"),
          Line("display", ":1"), Line("xvcompat", "garbled"), Line("unknown", "yes")>>
MCFiles == {<<>>, Hook, Plain, Full}

CygwinExports == {"dixLookupResourceByType", "ShmSegType"}
MCExports == {{}, CygwinExports, CygwinExports \cup {"AddExtension", "WriteToClient"}}
=============================================================================
