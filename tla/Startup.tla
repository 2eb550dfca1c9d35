------------------------------- MODULE Startup ------------------------------
(***************************************************************************)
(* How src/src/cyxv_init.c gets the extension into a starting X server.    *)
(* The constructor runs while the library is being loaded: it reads the    *)
(* configuration (Config), then either patches InitExtensions with a jump  *)
(* to init_extensions_hook, or spawns init_thread, which sleeps two        *)
(* seconds.  do_init resolves symbols, wires the dispatch module, and      *)
(* registers the extension last.                                           *)
(*                                                                         *)
(* External: the server's main thread, as tests/xwin_stub.c plays it (load *)
(* the library, start up, call InitExtensions, serve), AddExtension, the   *)
(* Windows Loader Lock and XOpenDisplay, which gets an answer only from a  *)
(* server that serves: before that it waits, if the server listens while   *)
(* it starts up, and fails, if it does not.  Time is not modelled: a sleep *)
(* may end whenever.                                                       *)
(***************************************************************************)
EXTENDS Config

CONSTANTS Builtin,  \* the built-in extensions InitExtensions registers
          Vacant,   \* an entry of the extension table nobody has taken
          MaxExt,   \* MAX_EXTENSIONS
          Files,    \* what a configuration file may hold
          Exports   \* the sets of symbols a server may export

CyXV == {"XVideo", "CyXV-D3D"}

ASSUME StartupAssumption == /\ IsFiniteSet(Builtin) /\ Builtin \cap CyXV = {}
                            /\ Vacant \notin Builtin \cup CyXV
                            /\ MaxExt \in Nat
                            /\ Files \subseteq Seq([key : STRING, val : STRING])

VARIABLES env,      \* where the library is loaded, and with what files
          cfg,      \* g_cfg
          main,     \* where the main thread is
          patched,  \* the first bytes of InitExtensions are the jump
          site,     \* g_hook_site is not 0
          init,     \* where the thread that runs do_init is
          wired,    \* what do_init has set up in cyxv_dispatch.c
          display,  \* "untried", "open" or "failed"
          todo,     \* built-ins InitExtensions has not registered yet
          table,    \* the server's extension table
          count,    \* how many entries it has
          seen      \* the count each thread read in an AddExtension under way
code == <<patched, site>>
server == <<todo, table, count>>
vars == <<env, cfg, main, code, init, wired, display, server, seen>>

Init == /\ env \in [cygwin : BOOLEAN,     \* threads need the Loader Lock to start
                    based : BOOLEAN,      \* /proc tells where the server is mapped
                    writable : BOOLEAN,   \* mprotect lets the code be patched
                    exports : Exports,
                    display : {":0", ":1"}, \* the server's own
                    listens : BOOLEAN,    \* its socket is there before it serves
                    override : {<<>>} \cup {<<f>> : f \in Files}, \* $CYXV_CONFIG
                    user : Files, system : Files]
        /\ cfg = Defaults
        /\ main = "load"
        /\ patched = FALSE
        /\ site = FALSE
        /\ init = "none"
        /\ wired = {}
        /\ display = "untried"
        /\ todo = Builtin
        /\ table = [i \in 1 .. MaxExt |-> Vacant]
        /\ count = 0
        /\ seen = [t \in {"main", "init"} |-> 0]

LoaderLocked == main \in {"load", "ctor", "spawning"}

-----------------------------------------------------------------------------
(* cyxv_ctor, on the main thread, with the Loader Lock held                *)

\* cyxv_config_load.
LoadConfig == /\ main = "load"
              /\ cfg' = Load(env.override, env.user, env.system)
              /\ main' = "ctor"
              /\ UNCHANGED <<env, code, init, wired, display, server, seen>>

\* xwin_image_base, which is 0 when /proc has no answer.
ImageBase == IF env.based THEN 4096 ELSE 0
Hookable == cfg.rva_init_extensions # 0 /\ ImageBase # 0

\* The code is saved and overwritten once mprotect has made it writable.
WriteHook == env.writable /\ patched' = TRUE

CtorHooks == /\ main = "ctor"
             /\ Hookable /\ WriteHook
             /\ site' = TRUE
             /\ main' = "boot"
             /\ UNCHANGED <<env, cfg, init, wired, display, server, seen>>

\* No RVA, or write_hook failed: pthread_create(init_thread).
CtorSpawns == /\ main = "ctor"
              /\ ~ (Hookable /\ env.writable)
              /\ init' = "starting"
              /\ main' = "spawning"
              /\ UNCHANGED <<env, cfg, code, wired, display, server, seen>>

\* pthread_create returns once the thread runs, and the constructor with it.
CtorReturns == /\ main = "spawning"
               /\ init # "starting"
               /\ main' = "boot"
               /\ UNCHANGED <<env, cfg, code, init, wired, display, server, seen>>

-----------------------------------------------------------------------------
(* The main thread after loading: main() and InitExtensions are external   *)

CallInitExtensions == /\ main = "boot"
                      /\ main' = IF patched THEN "hook" ELSE "builtins"
                      /\ UNCHANGED <<env, cfg, code, init, wired, display, server, seen>>

\* Mutant: only the hook site is forgotten.
MutRemoveNothing == patched' = patched /\ site' = FALSE

\* remove_hook: put the original bytes back, unless there is no hook site.
RemoveHook == /\ patched' = IF site THEN FALSE ELSE patched
              /\ site' = FALSE

\* init_extensions_hook up to its call of the function at orig_site, which is
\* the real InitExtensions only if the patch is gone.
HookCallsReal == /\ main = "hook"
                 /\ RemoveHook
                 /\ main' = IF patched' THEN "hook" ELSE "hookedBuiltins"
                 /\ UNCHANGED <<env, cfg, init, wired, display, server, seen>>

InBuiltins == main \in {"builtins", "hookedBuiltins"}

\* AddExtension takes the next entry in two steps, a load and a store of
\* g_num_extensions; it has no lock.
BuiltinLoads == /\ InBuiltins
                /\ todo # {}
                /\ seen' = [seen EXCEPT !["main"] = count + 1]
                /\ main' = IF main = "builtins" THEN "adding" ELSE "hookedAdding"
                /\ UNCHANGED <<env, cfg, code, init, wired, display, server>>

\* Mutant: the count is taken one too high.
MutStoreHigh(t, e) ==
    IF seen[t] > MaxExt THEN UNCHANGED <<table, count>>
    ELSE /\ table' = [table EXCEPT ![seen[t]] = e]
         /\ count' = seen[t] + 1

Store(t, e) ==
    IF seen[t] > MaxExt THEN UNCHANGED <<table, count>>
    ELSE /\ table' = [table EXCEPT ![seen[t]] = e]
         /\ count' = seen[t]

BuiltinStores == /\ main \in {"adding", "hookedAdding"}
                 /\ \E e \in todo : Store("main", e) /\ todo' = todo \ {e}
                 /\ main' = IF main = "adding" THEN "builtins" ELSE "hookedBuiltins"
                 /\ UNCHANGED <<env, cfg, code, init, wired, display, seen>>

\* Mutant: the thread is spawned while InitExtensions is still at work.
MutHookSpawnsEarly == /\ main = "hookedBuiltins"
                      /\ init = "none"
                      /\ init' = "starting"
                      /\ main' = "builtins"
                      /\ UNCHANGED <<env, cfg, code, wired, display, server, seen>>

\* Back in the hook: pthread_create(cyxv_init_thread_no_sleep).  The thread
\* does not sleep, and may be anywhere in do_init before main serves.
HookSpawns == /\ main = "hookedBuiltins"
              /\ todo = {}
              /\ init' = "starting"
              /\ main' = "hooked"
              /\ UNCHANGED <<env, cfg, code, wired, display, server, seen>>

\* InitExtensions, or the hook in its place, has returned.
Serve == /\ main = "hooked" \/ (main = "builtins" /\ todo = {})
         /\ main' = "serve"
         /\ UNCHANGED <<env, cfg, code, init, wired, display, server, seen>>

-----------------------------------------------------------------------------
(* do_init, on the init thread                                             *)

\* The symbol table first, then the configured address.
Resolve(name, rva) == name \in env.exports \/ (ImageBase # 0 /\ rva # 0)
Found == {name \in {"AddExtension", "WriteToClient", "dixLookupResourceByType", "ShmSegType"} :
              Resolve(name, CASE name = "AddExtension"  -> cfg.rva_add_extension
                              [] name = "WriteToClient" -> cfg.rva_write_to_client
                              [] OTHER                  -> 0)}

Step(from, to) == init = from /\ init' = to

\* A Windows thread starts by taking the Loader Lock; then init_thread sleeps.
ThreadStarts == /\ Step("starting", "resolve")
                /\ ~ (env.cygwin /\ LoaderLocked)
                /\ UNCHANGED <<env, cfg, main, code, wired, display, server, seen>>

GiveUp == /\ Step("resolve", "done")
          /\ "AddExtension" \notin Found
          /\ UNCHANGED <<env, cfg, main, code, wired, display, server, seen>>

SetWriteFn == /\ Step("resolve", "lookup")
              /\ "AddExtension" \in Found
              /\ wired' = wired \cup ({"WriteToClient"} \cap Found)
              /\ UNCHANGED <<env, cfg, main, code, display, server, seen>>

SetShmLookup ==
    /\ Step("lookup", "open")
    /\ wired' = IF {"dixLookupResourceByType", "ShmSegType"} \subseteq Found
                THEN wired \cup {"ShmLookup"} ELSE wired
    /\ UNCHANGED <<env, cfg, main, code, display, server, seen>>

Usable == cfg.display = env.display
Answered == Usable /\ main = "serve"
Refused == ~Usable \/ (main # "serve" /\ ~env.listens)

\* Mutant: the render thread is not started before AddExtension.
MutOpenDisplayOnly == /\ Step("open", "add")
                      /\ Answered
                      /\ display' = "open"
                      /\ wired' = wired \cup {"Display"}
                      /\ UNCHANGED <<env, cfg, main, code, server, seen>>

\* cyxv_set_visual_id and cyxv_set_display follow a successful XOpenDisplay.
OpenDisplay == /\ Step("open", "start")
               /\ Answered
               /\ display' = "open"
               /\ wired' = wired \cup {"Display"}
               /\ UNCHANGED <<env, cfg, main, code, server, seen>>

\* Mutant: without a display the extension is not registered.
MutOpenDisplayAborts == /\ Step("open", "done")
                        /\ Refused
                        /\ display' = "failed"
                        /\ UNCHANGED <<env, cfg, main, code, wired, server, seen>>

\* Rendering is disabled, and the extension is registered all the same.
OpenDisplayFails == /\ Step("open", "add")
                    /\ Refused
                    /\ display' = "failed"
                    /\ UNCHANGED <<env, cfg, main, code, wired, server, seen>>

StartRenderThread == /\ Step("start", "add")
                     /\ wired' = wired \cup {"RenderThread"}
                     /\ UNCHANGED <<env, cfg, main, code, display, server, seen>>

CyxvLoads == /\ Step("add", "adding")
             /\ seen' = [seen EXCEPT !["init"] = count + 1]
             /\ UNCHANGED <<env, cfg, main, code, wired, display, server>>

CyxvStores == /\ Step("adding", "done")
              /\ Store("init", ExtensionName(cfg))
              /\ UNCHANGED <<env, cfg, main, code, wired, display, todo, seen>>

-----------------------------------------------------------------------------
MainThread == \/ LoadConfig \/ CtorHooks \/ CtorSpawns \/ CtorReturns
              \/ CallInitExtensions \/ HookCallsReal
              \/ BuiltinLoads \/ BuiltinStores \/ HookSpawns \/ Serve
InitThread == \/ ThreadStarts \/ GiveUp \/ SetWriteFn \/ SetShmLookup
              \/ OpenDisplay \/ OpenDisplayFails \/ StartRenderThread
              \/ CyxvLoads \/ CyxvStores
Next == MainThread \/ InitThread

\* Both threads run; neither waits for anything but what its guard says.
Spec == Init /\ [][Next]_vars /\ WF_vars(MainThread) /\ WF_vars(InitThread)

-----------------------------------------------------------------------------
TypeOK == /\ DOMAIN cfg = DOMAIN Defaults
          /\ main \in {"load", "ctor", "spawning", "boot", "hook", "builtins", "adding",
                       "hookedBuiltins", "hookedAdding", "hooked", "serve"}
          /\ patched \in BOOLEAN /\ site \in BOOLEAN
          /\ init \in {"none", "starting", "resolve", "lookup", "open", "start",
                       "add", "adding", "done"}
          /\ wired \subseteq {"WriteToClient", "ShmLookup", "Display", "RenderThread"}
          /\ display \in {"untried", "open", "failed"}
          /\ todo \subseteq Builtin
          /\ count \in 0 .. MaxExt
          /\ table \in [1 .. MaxExt -> Builtin \cup CyXV \cup {Vacant}]

HookPath == Hookable /\ env.writable
Extensions == {table[i] : i \in 1 .. count}
Registered == ExtensionName(cfg) \in Extensions

\* g_cfg holds, key by key, the last value of the files read that the program
\* understands: a garbled flag overrides nothing, a garbled address disables its
\* fallback, and the system's file overrides the user's, as cyxv_config.c:110
\* says; cyxv_config.h:9 says the contrary, which is FirstMatchWins.
ConfigIsLayered ==
    main # "load" => LastHolds(cfg, Read(env.override, env.user, env.system))

\* "Config file location (first match wins)" (cyxv_config.h:9): a key that the
\* user's file gives a value keeps it, whatever the system's file says.  The
\* code does otherwise: it reads the system's file over the user's.
FirstMatchWins ==
    main # "load" /\ env.override = <<>> =>
        \A i \in DOMAIN env.user :
            env.user[i].key \in Keys /\ Understood(env.user[i])
                => LET key == env.user[i].key IN cfg[key] = ParseFile(Defaults, env.user)[key]

\* On the hook path no registration is lost, by two AddExtension calls that
\* overlap or otherwise ("All built-in extensions are now registered;
\* AddExtension is safe", cyxv_init.c:339): unless the table is full, every
\* built-in has an entry, and cyxv, when it is done, has the one after them.
NoneLost == HookPath /\ Cardinality(Builtin) < MaxExt =>
    /\ Builtin \ todo \subseteq Extensions
    /\ init = "done" /\ "AddExtension" \in Found => table[count] = ExtensionName(cfg)

\* A client can reach the handlers only when all that do_init can set up is set
\* up: replies, the segment lookup, and the semaphore and render thread, whose
\* sem_init would otherwise erase the posts of the first frames.
WiredBeforeVisible == Registered =>
    /\ "WriteToClient" \in Found => "WriteToClient" \in wired
    /\ {"dixLookupResourceByType", "ShmSegType"} \subseteq Found => "ShmLookup" \in wired
    /\ display # "untried"
    /\ display = "open" => {"Display", "RenderThread"} \subseteq wired

\* The server starts serving: the constructor does not wait for a thread that
\* waits for the Loader Lock (except where cyxv_init.c:396-398 says it may),
\* and the hook does not call itself for ever.
ServerStarts == HookPath \/ ~env.cygwin ~> main = "serve"

\* On the hook path the extension gets registered, with a render thread if the
\* display was opened, and it is opened where the configured one is the server's
\* own and the server listens while it starts up.  Where it does not, the thread
\* that does not sleep may be ahead of it, and rendering stays disabled.
ExtensionComesUp ==
    HookPath /\ "AddExtension" \in Found /\ Cardinality(Builtin) < MaxExt
        ~> /\ Registered
           /\ display = "open" => "RenderThread" \in wired
           /\ Usable /\ env.listens => display = "open"
=============================================================================
