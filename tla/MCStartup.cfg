SPECIFICATION Spec
CONSTANTS
    render = render
    shm = shm
    Builtin <- MCBuiltin
    Vacant = Vacant
    MaxExt = 3
    Files <- MCFiles
    Exports <- MCExports
INVARIANTS
    TypeOK
    ConfigIsLayered
    NoneLost
    WiredBeforeVisible
PROPERTIES
    ServerStarts
    ExtensionComesUp
\* Start-up ends, and without a hook it may end in the Loader Lock deadlock.
CHECK_DEADLOCK FALSE
