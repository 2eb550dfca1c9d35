SPECIFICATION Spec
CONSTANTS
    render = render
    shm = shm
    Builtin <- MCBuiltin
    Vacant = Vacant
    MaxExt = 3
    Files <- MCFiles
    Exports <- MCExports
INVARIANTS
    FirstMatchWins
CHECK_DEADLOCK FALSE
