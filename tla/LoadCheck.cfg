SPECIFICATION Spec
CONSTANTS
    Refs = {"t", "public.t", "u"}
    Object <- MCOne
    Bare <- MCOneBare
    Full <- MCSame
    Makes <- MCMakes
    Existing = {"x"}
    Apart = 1
    MaxStatements = 3
    MaxLine = 3
INVARIANTS NothingCommitted ExitCodeMeans RootCausesExact
