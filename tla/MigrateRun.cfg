SPECIFICATION Spec
CONSTANTS
    Detectors = {bulk_collect}
    Objects = {pkg}
    Qualified = {}
    Files = {a, b}
    UpperName <- MCName
    RoutineOf <- MCName
    BaseName <- MCBaseNames
    Positions = {1, 2}
    Contents = {x, y}
    MaxRuns = 2
    MaxChanges = 2
INVARIANTS Ownership ConvertedIsThisRun LoadFilesAgree
PROPERTIES TicksKept
