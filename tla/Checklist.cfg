SPECIFICATION Spec
CONSTANTS
    Detectors = {bulk_collect}
    Objects = {"P1.INIT", "P2.INIT"}
    Qualified = {"P1.INIT", "P2.INIT"}
    Files = {a, b}
    Fragile = {bulk_collect}
    UpperName <- MCUpperName
    RoutineOf <- MCRoutineOf
    Scans <- MCScans
    Views <- MCFilters
    MaxChanges = 2
SYMMETRY MCSymmetry
INVARIANTS Idempotent
PROPERTIES NoTickLost BoxesNeverMerge SubsetLeavesRestOpen FullScanExact
