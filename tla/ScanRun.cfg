CONSTANTS
    f = f  g = g  s = s  t = t  static = static  loop = loop
    Files = {f, g}
    Kinds = {static, loop}
    ConnectBy = {loop}
    Outdated = {static}
    Gating = {static, loop}
    Slots = {s, t}
    Contents <- MCContents
    Args <- MCArgs
    MaxEdits = 2
    MaxRuns = 2
SPECIFICATION Spec
INVARIANTS SnapshotIsTruth GateIsHonest DiffAddsUp
