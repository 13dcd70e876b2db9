SPECIFICATION Spec
CONSTANTS
    pkb = pkb
    logger = logger
    Count = 4
    Types = 2
    TypeOf <- MCTypeOf
    UpperCase <- MCUpperCase
    Parts = {pkb, logger}
    FileStem <- MCFileStem
    MaxChanges = 2
    MaxExports = 2
INVARIANTS OneFileEach AllAccounted
PROPERTIES NamesAreStable
