SPECIFICATION Spec
CONSTANTS
    Subjects <- MCSubjects
    Specimens <- MCSpecimens
    Neighbours <- MCNeighbours
    Companions <- MCCompanions
    Converted <- MCConverted
    MaxObjects = 2
    FindingsOf <- MCFindingsOf
    PreparedOf <- MCPreparedOf
    PartsOf <- MCPartsOf
    LearnedOf <- MCLearnedOf
    RestoredOf <- MCRestoredOf
INVARIANTS BlamesItsObject   PrepareKeepsLiterals MigratedIsMeant
