SPECIFICATION FixSpec
CONSTANTS
    Files <- MCFiles
    Generated <- MCGenerated
    Arguments <- MCArguments
    Directory = "out"
    EmptyDir = "empty"
    Baselines <- MCBaselines
    MaxRuns = 3
    MaxChanges = 1
    Detectors <- MCDetectors
    ChainOf <- MCChainOf
    FindingsOf <- MCFindingsOf
INVARIANTS FixedOnce RunIsWhole StatementsKept RepairedIsGone
