SPECIFICATION Spec
CONSTANTS
    Alphabets <- MCAlphabets
    MaxLength <- MCMaxLength
INVARIANTS PreparersAgree FixesSeeCode SentAsKept SentIsHarmless
