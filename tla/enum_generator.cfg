CONSTANTS
    Absent = Absent
    Torn = Torn
    HEADERS <- MCHEADERS
    EnumsOf <- MCEnumsOf
    Exclude <- MCExclude
    Mapper <- MCMapper
    Versions = {17, 18}
    Enumerators <- MCEnumerators
    Jobs = 2
    MaxKills = 1
SPECIFICATION GeneratorSpec
INVARIANTS
    GeneratorTypeOK
    CompleteOnSuccess
    TwinsAgree
    OnlyWhatWasExtracted
PROPERTIES
    RunEnds
