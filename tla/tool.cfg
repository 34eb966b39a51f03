CONSTANTS
    stmt = stmt
    type = type
    Fallbacks <- MCFallbacks
    CommandLines <- MCCommandLines
SPECIFICATION ToolSpec
INVARIANTS
    ToolTypeOK
    ReportedOnceOnExit
    ExitCodeTruthful
    FilesAnnounced
PROPERTIES
    ToolExits
