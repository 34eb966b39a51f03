CONSTANTS
    stmt = stmt
    type = type
    Fallbacks <- MCFallbacks
    Invocations <- MCInvocations
SPECIFICATION PluginSpec
INVARIANTS
    PluginTypeOK
    OptionsOfUnits
    ReportsOfTheProcess
PROPERTIES
    PluginExits
