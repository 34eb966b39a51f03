-------------------------------- MODULE Plugin --------------------------------
(***************************************************************************)
(* The Clang plugin (plugin.cpp): the same dump action inside a clang -cc1 *)
(* process.  Every Plugin object resets the static options when it is      *)
(* constructed and writes the coverage report when it is destroyed, and    *)
(* Clang makes more of them than the one that acts: a probe to ask for the *)
(* action type when the library is loaded, and one more each time it has   *)
(* created the consumer of a file, to look for plugins to wrap it with.    *)
(* The order of these calls is Clang's.                                    *)
(***************************************************************************)
EXTENDS DumpResources

CONSTANTS Invocations   \* the cc1 command lines of interest

(* ok: whether std::stoi() accepts what follows the "=".                    *)
Argument == [option : {"file-id", "system-header-threshold", "other"},
             ok : BOOLEAN,
             value : Int]

(* opened   the file can be read, and its unit gets a consumer              *)
(* classes  the fallbacks met while the unit is dumped, in order            *)
(* ends     as in DumpTool                                                  *)
File == [opened : BOOLEAN,
         classes : Seq(Fallbacks),
         ends : {"complete", "errors", "thrown"}]

(* arguments    those of -plugin-arg-DumpAst                                *)
(* coverage     -mllvm -handler-coverage-report                             *)
(* disableFree  -disable-free, which Clang's driver passes: the action is   *)
(*              abandoned instead of destroyed                              *)
Invocation == [arguments : Seq(Argument),
               coverage : BOOLEAN,
               disableFree : BOOLEAN,
               files : Seq(File)]

ASSUME InvocationsAssumption == Invocations \subseteq Invocation

VARIABLES
    invocation,
    phase,       \* where cc1 is, see Phases
    probe,       \* a probe exists
    arg,         \* the argument ParseArgs() is at
    current,     \* the file ExecuteAction() is at
    met,         \* how many fallbacks of its unit were met
    failed,      \* a file could not be read or had errors
    outcome      \* "running", "success", "failure", "aborted"

frontendVars == <<phase, probe, arg, current, met, failed, outcome>>
pluginVars == <<invocation, frontendVars, resourceVars>>

Phases == {"load", "create", "parse", "run", "wrap", "unit", "exited"}

PluginInit ==
    /\ invocation \in Invocations
    /\ phase = "load" /\ probe = FALSE
    /\ arg = 1 /\ current = 1 /\ met = 0
    /\ failed = FALSE /\ outcome = "running"
    /\ ResourcesInit

Arg == invocation.arguments[arg]
CurrentFile == invocation.files[current]
AtFile == phase = "run" /\ current <= Len(invocation.files)
UnitMet == phase = "unit" /\ met = Len(CurrentFile.classes)

(* Clang reads the options of -mllvm after it has loaded the plugins.       *)
HandlerCoverageReport == invocation.coverage /\ phase # "load"

-----------------------------------------------------------------------------

(* Plugin(): a probe, while the library is loaded or the consumer wrapped.  *)
ConstructProbe ==
    /\ phase \in {"load", "wrap"} /\ ~ probe
    /\ init(0, 0, HandlerCoverageReport)
    /\ probe' = TRUE
    /\ UNCHANGED <<invocation, phase, arg, current, met, failed, outcome,
                   fallbacks, unitVars, reports>>

(* Mutant: the destructor leaves the report to the action.                  *)
DestroyProbeSilently ==
    /\ phase \in {"load", "wrap"} /\ probe
    /\ probe' = FALSE
    /\ phase' = IF phase = "load" THEN "create" ELSE "unit"
    /\ UNCHANGED <<invocation, arg, current, met, failed, outcome, resourceVars>>

(* ~Plugin(): the probe said ReplaceAction and goes.                        *)
DestroyProbe ==
    /\ phase \in {"load", "wrap"} /\ probe
    /\ reportHandlerCoverage
    /\ probe' = FALSE
    /\ phase' = IF phase = "load" THEN "create" ELSE "unit"
    /\ UNCHANGED <<invocation, arg, current, met, failed, outcome,
                   optionVars, enabled, fallbacks, unitVars>>

(* Plugin(): the one that acts.                                             *)
ConstructAction ==
    /\ phase = "create"
    /\ init(0, 0, HandlerCoverageReport)
    /\ phase' = "parse"
    /\ UNCHANGED <<invocation, probe, arg, current, met, failed, outcome,
                   fallbacks, unitVars, reports>>

ParseOption ==
    \/ /\ Arg.option = "file-id" /\ Arg.ok
       /\ setRunId(Arg.value) /\ UNCHANGED systemHeaderThreshold
    \/ /\ Arg.option = "system-header-threshold" /\ Arg.ok
       /\ setSystemHeaderThreshold(Arg.value) /\ UNCHANGED runId
    \/ Arg.option = "other" /\ UNCHANGED optionVars

(* Mutant: ParseArgs() returns at the first argument it knows.              *)
ParseFirstArg ==
    /\ phase = "parse" /\ arg <= Len(invocation.arguments)
    /\ ParseOption
    /\ arg' = IF Arg.option = "other" THEN arg + 1 ELSE Len(invocation.arguments) + 1
    /\ UNCHANGED <<invocation, phase, probe, current, met, failed, outcome,
                   enabled, fallbacks, unitVars, reports>>

(* One turn of the loop of ParseArgs().                                     *)
ParseArg ==
    /\ phase = "parse" /\ arg <= Len(invocation.arguments)
    /\ ParseOption
    /\ arg' = arg + 1
    /\ UNCHANGED <<invocation, phase, probe, current, met, failed, outcome,
                   enabled, fallbacks, unitVars, reports>>

(* std::stoi() throws, and nothing in cc1 catches it.                       *)
ParseArgThrows ==
    /\ phase = "parse" /\ arg <= Len(invocation.arguments)
    /\ ~ Arg.ok /\ Arg.option # "other"
    /\ phase' = "exited" /\ outcome' = "aborted"
    /\ UNCHANGED <<invocation, probe, arg, current, met, failed, resourceVars>>

ArgsParsed ==
    /\ phase = "parse" /\ arg > Len(invocation.arguments)
    /\ phase' = "run"
    /\ UNCHANGED <<invocation, probe, arg, current, met, failed, outcome, resourceVars>>

(* BeginSourceFile() fails.                                                 *)
SkipFile ==
    /\ AtFile /\ ~ CurrentFile.opened
    /\ failed' = TRUE
    /\ current' = current + 1
    /\ UNCHANGED <<invocation, phase, probe, arg, met, outcome, resourceVars>>

CreateASTConsumer ==
    /\ AtFile /\ CurrentFile.opened
    /\ CreateConsumer(current)
    /\ phase' = "wrap" /\ met' = 0
    /\ UNCHANGED <<invocation, probe, arg, current, failed, outcome,
                   optionVars, enabled, fallbacks, reports>>

recordHandlerFallback ==
    /\ phase = "unit" /\ met < Len(CurrentFile.classes)
    /\ met' = met + 1
    /\ recordFallback(CurrentFile.classes[met + 1])
    /\ UNCHANGED <<invocation, phase, probe, arg, current, failed, outcome,
                   optionVars, enabled, unitVars, reports>>

(* exit() inside the unit: no destructor of the action runs.                *)
dumpFatalError ==
    /\ UnitMet /\ CurrentFile.ends = "thrown"
    /\ reportHandlerCoverage
    /\ phase' = "exited" /\ outcome' = "failure"
    /\ UNCHANGED <<invocation, probe, arg, current, met, failed,
                   optionVars, enabled, fallbacks, unitVars>>

(* Mutant: the next file goes on in the unit of the one before.             *)
EndUnitOpen ==
    /\ UnitMet /\ CurrentFile.ends # "thrown"
    /\ failed' = (failed \/ CurrentFile.ends = "errors")
    /\ current' = current + 1
    /\ UNCHANGED <<invocation, phase, probe, arg, met, outcome, resourceVars>>

EndUnit ==
    /\ UnitMet /\ CurrentFile.ends # "thrown"
    /\ failed' = (failed \/ CurrentFile.ends = "errors")
    /\ phase' = "run" /\ current' = current + 1
    /\ UNCHANGED <<invocation, probe, arg, met, outcome, resourceVars>>

Outcome == IF failed THEN "failure" ELSE "success"

(* ~Plugin() of the one that acted, and cc1 returns.                        *)
DestroyAction ==
    /\ phase = "run" /\ current > Len(invocation.files) /\ ~ invocation.disableFree
    /\ reportHandlerCoverage
    /\ phase' = "exited" /\ outcome' = Outcome
    /\ UNCHANGED <<invocation, probe, arg, current, met, failed,
                   optionVars, enabled, fallbacks, unitVars>>

(* Mutant: nothing is left to do.                                           *)
KeepAction ==
    /\ phase = "run" /\ current > Len(invocation.files) /\ invocation.disableFree
    /\ UNCHANGED pluginVars

(* llvm::BuryPointer(): the action is never destroyed.                      *)
BuryAction ==
    /\ phase = "run" /\ current > Len(invocation.files) /\ invocation.disableFree
    /\ phase' = "exited" /\ outcome' = Outcome
    /\ UNCHANGED <<invocation, probe, arg, current, met, failed, resourceVars>>

PluginStep ==
    \/ ConstructProbe
    \/ DestroyProbe
    \/ ConstructAction
    \/ ParseArg
    \/ ParseArgThrows
    \/ ArgsParsed
    \/ SkipFile
    \/ CreateASTConsumer
    \/ recordHandlerFallback
    \/ dumpFatalError
    \/ EndUnit
    \/ DestroyAction
    \/ BuryAction

Exited == phase = "exited" /\ UNCHANGED pluginVars

PluginNext == PluginStep \/ Exited

(* One thread, which the kernel schedules until it exits.                   *)
PluginSpec == PluginInit /\ [][PluginNext]_pluginVars /\ WF_pluginVars(PluginStep)

-----------------------------------------------------------------------------

(* The state of cc1, the plugin's objects and the shared resources.         *)
PluginTypeOK ==
    /\ invocation \in Invocation
    /\ phase \in Phases
    /\ probe \in BOOLEAN
    /\ arg \in 1 .. Len(invocation.arguments) + 1
    /\ current \in 1 .. Len(invocation.files) + 1
    /\ met \in Nat
    /\ phase \in {"wrap", "unit"} =>
            current <= Len(invocation.files) /\ met <= Len(CurrentFile.classes)
    /\ failed \in BOOLEAN
    /\ outcome \in {"running", "success", "failure", "aborted"}
    /\ ResourcesTypeOK(DOMAIN invocation.files)

Options == {"file-id", "system-header-threshold"}

(* The last value given for an option, zero if there is none.               *)
Given(option) ==
    LET at == {i \in DOMAIN invocation.arguments : invocation.arguments[i].option = option}
    IN  IF at = {}
        THEN 0
        ELSE invocation.arguments[CHOOSE i \in at : \A j \in at : j <= i].value

OptionsOf(k) ==
    IF k = 1 THEN <<Given("file-id"), Given("system-header-threshold")>> ELSE <<0, 0>>

(* The first unit of a process is announced and dumped with the options     *)
(* that were given last for it, whatever other object reset them before;    *)
(* the probe made to wrap its consumer resets them again, and every later   *)
(* unit goes without.  With a malformed option there is no unit             *)
(* (ParseArgs(), CreateASTConsumer(), and the constructor).                 *)
OptionsOfUnits ==
    consumers # <<>> =>
        /\ \A i \in DOMAIN invocation.arguments :
                invocation.arguments[i].option \in Options => invocation.arguments[i].ok
        /\ \A k \in DOMAIN consumers :
                consumers[k] = OptionsOf(k) /\ idFileMap[k][1] = OptionsOf(k)[1]

UnitsDone == {i \in DOMAIN invocation.files : i < current /\ invocation.files[i].opened}

EncounteredIn(i) ==
    {invocation.files[i].classes[k] : k \in DOMAIN invocation.files[i].classes}

(* One report is written for each consumer created, by the probe that comes *)
(* after it: the k-th knows the classes of the k - 1 units before and none  *)
(* of its own. Only a unit that ends in a fatal error or an action that is  *)
(* destroyed adds the report of all the classes met (the destructor,        *)
(* dumpFatalError()).                                                       *)
ReportsOfTheProcess ==
    phase = "exited" /\ outcome # "aborted" =>
        LET thrown == current <= Len(invocation.files)
            final == thrown \/ ~ invocation.disableFree
            before(file) == {i \in UnitsDone : i < file}
        IN  IF ~ invocation.coverage
            THEN reports = <<>>
            ELSE /\ Len(reports) = Len(consumers) + (IF final THEN 1 ELSE 0)
                 /\ \A k \in DOMAIN consumers :
                        reports[k] = UNION {EncounteredIn(i) : i \in before(idFileMap[k][2])}
                 /\ final => reports[Len(reports)] =
                        UNION {EncounteredIn(i) :
                               i \in UnitsDone \cup (IF thrown THEN {current} ELSE {})}

(* The process exits.                                                       *)
PluginExits == <>(outcome # "running")

=============================================================================
