------------------------------ MODULE DumpTool ------------------------------
(***************************************************************************)
(* The standalone tool (tool.cpp): main() parses the options, initialises  *)
(* DumpResources, lets ClangTool run the dump action on every file of the  *)
(* command line, and finishes DumpResources, which writes the handler      *)
(* coverage report. A fatal error of the dumper leaves the process from    *)
(* inside the action (dumpFatalError()).                                   *)
(*                                                                         *)
(* What happens inside a unit is the business of MyASTConsumer; here a     *)
(* unit is the classes without a dedicated handler that it meets, in       *)
(* order, and the way it ends. ClangTool is Clang's.                       *)
(***************************************************************************)
EXTENDS DumpResources

CONSTANTS CommandLines   \* the command lines of interest

(* begins   skipped for want of a compile command, refused before the       *)
(*          action has a consumer, or opened                                *)
(* classes  the fallbacks met while the unit is dumped, in order            *)
(* ends     the unit was dumped, was dumped in spite of compile errors, or  *)
(*          an exception reached dumpFatalError()                           *)
File == [begins : {"skipped", "unreadable", "opened"},
         classes : Seq(Fallbacks),
         ends : {"complete", "errors", "thrown"}]

(* valid: CommonOptionsParser accepts it, which takes at least one file;    *)
(* id, threshold and coverage: -id, -system-header-threshold and            *)
(* -handler-coverage-report. LLVM answers -help and -version and exits by   *)
(* itself: they are no command lines here.                                  *)
CommandLine ==
    [valid : BOOLEAN, id : Int, threshold : Int, coverage : BOOLEAN, files : Seq(File)]

ASSUME CommandLinesAssumption ==
    /\ CommandLines \subseteq CommandLine
    /\ \A c \in CommandLines : c.valid => c.files # <<>>

VARIABLES
    args,         \* the command line
    phase,        \* "options", "run" (in ClangTool), "unit" (in an action), "exited"
    current,      \* the file ClangTool is at
    met,          \* how many fallbacks of its unit were met
    result,       \* ClangTool's ProcessingFailed and FileSkipped
    exitCode

toolVars == <<args, phase, current, met, resourceVars, result, exitCode>>

ToolInit ==
    /\ args \in CommandLines
    /\ phase = "options"
    /\ current = 1 /\ met = 0
    /\ ResourcesInit
    /\ result = [ProcessingFailed |-> FALSE, FileSkipped |-> FALSE]
    /\ exitCode = 0

CurrentFile == args.files[current]
AtFile == phase = "run" /\ current <= Len(args.files)
InUnit == phase = "unit" /\ met <= Len(CurrentFile.classes)
UnitMet == InUnit /\ met = Len(CurrentFile.classes)

-----------------------------------------------------------------------------

optionsError ==
    /\ phase = "options" /\ ~ args.valid
    /\ phase' = "exited" /\ exitCode' = 1
    /\ UNCHANGED <<args, current, met, resourceVars, result>>

(* DumpResources::init() before Tool.run().                                 *)
initResources ==
    /\ phase = "options" /\ args.valid
    /\ init(args.id, args.threshold, args.coverage)
    /\ phase' = "run"
    /\ UNCHANGED <<args, current, met, fallbacks, unitVars, reports, result, exitCode>>

(* Mutant: the loop stays at a file it skips.                               *)
SkipFileAgain ==
    /\ AtFile /\ CurrentFile.begins # "opened"
    /\ result' = [result EXCEPT !.FileSkipped = TRUE]
    /\ UNCHANGED <<args, phase, current, met, resourceVars, exitCode>>

(* ClangTool: a file that never gets a consumer.                            *)
SkipFile ==
    /\ AtFile /\ CurrentFile.begins # "opened"
    /\ result' = IF CurrentFile.begins = "skipped"
                 THEN [result EXCEPT !.FileSkipped = TRUE]
                 ELSE [result EXCEPT !.ProcessingFailed = TRUE]
    /\ current' = current + 1
    /\ UNCHANGED <<args, phase, met, resourceVars, exitCode>>

CreateASTConsumer ==
    /\ AtFile /\ CurrentFile.begins = "opened"
    /\ CreateConsumer(current)
    /\ phase' = "unit" /\ met' = 0
    /\ UNCHANGED <<args, current, optionVars, enabled, fallbacks, reports, result, exitCode>>

recordHandlerFallback ==
    /\ InUnit /\ met < Len(CurrentFile.classes)
    /\ met' = met + 1
    /\ recordFallback(CurrentFile.classes[met + 1])
    /\ UNCHANGED <<args, phase, current, optionVars, enabled, unitVars, reports, result,
                   exitCode>>

(* Mutant: an exception leaves the unit, and ClangTool goes on.             *)
FailUnit ==
    /\ UnitMet /\ CurrentFile.ends = "thrown"
    /\ result' = [result EXCEPT !.ProcessingFailed = TRUE]
    /\ phase' = "run" /\ current' = current + 1
    /\ UNCHANGED <<args, met, resourceVars, exitCode>>

(* Mutant: exit() without the report that finish() would have written.      *)
exitOnFatalError ==
    /\ UnitMet /\ CurrentFile.ends = "thrown"
    /\ phase' = "exited" /\ exitCode' = 1
    /\ UNCHANGED <<args, current, met, resourceVars, result>>

dumpFatalError ==
    /\ UnitMet /\ CurrentFile.ends = "thrown"
    /\ reportHandlerCoverage
    /\ phase' = "exited" /\ exitCode' = 1
    /\ UNCHANGED <<args, current, met, optionVars, enabled, fallbacks, unitVars, result>>

(* Mutant: the loop goes on while the action still owns the unit.           *)
EndUnitLate ==
    /\ UnitMet /\ CurrentFile.ends # "thrown"
    /\ current' = current + 1
    /\ UNCHANGED <<args, phase, met, resourceVars, result, exitCode>>

(* The action ends; compile errors make ClangTool's run fail.               *)
EndUnit ==
    /\ UnitMet /\ CurrentFile.ends # "thrown"
    /\ result' = IF CurrentFile.ends = "errors"
                 THEN [result EXCEPT !.ProcessingFailed = TRUE]
                 ELSE result
    /\ phase' = "run" /\ current' = current + 1
    /\ UNCHANGED <<args, met, resourceVars, exitCode>>

ToolReturns == CASE result.ProcessingFailed -> 1
                 [] ~ result.ProcessingFailed /\ result.FileSkipped -> 2
                 [] OTHER -> 0

(* Mutant: main() returns 0 whatever Tool.run() returned.                   *)
finishIgnoringResult ==
    /\ phase = "run" /\ current > Len(args.files)
    /\ reportHandlerCoverage
    /\ phase' = "exited"
    /\ UNCHANGED <<args, current, met, optionVars, enabled, fallbacks, unitVars, result,
                   exitCode>>

(* Tool.run() returns, DumpResources::finish(), and main() returns.         *)
finish ==
    /\ phase = "run" /\ current > Len(args.files)
    /\ reportHandlerCoverage
    /\ phase' = "exited" /\ exitCode' = ToolReturns
    /\ UNCHANGED <<args, current, met, optionVars, enabled, fallbacks, unitVars, result>>

ToolStep ==
    \/ optionsError
    \/ initResources
    \/ SkipFile
    \/ CreateASTConsumer
    \/ recordHandlerFallback
    \/ dumpFatalError
    \/ EndUnit
    \/ finish

Exited == phase = "exited" /\ UNCHANGED toolVars

ToolNext == ToolStep \/ Exited

(* One thread, which the kernel schedules until it exits.                   *)
ToolSpec == ToolInit /\ [][ToolNext]_toolVars /\ WF_toolVars(ToolStep)

-----------------------------------------------------------------------------

(* The state of main(), ClangTool and the shared resources.                 *)
ToolTypeOK ==
    /\ args \in CommandLine
    /\ phase \in {"options", "run", "unit", "exited"}
    /\ current \in 1 .. Len(args.files) + 1
    /\ met \in Nat
    /\ phase = "unit" => current <= Len(args.files) /\ met <= Len(CurrentFile.classes)
    /\ ResourcesTypeOK(DOMAIN args.files)
    /\ result \in [ProcessingFailed : BOOLEAN, FileSkipped : BOOLEAN]
    /\ exitCode \in 0 .. 2

Opened(i) == args.files[i].begins = "opened"
Thrown(i) == Opened(i) /\ args.files[i].ends = "thrown"

(* The files ClangTool gets to: all, or those up to the first whose unit    *)
(* throws.                                                                  *)
Reached == {i \in DOMAIN args.files : args.valid /\ \A j \in 1 .. i - 1 : ~ Thrown(j)}

EncounteredIn(i) == {args.files[i].classes[k] : k \in DOMAIN args.files[i].classes}

(* Whatever way the process ends, a coverage report that was asked for is   *)
(* written once, and it names the fallbacks of every unit that was opened,  *)
(* the one that failed included; without the option none is written.        *)
ReportedOnceOnExit ==
    phase = "exited" =>
        reports = IF args.valid /\ args.coverage
                  THEN <<UNION {EncounteredIn(i) : i \in {j \in Reached : Opened(j)}}>>
                  ELSE <<>>

(* The exit status is 0 only if every file was opened and dumped without an *)
(* error, and a caller that gets another status knows one was not.          *)
ExitCodeTruthful ==
    phase = "exited" =>
        (exitCode = 0 <=> /\ args.valid
                          /\ \A i \in DOMAIN args.files :
                                Opened(i) /\ args.files[i].ends = "complete")

(* The files announced in the stream are the opened ones up to the first    *)
(* fatal error, once each and in the order of the command line, each dumped *)
(* with the options of the command line: nothing is dumped after an ERROR   *)
(* line.                                                                    *)
FilesAnnounced ==
    phase = "exited" =>
        /\ idFileMap = [k \in DOMAIN idFileMap |-> <<args.id, idFileMap[k][2]>>]
        /\ consumers = [k \in DOMAIN idFileMap |-> <<args.id, args.threshold>>]
        /\ {idFileMap[k][2] : k \in DOMAIN idFileMap} = {i \in Reached : Opened(i)}
        /\ \A k, l \in DOMAIN idFileMap : k < l => idFileMap[k][2] < idFileMap[l][2]

(* The process exits.                                                       *)
ToolExits == <>(phase = "exited")

=============================================================================
