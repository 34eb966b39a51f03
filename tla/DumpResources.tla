---------------------------- MODULE DumpResources ----------------------------
(***************************************************************************)
(* What the frontend actions of a process share: the static run id and     *)
(* threshold of DumpResources and the handler coverage of                  *)
(* HandlerCoverage.cpp.  The standalone tool (DumpTool) and the plugin     *)
(* (Plugin) set them up each in its own way; DumpAstAction reads them when *)
(* it creates the consumer of a unit.                                      *)
(***************************************************************************)
EXTENDS Integers, Sequences

CONSTANTS Fallbacks   \* the (family, class name) pairs that have no handler

VARIABLES
    runId,                  \* DumpResources::runId
    systemHeaderThreshold,  \* DumpResources::systemHeaderThreshold
    enabled,                \* HandlerCoverage.cpp: enabled
    fallbacks,              \* HandlerCoverage.cpp: fallbacks
    idFileMap,              \* the <Id File Map> records: <<run id, file>>
    consumers,              \* the arguments of the consumers created, in order
    reports                 \* the coverage reports written

optionVars == <<runId, systemHeaderThreshold>>
unitVars == <<idFileMap, consumers>>
resourceVars == <<optionVars, enabled, fallbacks, unitVars, reports>>

ResourcesInit ==
    /\ runId = 0 /\ systemHeaderThreshold = 0
    /\ enabled = FALSE /\ fallbacks = {}
    /\ idFileMap = <<>> /\ consumers = <<>>
    /\ reports = <<>>

(* HandlerCoverageReport: the value of -handler-coverage-report by now.     *)
init(id, threshold, HandlerCoverageReport) ==
    /\ runId' = id
    /\ systemHeaderThreshold' = threshold
    /\ enabled' = (enabled \/ HandlerCoverageReport)

setRunId(id) == runId' = id
setSystemHeaderThreshold(threshold) == systemHeaderThreshold' = threshold

(* The file is announced, and the consumer keeps a copy of the options.     *)
CreateConsumer(file) ==
    /\ idFileMap' = Append(idFileMap, <<runId, file>>)
    /\ consumers' = Append(consumers, <<runId, systemHeaderThreshold>>)

recordFallback(class) ==
    fallbacks' = IF enabled THEN fallbacks \cup {class} ELSE fallbacks

(* An empty set is reported as "all encountered classes have dedicated      *)
(* handlers".                                                               *)
reportHandlerCoverage == reports' = IF enabled THEN Append(reports, fallbacks) ELSE reports

ResourcesTypeOK(Files) ==
    /\ runId \in Int /\ systemHeaderThreshold \in Int
    /\ enabled \in BOOLEAN
    /\ fallbacks \subseteq Fallbacks
    /\ idFileMap \in Seq(Int \X Files)
    /\ consumers \in Seq(Int \X Int)
    /\ reports \in Seq(SUBSET Fallbacks)

=============================================================================
