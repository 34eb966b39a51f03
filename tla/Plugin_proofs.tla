----------------------------- MODULE Plugin_proofs -----------------------------
(***************************************************************************)
(* Proofs about the plugin, for all invocations: any number of arguments   *)
(* and files.                                                              *)
(*                                                                         *)
(* The invariant follows the static resources through the Plugin objects   *)
(* of a process: what they hold before the one that acts is constructed,   *)
(* what ParseArgs() has put into them by the argument it is at, what a     *)
(* probe leaves of it, and what the files before the current one have left *)
(* in them.                                                                *)
(***************************************************************************)
EXTENDS Plugin, SequenceTheorems, TLAPS

(* No unit was begun.                                                       *)
NoUnits == current = 1 /\ idFileMap = <<>> /\ consumers = <<>> /\ reports = <<>> /\ fallbacks = {}

BeforeInv ==
    /\ phase \in {"load", "create"} => NoUnits /\ arg = 1 /\ enabled = FALSE
    /\ phase = "parse" => NoUnits /\ (enabled <=> invocation.coverage)

(* v is the value of the option that the arguments before the k-th give.    *)
LastBefore(option, k, v) ==
    LET at == {i \in DOMAIN invocation.arguments :
                   i < k /\ invocation.arguments[i].option = option}
    IN  \/ at = {} /\ v = 0
        \/ \E i \in at : (\A j \in at : j <= i) /\ v = invocation.arguments[i].value

Parsed(k) ==
    /\ LastBefore("file-id", k, runId)
    /\ LastBefore("system-header-threshold", k, systemHeaderThreshold)
    /\ \A i \in DOMAIN invocation.arguments :
            i < k /\ invocation.arguments[i].option \in Options => invocation.arguments[i].ok

ParseInv ==
    /\ phase = "parse" => Parsed(arg)
    /\ phase = "run" /\ consumers = <<>> => Parsed(Len(invocation.arguments) + 1)

InFile == phase \in {"run", "wrap", "unit"}

MetNow == IF phase = "unit" THEN {CurrentFile.classes[k] : k \in 1 .. met} ELSE {}

FallbacksOf(files) == UNION {EncounteredIn(i) : i \in files}

Before(file) == {i \in UnitsDone : i < file}

(* A report for each consumer but one whose probe is still to come.         *)
ReportsInv ==
    IF invocation.coverage
    THEN /\ Len(reports) = IF phase = "wrap" THEN Len(idFileMap) - 1 ELSE Len(idFileMap)
         /\ \A k \in 1 .. Len(reports) : reports[k] = FallbacksOf(Before(idFileMap[k][2]))
    ELSE reports = <<>>

UnitsInv ==
    InFile =>
        /\ enabled <=> invocation.coverage
        /\ fallbacks = IF invocation.coverage THEN FallbacksOf(UnitsDone) \cup MetNow ELSE {}
        /\ Len(consumers) = Len(idFileMap)
        /\ \A k \in 1 .. Len(idFileMap) :
                idFileMap[k][2] <= current /\ (phase = "run" => idFileMap[k][2] < current)
        /\ phase # "run" => /\ CurrentFile.opened
                            /\ Len(idFileMap) > 0
                            /\ idFileMap[Len(idFileMap)][2] = current
        /\ phase = "wrap" => met = 0
        /\ ReportsInv

(* A probe goes before anything else happens, and has reset the options.    *)
ResetInv ==
    /\ probe => phase \in {"load", "wrap"}
    /\ \/ phase = "unit"
       \/ phase = "run" /\ consumers # <<>>
       \/ phase = "wrap" /\ probe
       => runId = 0 /\ systemHeaderThreshold = 0

IInv ==
    /\ PluginTypeOK
    /\ BeforeInv /\ ParseInv /\ ResetInv /\ UnitsInv
    /\ OptionsOfUnits
    /\ ReportsOfTheProcess

-----------------------------------------------------------------------------

LEMMA InvocationTypes ==
    ASSUME invocation \in Invocation
    PROVE  /\ Len(invocation.arguments) \in Nat
           /\ DOMAIN invocation.arguments = 1 .. Len(invocation.arguments)
           /\ \A i \in 1 .. Len(invocation.arguments) : invocation.arguments[i] \in Argument
           /\ Len(invocation.files) \in Nat
           /\ DOMAIN invocation.files = 1 .. Len(invocation.files)
           /\ \A i \in 1 .. Len(invocation.files) :
                /\ invocation.files[i] \in File
                /\ Len(invocation.files[i].classes) \in Nat
                /\ DOMAIN invocation.files[i].classes = 1 .. Len(invocation.files[i].classes)
                /\ \A k \in 1 .. Len(invocation.files[i].classes) :
                        invocation.files[i].classes[k] \in Fallbacks
<1>1. invocation.arguments \in Seq(Argument) /\ invocation.files \in Seq(File)
    BY DEF Invocation
<1>2. /\ Len(invocation.arguments) \in Nat
      /\ DOMAIN invocation.arguments = 1 .. Len(invocation.arguments)
      /\ \A i \in 1 .. Len(invocation.arguments) : invocation.arguments[i] \in Argument
    BY <1>1, LenProperties, ElementOfSeq
<1>3. /\ Len(invocation.files) \in Nat
      /\ DOMAIN invocation.files = 1 .. Len(invocation.files)
      /\ \A i \in 1 .. Len(invocation.files) : invocation.files[i] \in File
    BY <1>1, LenProperties, ElementOfSeq
<1>4. ASSUME NEW i \in 1 .. Len(invocation.files)
      PROVE  /\ Len(invocation.files[i].classes) \in Nat
             /\ DOMAIN invocation.files[i].classes = 1 .. Len(invocation.files[i].classes)
             /\ \A k \in 1 .. Len(invocation.files[i].classes) :
                    invocation.files[i].classes[k] \in Fallbacks
    <2>1. invocation.files[i].classes \in Seq(Fallbacks)
        BY <1>3 DEF File
    <2> QED
        BY <2>1, LenProperties, ElementOfSeq
<1> QED
    BY <1>2, <1>3, <1>4

(* The types of the parts, unfolded.                                        *)
LEMMA Unfolded ==
    ASSUME PluginTypeOK
    PROVE  /\ invocation \in Invocation
           /\ current \in Nat /\ current >= 1 /\ current <= Len(invocation.files) + 1
           /\ arg \in Nat /\ arg >= 1 /\ arg <= Len(invocation.arguments) + 1
           /\ met \in Nat
           /\ Len(invocation.arguments) \in Nat
           /\ DOMAIN invocation.arguments = 1 .. Len(invocation.arguments)
           /\ Len(invocation.files) \in Nat
           /\ DOMAIN invocation.files = 1 .. Len(invocation.files)
           /\ runId \in Int /\ systemHeaderThreshold \in Int
           /\ fallbacks \subseteq Fallbacks
           /\ idFileMap \in Seq(Int \X DOMAIN invocation.files) /\ Len(idFileMap) \in Nat
           /\ DOMAIN idFileMap = 1 .. Len(idFileMap)
           /\ \A k \in 1 .. Len(idFileMap) : idFileMap[k][2] \in DOMAIN invocation.files
           /\ consumers \in Seq(Int \X Int) /\ Len(consumers) \in Nat
           /\ DOMAIN consumers = 1 .. Len(consumers)
           /\ reports \in Seq(SUBSET Fallbacks) /\ Len(reports) \in Nat
           /\ DOMAIN reports = 1 .. Len(reports)
<1>1. /\ invocation \in Invocation
      /\ Len(invocation.arguments) \in Nat /\ Len(invocation.files) \in Nat
      /\ DOMAIN invocation.arguments = 1 .. Len(invocation.arguments)
      /\ DOMAIN invocation.files = 1 .. Len(invocation.files)
    BY InvocationTypes DEF PluginTypeOK
<1>2. /\ current \in 1 .. Len(invocation.files) + 1
      /\ arg \in 1 .. Len(invocation.arguments) + 1
      /\ met \in Nat
    BY DEF PluginTypeOK
<1>3. /\ idFileMap \in Seq(Int \X DOMAIN invocation.files) /\ consumers \in Seq(Int \X Int)
      /\ reports \in Seq(SUBSET Fallbacks)
      /\ runId \in Int /\ systemHeaderThreshold \in Int
      /\ fallbacks \subseteq Fallbacks
    BY DEF PluginTypeOK, ResourcesTypeOK
<1>4. /\ Len(idFileMap) \in Nat /\ DOMAIN idFileMap = 1 .. Len(idFileMap)
      /\ Len(consumers) \in Nat /\ DOMAIN consumers = 1 .. Len(consumers)
      /\ Len(reports) \in Nat /\ DOMAIN reports = 1 .. Len(reports)
    BY <1>3, LenProperties
<1>5. \A k \in 1 .. Len(idFileMap) : idFileMap[k][2] \in DOMAIN invocation.files
    <2>1. \A k \in 1 .. Len(idFileMap) : idFileMap[k] \in Int \X DOMAIN invocation.files
        BY <1>3, ElementOfSeq
    <2> QED
        BY <2>1
<1> QED
    BY <1>1, <1>2, <1>3, <1>4, <1>5

LEMMA InitIInv == PluginInit => IInv
<1> SUFFICES ASSUME PluginInit PROVE IInv
    OBVIOUS
<1>1. /\ invocation \in Invocation /\ phase = "load" /\ probe = FALSE /\ arg = 1 /\ current = 1
      /\ met = 0 /\ failed = FALSE /\ outcome = "running"
    BY InvocationsAssumption DEF PluginInit
<1>2. /\ idFileMap = <<>> /\ consumers = <<>> /\ reports = <<>>
      /\ runId = 0 /\ systemHeaderThreshold = 0
      /\ enabled = FALSE /\ fallbacks = {}
    BY DEF PluginInit, ResourcesInit
<1>3. PluginTypeOK
    <2>1. ResourcesTypeOK(DOMAIN invocation.files)
        <3>1. <<>> \in Seq(Int \X DOMAIN invocation.files) /\ <<>> \in Seq(Int \X Int)
              /\ <<>> \in Seq(SUBSET Fallbacks)
            BY EmptySeq
        <3>2. /\ idFileMap \in Seq(Int \X DOMAIN invocation.files)
              /\ consumers \in Seq(Int \X Int)
              /\ reports \in Seq(SUBSET Fallbacks)
            BY <1>2, <3>1, Zenon
        <3>3. runId \in Int /\ systemHeaderThreshold \in Int
            BY <1>2
        <3>4. enabled \in BOOLEAN /\ fallbacks \subseteq Fallbacks
            BY <1>2, Zenon
        <3> QED
            BY <3>2, <3>3, <3>4 DEF ResourcesTypeOK
    <2>2. /\ current \in 1 .. Len(invocation.files) + 1
          /\ arg \in 1 .. Len(invocation.arguments) + 1
        BY <1>1, InvocationTypes
    <2>3. probe \in BOOLEAN /\ failed \in BOOLEAN
        BY <1>1, Zenon
    <2> QED
        BY <1>1, <2>1, <2>2, <2>3 DEF PluginTypeOK, Phases
<1> QED
    BY <1>1, <1>2, <1>3 DEF IInv, BeforeInv, NoUnits, ParseInv, ResetInv, UnitsInv, InFile,
                            OptionsOfUnits, ReportsOfTheProcess


(* A step outside the loop over the files that keeps the units.             *)
LEMMA NotInFile ==
    ASSUME phase' \in {"load", "create", "parse"}, consumers' = <<>>
    PROVE  UnitsInv' /\ OptionsOfUnits' /\ ReportsOfTheProcess'
    BY DEF UnitsInv, InFile, OptionsOfUnits, ReportsOfTheProcess

(* A step that creates no consumer.                                         *)
LEMMA OptionsKept ==
    ASSUME OptionsOfUnits, UNCHANGED <<invocation, idFileMap, consumers>>
    PROVE  OptionsOfUnits'
<1>1. \A option : Given(option)' = Given(option)
    BY DEF Given
<1>2. \A k : OptionsOf(k)' = OptionsOf(k)
    BY <1>1 DEF OptionsOf
<1> QED
    BY <1>2 DEF OptionsOfUnits

LEMMA ConstructProbeStep ==
    ASSUME IInv, ConstructProbe
    PROVE  IInv'
<1>1. /\ phase \in {"load", "wrap"} /\ phase' = phase /\ probe' = TRUE
      /\ runId' = 0 /\ systemHeaderThreshold' = 0
      /\ enabled' = (enabled \/ (invocation.coverage /\ phase # "load"))
      /\ UNCHANGED <<invocation, arg, current, met, failed, outcome, fallbacks, idFileMap,
                     consumers, reports>>
    BY DEF ConstructProbe, init, unitVars, HandlerCoverageReport
<1>2. enabled \in BOOLEAN /\ invocation.coverage \in BOOLEAN
    BY DEF IInv, PluginTypeOK, ResourcesTypeOK, Invocation
<1>3. PluginTypeOK'
    <2>1. enabled' \in BOOLEAN /\ probe' \in BOOLEAN
        BY <1>1, <1>2
    <2> QED
        BY <1>1, <2>1 DEF IInv, PluginTypeOK, ResourcesTypeOK, CurrentFile
<1>4. BeforeInv' /\ ParseInv'
    <2>1. phase = "load" => enabled' = FALSE
        BY <1>1 DEF IInv, BeforeInv
    <2> QED
        BY <1>1, <2>1 DEF IInv, BeforeInv, ParseInv, NoUnits
<1>5. UnitsInv'
    <2>1. phase = "wrap" => (enabled' <=> invocation.coverage)
        BY <1>1, <1>2 DEF IInv, UnitsInv, InFile
    <2> QED
        BY <1>1, <2>1 DEF IInv, UnitsInv, InFile, ReportsInv, FallbacksOf, Before, UnitsDone,
                          MetNow, EncounteredIn, CurrentFile
<1>6. OptionsOfUnits'
    BY <1>1, OptionsKept DEF IInv
<1>7. ReportsOfTheProcess'
    BY <1>1 DEF ReportsOfTheProcess
<1>8. ResetInv'
    BY <1>1 DEF ResetInv
<1> QED
    BY <1>3, <1>4, <1>5, <1>6, <1>7, <1>8 DEF IInv

(* The report of a probe, which goes before the unit begins.                *)
LEMMA DestroyProbeStep ==
    ASSUME IInv, DestroyProbe
    PROVE  IInv'
<1>1. /\ probe /\ probe' = FALSE
      /\ \/ phase = "load" /\ phase' = "create"
         \/ phase = "wrap" /\ phase' = "unit"
      /\ reports' = IF enabled THEN Append(reports, fallbacks) ELSE reports
      /\ UNCHANGED <<invocation, arg, current, met, failed, outcome, runId,
                     systemHeaderThreshold, enabled, fallbacks, idFileMap, consumers>>
    BY DEF DestroyProbe, optionVars, unitVars, reportHandlerCoverage
<1>2. /\ reports \in Seq(SUBSET Fallbacks) /\ fallbacks \in SUBSET Fallbacks
      /\ Len(reports) \in Nat
    BY Unfolded DEF IInv
<1>3. PluginTypeOK'
    <2>1. reports' \in Seq(SUBSET Fallbacks)
        BY <1>1, <1>2, AppendProperties
    <2>2. probe' \in BOOLEAN
        BY <1>1
    <2>3. phase' \in Phases
        BY <1>1 DEF Phases
    <2>4. phase' \in {"wrap", "unit"} =>
              current <= Len(invocation.files) /\ met <= Len(CurrentFile.classes)
        BY <1>1 DEF IInv, PluginTypeOK
    <2> QED
        BY <1>1, <2>1, <2>2, <2>3, <2>4 DEF IInv, PluginTypeOK, ResourcesTypeOK, CurrentFile
<1>4. ParseInv' /\ ReportsOfTheProcess'
    BY <1>1 DEF ParseInv, ReportsOfTheProcess
<1>8. ResetInv'
    BY <1>1 DEF IInv, ResetInv
<1>5. OptionsOfUnits'
    BY <1>1, OptionsKept DEF IInv
<1>6. CASE phase = "load"
    <2>1. phase' = "create" /\ ~ enabled
        BY <1>1, <1>6 DEF IInv, BeforeInv
    <2>2. BeforeInv' /\ UnitsInv'
        BY <1>1, <1>6, <2>1 DEF IInv, BeforeInv, NoUnits, UnitsInv, InFile
    <2> QED
        BY <1>3, <1>4, <1>5, <1>8, <2>2 DEF IInv
<1>7. CASE phase = "wrap"
    <2>1. phase' = "unit"
        BY <1>1, <1>7
    <2>2. BeforeInv'
        BY <2>1 DEF BeforeInv
    <2>3. /\ enabled <=> invocation.coverage
          /\ fallbacks = IF invocation.coverage THEN FallbacksOf(UnitsDone) \cup MetNow ELSE {}
          /\ Len(consumers) = Len(idFileMap)
          /\ \A k \in 1 .. Len(idFileMap) : idFileMap[k][2] <= current
          /\ CurrentFile.opened
          /\ Len(idFileMap) > 0
          /\ idFileMap[Len(idFileMap)][2] = current
          /\ met = 0
          /\ ReportsInv
        BY <1>7 DEF IInv, UnitsInv, InFile
    <2>4. MetNow = {} /\ MetNow' = {}
        <3>1. 1 .. met' = {}
            BY <1>1, <2>3
        <3> QED
            BY <1>7, <3>1 DEF MetNow
    <2>5. /\ (UnitsDone)' = UnitsDone /\ \A f : Before(f)' = Before(f)
          /\ \A F : FallbacksOf(F)' = FallbacksOf(F)
        BY <1>1 DEF Before, UnitsDone, FallbacksOf, EncounteredIn
    <2>6. ReportsInv'
        <3>1. CASE ~ invocation.coverage
            BY <1>1, <2>3, <3>1 DEF ReportsInv
        <3>2. CASE invocation.coverage
            <4>1. /\ Len(reports) = Len(idFileMap) - 1 /\ Len(idFileMap) \in Nat
                  /\ \A k \in 1 .. Len(reports) :
                        reports[k] = FallbacksOf(Before(idFileMap[k][2]))
                BY <1>7, <2>3, <3>2, Unfolded DEF ReportsInv, IInv
            <4>2. /\ Len(reports') = Len(reports) + 1
                  /\ \A k \in 1 .. Len(reports) : reports'[k] = reports[k]
                  /\ reports'[Len(reports) + 1] = fallbacks
                BY <1>1, <1>2, <2>3, <3>2, AppendProperties
            <4>3. Before(current) = UnitsDone
                BY DEF Before, UnitsDone
            <4>4. fallbacks = FallbacksOf(Before(current))
                BY <2>3, <2>4, <3>2, <4>3
            <4>5. ASSUME NEW k \in 1 .. Len(reports) + 1
                  PROVE  reports'[k] = FallbacksOf(Before(idFileMap[k][2]))
                <5>1. CASE k = Len(reports) + 1
                    <6>1. k = Len(idFileMap)
                        BY <4>1, <5>1
                    <6>2. idFileMap[k][2] = current
                        BY <2>3, <6>1
                    <6> QED
                        BY <4>2, <4>4, <5>1, <6>2
                <5>2. CASE k \in 1 .. Len(reports)
                    BY <4>1, <4>2, <5>2
                <5> QED
                    BY <1>2, <5>1, <5>2
            <4> QED
                BY <1>1, <1>2, <2>1, <2>5, <3>2, <4>1, <4>2, <4>5 DEF ReportsInv
        <3> QED
            BY <3>1, <3>2
    <2>7. UnitsInv'
        BY <1>1, <2>1, <2>3, <2>4, <2>5, <2>6 DEF UnitsInv, CurrentFile
    <2> QED
        BY <1>3, <1>4, <1>5, <1>8, <2>2, <2>7 DEF IInv
<1> QED
    BY <1>1, <1>6, <1>7

(* The Plugin that acts is constructed.                                     *)
LEMMA ConstructActionStep ==
    ASSUME IInv, ConstructAction
    PROVE  IInv'
<1>1. /\ phase = "create" /\ phase' = "parse" /\ runId' = 0 /\ systemHeaderThreshold' = 0
      /\ enabled' = (enabled \/ invocation.coverage)
      /\ UNCHANGED <<invocation, probe, arg, current, met, failed, outcome, fallbacks,
                     idFileMap, consumers, reports>>
    BY DEF ConstructAction, init, unitVars, HandlerCoverageReport
<1>2. NoUnits /\ arg = 1 /\ enabled = FALSE /\ invocation.coverage \in BOOLEAN
    BY <1>1 DEF IInv, BeforeInv, PluginTypeOK, Invocation
<1>3. enabled' = invocation.coverage
    BY <1>1, <1>2
<1>4. BeforeInv'
    BY <1>1, <1>2, <1>3 DEF BeforeInv, NoUnits
<1>5. ParseInv'
    <2>1. \A i \in DOMAIN invocation.arguments : ~ (i < 1)
        BY InvocationTypes DEF IInv, PluginTypeOK
    <2>2. Parsed(1)'
        BY <1>1, <2>1 DEF Parsed, LastBefore
    <2> QED
        BY <1>1, <1>2, <2>2 DEF ParseInv
<1>6. PluginTypeOK'
    <2>1. enabled' \in BOOLEAN
        BY <1>2, <1>3
    <2> QED
        BY <1>1, <2>1 DEF IInv, PluginTypeOK, ResourcesTypeOK, Phases
<1> QED
    BY <1>1, <1>2, <1>4, <1>5, <1>6, NotInFile DEF IInv, NoUnits, ResetInv

(* One more argument is read.                                               *)
LEMMA LastBeforeNext ==
    ASSUME invocation \in Invocation, NEW option, NEW k \in DOMAIN invocation.arguments,
           NEW v, NEW w, LastBefore(option, k, v),
           IF invocation.arguments[k].option = option
           THEN w = invocation.arguments[k].value
           ELSE w = v
    PROVE  LastBefore(option, k + 1, w)
<1> DEFINE At(n) == {i \in DOMAIN invocation.arguments :
                         i < n /\ invocation.arguments[i].option = option}
<1>1. DOMAIN invocation.arguments \subseteq Nat
    BY InvocationTypes
<1>2. CASE invocation.arguments[k].option = option
    <2>1. k \in At(k + 1) /\ \A j \in At(k + 1) : j <= k
        BY <1>1, <1>2
    <2> QED
        BY <1>2, <2>1 DEF LastBefore
<1>3. CASE invocation.arguments[k].option # option
    <2>1. At(k + 1) = At(k)
        BY <1>1, <1>3
    <2> QED
        BY <1>3, <2>1 DEF LastBefore
<1> QED
    BY <1>2, <1>3

LEMMA ParseArgStep ==
    ASSUME IInv, ParseArg
    PROVE  IInv'
<1>1. /\ phase = "parse" /\ phase' = "parse" /\ arg <= Len(invocation.arguments)
      /\ arg' = arg + 1
      /\ UNCHANGED <<invocation, probe, current, met, failed, outcome, enabled, fallbacks,
                     idFileMap, consumers, reports>>
    BY DEF ParseArg, unitVars
<1>2. \/ /\ Arg.option = "file-id" /\ Arg.ok
         /\ runId' = Arg.value /\ systemHeaderThreshold' = systemHeaderThreshold
      \/ /\ Arg.option = "system-header-threshold" /\ Arg.ok
         /\ systemHeaderThreshold' = Arg.value /\ runId' = runId
      \/ /\ Arg.option = "other"
         /\ runId' = runId /\ systemHeaderThreshold' = systemHeaderThreshold
    BY DEF ParseArg, ParseOption, setRunId, setSystemHeaderThreshold, optionVars
<1>3. /\ invocation \in Invocation /\ arg \in DOMAIN invocation.arguments /\ arg \in Nat
      /\ Len(invocation.arguments) \in Nat /\ DOMAIN invocation.arguments \subseteq Nat
      /\ runId \in Int /\ systemHeaderThreshold \in Int
    BY <1>1, Unfolded DEF IInv
<1>4. Arg \in Argument
    BY <1>1, <1>3, InvocationTypes DEF Arg
<1>5. runId' \in Int /\ systemHeaderThreshold' \in Int
    BY <1>2, <1>3, <1>4 DEF Argument
<1>6. PluginTypeOK'
    <2>1. arg' \in 1 .. Len(invocation.arguments) + 1
        BY <1>1, <1>3
    <2> QED
        BY <1>1, <1>5, <2>1 DEF IInv, PluginTypeOK, ResourcesTypeOK
<1>7. BeforeInv' /\ consumers' = <<>>
    BY <1>1 DEF IInv, BeforeInv, NoUnits
<1>8. ParseInv'
    <2>1. Parsed(arg)
        BY <1>1 DEF IInv, ParseInv
    <2>2. /\ LastBefore("file-id", arg + 1, runId')
          /\ LastBefore("system-header-threshold", arg + 1, systemHeaderThreshold')
        BY <1>2, <1>3, <2>1, LastBeforeNext DEF Parsed, Arg
    <2>3. \A i \in DOMAIN invocation.arguments :
              i < arg + 1 /\ invocation.arguments[i].option \in Options
                  => invocation.arguments[i].ok
        <3>1. \A i \in DOMAIN invocation.arguments : i < arg + 1 => i < arg \/ i = arg
            BY <1>3
        <3>2. Arg.option \in Options => Arg.ok
            BY <1>2 DEF Options
        <3> QED
            BY <2>1, <3>1, <3>2 DEF Parsed, Arg
    <2>4. Parsed(arg)'
        BY <1>1, <2>2, <2>3 DEF Parsed, LastBefore
    <2> QED
        BY <1>1, <2>4 DEF ParseInv
<1> QED
    BY <1>1, <1>6, <1>7, <1>8, NotInFile DEF IInv, ResetInv

LEMMA ParseArgThrowsStep ==
    ASSUME IInv, ParseArgThrows
    PROVE  IInv'
<1>1. /\ phase = "parse" /\ phase' = "exited" /\ outcome' = "aborted"
      /\ UNCHANGED <<invocation, probe, arg, current, met, failed, runId,
                     systemHeaderThreshold, enabled, fallbacks, idFileMap, consumers, reports>>
    BY DEF ParseArgThrows, resourceVars, optionVars, unitVars
<1>2. PluginTypeOK'
    BY <1>1 DEF IInv, PluginTypeOK, ResourcesTypeOK, Phases
<1>3. OptionsOfUnits'
    BY <1>1 DEF IInv, BeforeInv, NoUnits, OptionsOfUnits
<1> QED
    BY <1>1, <1>2, <1>3
    DEF IInv, BeforeInv, ParseInv, ResetInv, UnitsInv, InFile, ReportsOfTheProcess

LEMMA ArgsParsedStep ==
    ASSUME IInv, ArgsParsed
    PROVE  IInv'
<1>1. /\ phase = "parse" /\ phase' = "run" /\ arg > Len(invocation.arguments)
      /\ UNCHANGED <<invocation, probe, arg, current, met, failed, outcome, runId,
                     systemHeaderThreshold, enabled, fallbacks, idFileMap, consumers, reports>>
    BY DEF ArgsParsed, resourceVars, optionVars, unitVars
<1>2. /\ NoUnits /\ (enabled <=> invocation.coverage) /\ Parsed(arg)
    BY <1>1 DEF IInv, BeforeInv, ParseInv
<1>3. PluginTypeOK'
    BY <1>1 DEF IInv, PluginTypeOK, ResourcesTypeOK, Phases
<1>4. arg = Len(invocation.arguments) + 1
    BY <1>1, Unfolded DEF IInv
<1>5. ParseInv'
    BY <1>1, <1>2, <1>4 DEF ParseInv, Parsed, LastBefore
<1>6. OptionsOfUnits' /\ BeforeInv' /\ ResetInv' /\ ReportsOfTheProcess'
    BY <1>1, <1>2 DEF IInv, NoUnits, OptionsOfUnits, BeforeInv, ResetInv, ReportsOfTheProcess
<1>7. UnitsInv'
    <2>1. Len(idFileMap') = 0 /\ Len(consumers') = 0 /\ Len(reports') = 0
        BY <1>1, <1>2 DEF NoUnits
    <2>2. (UnitsDone)' = {}
        BY <1>1, <1>2, Unfolded DEF IInv, NoUnits, UnitsDone
    <2>3. FallbacksOf({})' = {} /\ MetNow' = {}
        BY <1>1 DEF FallbacksOf, MetNow
    <2>4. ReportsInv'
        BY <1>1, <1>2, <2>1 DEF NoUnits, ReportsInv
    <2>5. fallbacks' = {} /\ FallbacksOf(UnitsDone)' = {}
        BY <1>1, <1>2, <2>2 DEF NoUnits, FallbacksOf
    <2> QED
        BY <1>1, <1>2, <2>1, <2>3, <2>4, <2>5 DEF UnitsInv
<1> QED
    BY <1>3, <1>5, <1>6, <1>7 DEF IInv


-----------------------------------------------------------------------------

LEMMA SkipStep ==
    ASSUME IInv, SkipFile
    PROVE  IInv'
<1>1. /\ phase = "run" /\ phase' = "run" /\ current <= Len(invocation.files)
      /\ ~ CurrentFile.opened /\ failed' = TRUE /\ current' = current + 1
      /\ UNCHANGED <<invocation, probe, arg, met, outcome, runId, systemHeaderThreshold,
                     enabled, fallbacks, idFileMap, consumers, reports>>
    BY DEF SkipFile, AtFile, resourceVars, optionVars, unitVars
<1>2. /\ current \in Nat /\ current >= 1 /\ Len(invocation.files) \in Nat
      /\ DOMAIN invocation.files = 1 .. Len(invocation.files)
      /\ \A k \in 1 .. Len(idFileMap) : idFileMap[k][2] \in DOMAIN invocation.files
    BY Unfolded DEF IInv
<1>3. PluginTypeOK'
    <2>1. current' \in 1 .. Len(invocation.files) + 1 /\ failed' \in BOOLEAN
        BY <1>1, <1>2
    <2> QED
        BY <1>1, <2>1 DEF IInv, PluginTypeOK, ResourcesTypeOK
<1>4. (UnitsDone)' = UnitsDone
    <2>1. \A i \in DOMAIN invocation.files :
              i < current + 1 /\ invocation.files[i].opened
                  <=> i < current /\ invocation.files[i].opened
        BY <1>1, <1>2 DEF CurrentFile
    <2> QED
        BY <1>1, <2>1 DEF UnitsDone
<1>5. /\ \A f : Before(f)' = Before(f) /\ \A F : FallbacksOf(F)' = FallbacksOf(F)
      /\ MetNow' = MetNow
    BY <1>1, <1>4 DEF Before, FallbacksOf, EncounteredIn, MetNow
<1>6. ReportsInv'
    BY <1>1, <1>5 DEF IInv, UnitsInv, InFile, ReportsInv
<1>7. UnitsInv'
    <2>1. \A k \in 1 .. Len(idFileMap) :
              idFileMap[k][2] < current + 1 /\ idFileMap[k][2] <= current + 1
        BY <1>1, <1>2 DEF IInv, UnitsInv, InFile
    <2> QED
        BY <1>1, <1>4, <1>5, <1>6, <2>1 DEF IInv, UnitsInv, InFile
<1>8. BeforeInv' /\ ResetInv' /\ ReportsOfTheProcess'
    BY <1>1 DEF IInv, BeforeInv, ResetInv, ReportsOfTheProcess
<1>9. ParseInv'
    BY <1>1 DEF IInv, ParseInv, Parsed, LastBefore
<1>10. OptionsOfUnits'
    BY <1>1, OptionsKept DEF IInv
<1> QED
    BY <1>3, <1>7, <1>8, <1>9, <1>10 DEF IInv

(* The value left by all the arguments is the last one given.               *)
LEMMA LastIsGiven ==
    ASSUME invocation \in Invocation, NEW option, NEW v,
           LastBefore(option, Len(invocation.arguments) + 1, v)
    PROVE  v = Given(option)
<1> DEFINE at == {i \in DOMAIN invocation.arguments : invocation.arguments[i].option = option}
<1>1. DOMAIN invocation.arguments \subseteq Nat
    BY InvocationTypes
<1>2. at = {i \in DOMAIN invocation.arguments :
                i < Len(invocation.arguments) + 1 /\ invocation.arguments[i].option = option}
    BY InvocationTypes
<1>3. CASE at = {}
    BY <1>2, <1>3 DEF LastBefore, Given
<1>4. CASE at # {}
    <2>1. PICK i \in at : (\A j \in at : j <= i) /\ v = invocation.arguments[i].value
        BY <1>2, <1>4 DEF LastBefore
    <2> DEFINE last == CHOOSE k \in at : \A j \in at : j <= k
    <2>2. last \in at /\ \A j \in at : j <= last
        BY <2>1
    <2>3. last = i
        BY <1>1, <2>1, <2>2
    <2>4. Given(option) = invocation.arguments[last].value
        BY <1>4 DEF Given
    <2> QED
        BY <2>1, <2>3, <2>4
<1> QED
    BY <1>3, <1>4

LEMMA CreateStep ==
    ASSUME IInv, CreateASTConsumer
    PROVE  IInv'
<1>1. /\ phase = "run" /\ phase' = "wrap" /\ met' = 0 /\ current <= Len(invocation.files)
      /\ CurrentFile.opened
      /\ idFileMap' = Append(idFileMap, <<runId, current>>)
      /\ consumers' = Append(consumers, <<runId, systemHeaderThreshold>>)
      /\ UNCHANGED <<invocation, probe, arg, current, failed, outcome, runId,
                     systemHeaderThreshold, enabled, fallbacks, reports>>
    BY DEF CreateASTConsumer, AtFile, CreateConsumer, optionVars
<1>2. /\ current \in DOMAIN invocation.files /\ current \in Nat /\ runId \in Int
      /\ systemHeaderThreshold \in Int /\ invocation \in Invocation
      /\ idFileMap \in Seq(Int \X DOMAIN invocation.files) /\ Len(idFileMap) \in Nat
      /\ consumers \in Seq(Int \X Int) /\ Len(consumers) \in Nat
      /\ \A k \in 1 .. Len(idFileMap) : idFileMap[k][2] \in DOMAIN invocation.files
      /\ DOMAIN invocation.files \subseteq Nat
    BY <1>1, Unfolded DEF IInv
<1>3. /\ idFileMap' \in Seq(Int \X DOMAIN invocation.files)
      /\ Len(idFileMap') = Len(idFileMap) + 1
      /\ \A k \in 1 .. Len(idFileMap) : idFileMap'[k] = idFileMap[k]
      /\ idFileMap'[Len(idFileMap) + 1] = <<runId, current>>
    BY <1>1, <1>2, AppendProperties
<1>4. /\ consumers' \in Seq(Int \X Int) /\ Len(consumers') = Len(consumers) + 1
      /\ \A k \in 1 .. Len(consumers) : consumers'[k] = consumers[k]
      /\ consumers'[Len(consumers) + 1] = <<runId, systemHeaderThreshold>>
    BY <1>1, <1>2, AppendProperties
<1>5. PluginTypeOK'
    <2>1. 0 <= Len(CurrentFile.classes)
        BY <1>2, InvocationTypes DEF CurrentFile
    <2> QED
        BY <1>1, <1>3, <1>4, <2>1 DEF IInv, PluginTypeOK, ResourcesTypeOK, Phases, CurrentFile
<1>6. /\ enabled <=> invocation.coverage
      /\ fallbacks = IF invocation.coverage THEN FallbacksOf(UnitsDone) \cup MetNow ELSE {}
      /\ Len(consumers) = Len(idFileMap)
      /\ \A k \in 1 .. Len(idFileMap) : idFileMap[k][2] < current
      /\ ReportsInv
    BY <1>1 DEF IInv, UnitsInv, InFile
<1>7. /\ (UnitsDone)' = UnitsDone /\ \A f : Before(f)' = Before(f)
      /\ \A F : FallbacksOf(F)' = FallbacksOf(F)
      /\ MetNow = {} /\ MetNow' = {}
    BY <1>1 DEF Before, UnitsDone, FallbacksOf, EncounteredIn, MetNow
<1>8. ReportsInv'
    <2>1. CASE ~ invocation.coverage
        BY <1>1, <1>6, <2>1 DEF ReportsInv
    <2>2. CASE invocation.coverage
        <3>1. /\ Len(reports) = Len(idFileMap)
              /\ \A k \in 1 .. Len(reports) : reports[k] = FallbacksOf(Before(idFileMap[k][2]))
            BY <1>1, <1>6, <2>2 DEF ReportsInv
        <3>2. Len(reports') = Len(idFileMap') - 1
            BY <1>1, <1>2, <1>3, <3>1
        <3>3. \A k \in 1 .. Len(reports) : reports'[k] = FallbacksOf(Before(idFileMap'[k][2]))
            BY <1>1, <1>3, <3>1
        <3> QED
            BY <1>1, <1>7, <2>2, <3>2, <3>3 DEF ReportsInv
    <2> QED
        BY <2>1, <2>2
<1>9. UnitsInv'
    <2>1. ASSUME NEW k \in 1 .. Len(idFileMap) + 1
          PROVE  idFileMap'[k][2] <= current
        <3>1. CASE k = Len(idFileMap) + 1
            <4>1. idFileMap'[k] = <<runId, current>>
                BY <1>3, <3>1
            <4> QED
                BY <1>2, <4>1
        <3>2. CASE k \in 1 .. Len(idFileMap)
            <4>1. idFileMap'[k] = idFileMap[k] /\ idFileMap[k][2] < current
                BY <1>3, <1>6, <3>2
            <4>2. idFileMap[k][2] \in Nat
                BY <1>2, <3>2
            <4> QED
                BY <1>2, <4>1, <4>2
        <3> QED
            BY <1>2, <3>1, <3>2
    <2>2. Len(idFileMap') > 0 /\ idFileMap'[Len(idFileMap')][2] = current
        BY <1>2, <1>3
    <2>3. Len(consumers') = Len(idFileMap')
        BY <1>3, <1>4, <1>6
    <2> QED
        BY <1>1, <1>3, <1>6, <1>7, <1>8, <2>1, <2>2, <2>3 DEF UnitsInv, CurrentFile
<1>10. OptionsOfUnits'
    <2>1. CASE consumers = <<>>
        <3>1. Parsed(Len(invocation.arguments) + 1)
            BY <1>1, <2>1 DEF IInv, ParseInv
        <3>2. runId = Given("file-id") /\ systemHeaderThreshold = Given("system-header-threshold")
            BY <1>2, <3>1, LastIsGiven DEF Parsed
        <3>3. \A i \in DOMAIN invocation.arguments :
                  invocation.arguments[i].option \in Options => invocation.arguments[i].ok
            BY <1>2, <3>1, InvocationTypes DEF Parsed
        <3>4. Len(consumers) = 0 /\ DOMAIN consumers' = 1 .. 1
            BY <1>4, <2>1, LenProperties
        <3>5. /\ consumers'[1] = <<runId, systemHeaderThreshold>>
              /\ idFileMap'[1] = <<runId, current>>
            BY <1>3, <1>4, <1>6, <3>4
        <3>6. \A option : Given(option)' = Given(option)
            BY <1>1 DEF Given
        <3>7. consumers'[1] = OptionsOf(1) /\ idFileMap'[1][1] = OptionsOf(1)[1]
            BY <3>2, <3>5 DEF OptionsOf
        <3>8. \A k \in DOMAIN consumers' : k = 1
            BY <3>4
        <3> QED
            BY <1>1, <3>3, <3>6, <3>7, <3>8 DEF OptionsOfUnits, OptionsOf
    <2>2. CASE consumers # <<>>
        <3>1. runId = 0 /\ systemHeaderThreshold = 0
            BY <1>1, <2>2 DEF IInv, ResetInv
        <3>2. /\ DOMAIN consumers = 1 .. Len(consumers) /\ Len(consumers) > 0
              /\ DOMAIN consumers' = 1 .. Len(consumers) + 1
            BY <1>2, <1>4, <2>2, LenProperties, EmptySeq
        <3>3. ASSUME NEW k \in DOMAIN consumers'
              PROVE  consumers'[k] = OptionsOf(k) /\ idFileMap'[k][1] = OptionsOf(k)[1]
            <4>1. CASE k = Len(consumers) + 1
                <5>1. OptionsOf(k) = <<0, 0>>
                    BY <1>2, <3>2, <4>1 DEF OptionsOf
                <5>2. consumers'[k] = <<0, 0>> /\ idFileMap'[k] = <<0, current>>
                    BY <1>3, <1>4, <1>6, <3>1, <4>1
                <5> QED
                    BY <5>1, <5>2
            <4>2. CASE k \in DOMAIN consumers
                <5>1. consumers[k] = OptionsOf(k) /\ idFileMap[k][1] = OptionsOf(k)[1]
                    BY <2>2, <4>2 DEF IInv, OptionsOfUnits
                <5>2. consumers'[k] = consumers[k] /\ idFileMap'[k] = idFileMap[k]
                    BY <1>3, <1>4, <1>6, <3>2, <4>2
                <5> QED
                    BY <5>1, <5>2
            <4> QED
                BY <1>2, <3>2, <4>1, <4>2
        <3>4. \A k : OptionsOf(k)' = OptionsOf(k)
            BY <1>1 DEF OptionsOf, Given
        <3>5. \A i \in DOMAIN invocation.arguments :
                  invocation.arguments[i].option \in Options => invocation.arguments[i].ok
            BY <2>2 DEF IInv, OptionsOfUnits
        <3> QED
            BY <1>1, <3>3, <3>4, <3>5 DEF OptionsOfUnits
    <2> QED
        BY <2>1, <2>2
<1>11. ResetInv'
    <2>1. ~ probe
        BY <1>1 DEF IInv, ResetInv
    <2> QED
        BY <1>1, <2>1 DEF ResetInv
<1> QED
    BY <1>1, <1>5, <1>9, <1>10, <1>11 DEF IInv, BeforeInv, ParseInv, ReportsOfTheProcess

LEMMA RecordStep ==
    ASSUME IInv, recordHandlerFallback
    PROVE  IInv'
<1>1. /\ phase = "unit" /\ phase' = "unit" /\ met < Len(CurrentFile.classes) /\ met' = met + 1
      /\ fallbacks' = IF enabled THEN fallbacks \cup {CurrentFile.classes[met + 1]} ELSE fallbacks
      /\ UNCHANGED <<invocation, probe, arg, current, failed, outcome, runId,
                     systemHeaderThreshold, enabled, idFileMap, consumers, reports>>
    BY DEF recordHandlerFallback, recordFallback, optionVars, unitVars
<1>2. /\ met \in Nat /\ Len(CurrentFile.classes) \in Nat
      /\ CurrentFile.classes[met + 1] \in Fallbacks
    <2>1. /\ met \in Nat /\ current \in 1 .. Len(invocation.files) /\ invocation \in Invocation
        BY <1>1, Unfolded DEF IInv, PluginTypeOK
    <2>2. /\ Len(CurrentFile.classes) \in Nat
          /\ \A k \in 1 .. Len(CurrentFile.classes) : CurrentFile.classes[k] \in Fallbacks
        BY <2>1, InvocationTypes DEF CurrentFile
    <2> QED
        BY <1>1, <2>1, <2>2
<1>3. MetNow' = MetNow \cup {CurrentFile.classes[met + 1]}
    <2>1. \A k : k \in 1 .. met + 1 <=> k \in 1 .. met \/ k = met + 1
        BY <1>2
    <2> QED
        BY <1>1, <2>1 DEF MetNow, CurrentFile
<1>4. /\ (UnitsDone)' = UnitsDone /\ \A f : Before(f)' = Before(f)
      /\ \A F : FallbacksOf(F)' = FallbacksOf(F)
    BY <1>1 DEF Before, UnitsDone, FallbacksOf, EncounteredIn
<1>5. ReportsInv'
    BY <1>1, <1>4 DEF IInv, UnitsInv, InFile, ReportsInv
<1>6. UnitsInv'
    <2>1. enabled <=> invocation.coverage
        BY <1>1 DEF IInv, UnitsInv, InFile
    <2>2. fallbacks' = IF invocation.coverage THEN FallbacksOf(UnitsDone) \cup MetNow' ELSE {}
        BY <1>1, <1>3, <2>1 DEF IInv, UnitsInv, InFile
    <2> QED
        BY <1>1, <1>4, <1>5, <2>1, <2>2 DEF IInv, UnitsInv, InFile, CurrentFile
<1>7. PluginTypeOK'
    BY <1>1, <1>2 DEF IInv, PluginTypeOK, ResourcesTypeOK, CurrentFile
<1>8. OptionsOfUnits'
    BY <1>1, OptionsKept DEF IInv
<1> QED
    BY <1>1, <1>6, <1>7, <1>8 DEF IInv, BeforeInv, ParseInv, ResetInv, ReportsOfTheProcess


LEMMA EndStep ==
    ASSUME IInv, EndUnit
    PROVE  IInv'
<1>1. /\ phase = "unit" /\ phase' = "run" /\ met = Len(CurrentFile.classes)
      /\ failed' = (failed \/ CurrentFile.ends = "errors") /\ current' = current + 1
      /\ UNCHANGED <<invocation, probe, arg, met, outcome, runId, systemHeaderThreshold,
                     enabled, fallbacks, idFileMap, consumers, reports>>
    BY DEF EndUnit, UnitMet, resourceVars, optionVars, unitVars
<1>2. /\ current \in Nat /\ Len(invocation.files) \in Nat /\ current <= Len(invocation.files)
      /\ DOMAIN invocation.files = 1 .. Len(invocation.files)
      /\ current \in DOMAIN invocation.files /\ invocation \in Invocation
      /\ \A k \in 1 .. Len(idFileMap) : idFileMap[k][2] \in DOMAIN invocation.files
    BY <1>1, Unfolded DEF IInv, PluginTypeOK
<1>3. PluginTypeOK'
    <2>1. current' \in 1 .. Len(invocation.files) + 1
        BY <1>1, <1>2
    <2>2. failed' \in BOOLEAN
        BY <1>1 DEF IInv, PluginTypeOK
    <2> QED
        BY <1>1, <2>1, <2>2 DEF IInv, PluginTypeOK, ResourcesTypeOK, Phases
<1>4. /\ enabled <=> invocation.coverage
      /\ fallbacks = IF invocation.coverage THEN FallbacksOf(UnitsDone) \cup MetNow ELSE {}
      /\ Len(consumers) = Len(idFileMap) /\ Len(idFileMap) > 0
      /\ \A k \in 1 .. Len(idFileMap) : idFileMap[k][2] <= current
      /\ CurrentFile.opened
      /\ ReportsInv
    BY <1>1 DEF IInv, UnitsInv, InFile
<1>5. (UnitsDone)' = UnitsDone \cup {current}
    <2>1. \A i \in DOMAIN invocation.files :
              i < current + 1 /\ invocation.files[i].opened
                  <=> i = current \/ (i < current /\ invocation.files[i].opened)
        BY <1>2, <1>4 DEF CurrentFile
    <2> QED
        BY <1>1, <1>2, <2>1 DEF UnitsDone
<1>6. MetNow = EncounteredIn(current) /\ MetNow' = {}
    <2>1. DOMAIN CurrentFile.classes = 1 .. Len(CurrentFile.classes)
        BY <1>2, InvocationTypes DEF CurrentFile
    <2> QED
        BY <1>1, <2>1 DEF MetNow, EncounteredIn, CurrentFile
<1>7. FallbacksOf(UnitsDone)' = FallbacksOf(UnitsDone) \cup EncounteredIn(current)
    <2>1. FallbacksOf(UnitsDone \cup {current}) = FallbacksOf(UnitsDone) \cup EncounteredIn(current)
        BY DEF FallbacksOf
    <2>2. \A F : FallbacksOf(F)' = FallbacksOf(F')
        BY <1>1 DEF FallbacksOf, EncounteredIn
    <2> QED
        BY <1>1, <1>5, <2>1 DEF FallbacksOf, EncounteredIn
<1>8. ReportsInv'
    <2>1. ASSUME NEW k \in 1 .. Len(idFileMap)
          PROVE  Before(idFileMap[k][2])' = Before(idFileMap[k][2])
        <3>1. idFileMap[k][2] <= current /\ idFileMap[k][2] \in Nat
            BY <1>2, <1>4
        <3>2. ~ (current < idFileMap[k][2])
            BY <1>2, <3>1
        <3> QED
            BY <1>1, <1>5, <3>2 DEF Before
    <2>2. \A F : FallbacksOf(F)' = FallbacksOf(F')
        BY <1>1 DEF FallbacksOf, EncounteredIn
    <2>3. CASE ~ invocation.coverage
        BY <1>1, <1>4, <2>3 DEF ReportsInv
    <2>4. CASE invocation.coverage
        <3>1. /\ Len(reports) = Len(idFileMap)
              /\ \A k \in 1 .. Len(reports) : reports[k] = FallbacksOf(Before(idFileMap[k][2]))
            BY <1>1, <1>4, <2>4 DEF ReportsInv
        <3>2. \A k \in 1 .. Len(reports) : reports[k] = FallbacksOf(Before(idFileMap[k][2]))'
            <4> TAKE k \in 1 .. Len(reports)
            <4>1. reports[k] = FallbacksOf(Before(idFileMap[k][2]))
                BY <3>1
            <4>2. Before(idFileMap[k][2])' = Before(idFileMap[k][2])
                BY <2>1, <3>1
            <4> QED
                BY <1>1, <4>1, <4>2 DEF FallbacksOf, EncounteredIn
        <3> QED
            BY <1>1, <2>4, <3>1, <3>2 DEF ReportsInv
    <2> QED
        BY <2>3, <2>4
<1>9. UnitsInv'
    <2>1. \A k \in 1 .. Len(idFileMap) :
              idFileMap[k][2] < current + 1 /\ idFileMap[k][2] <= current + 1
        BY <1>2, <1>4
    <2> QED
        BY <1>1, <1>4, <1>6, <1>7, <1>8, <2>1 DEF UnitsInv
<1>10. ParseInv'
    <2>1. consumers # <<>>
        BY <1>4
    <2> QED
        BY <1>1, <2>1 DEF ParseInv
<1>11. OptionsOfUnits'
    BY <1>1, OptionsKept DEF IInv
<1> QED
    BY <1>1, <1>3, <1>9, <1>10, <1>11 DEF IInv, BeforeInv, ResetInv, ReportsOfTheProcess

-----------------------------------------------------------------------------

(* cc1 exits between two units or in the middle of one.                     *)
LEMMA ExitStep ==
    ASSUME IInv, phase' = "exited", outcome' \in {"success", "failure"},
           \/ phase = "run" /\ current > Len(invocation.files)
           \/ phase = "unit" /\ met = Len(CurrentFile.classes),
           reports' = IF (phase = "unit" \/ ~ invocation.disableFree) /\ enabled
                      THEN Append(reports, fallbacks) ELSE reports,
           UNCHANGED <<invocation, probe, arg, current, met, failed, optionVars, enabled,
                       fallbacks, unitVars>>
    PROVE  IInv'
<1>1. UNCHANGED <<invocation, probe, arg, current, met, failed, runId, systemHeaderThreshold,
                  enabled, fallbacks, idFileMap, consumers>>
    BY DEF optionVars, unitVars
<1>2. /\ current \in Nat /\ Len(invocation.files) \in Nat /\ invocation \in Invocation
      /\ reports \in Seq(SUBSET Fallbacks) /\ fallbacks \in SUBSET Fallbacks
      /\ Len(reports) \in Nat /\ DOMAIN consumers = 1 .. Len(consumers)
    BY Unfolded DEF IInv
<1>3. /\ enabled <=> invocation.coverage
      /\ fallbacks = IF invocation.coverage THEN FallbacksOf(UnitsDone) \cup MetNow ELSE {}
      /\ Len(consumers) = Len(idFileMap) /\ ReportsInv
    BY DEF IInv, UnitsInv, InFile
<1>4. PluginTypeOK'
    <2>1. reports' \in Seq(SUBSET Fallbacks)
        BY <1>2, AppendProperties
    <2>2. phase' \in Phases /\ outcome' \in {"running", "success", "failure", "aborted"}
        BY DEF Phases
    <2> QED
        BY <1>1, <2>1, <2>2 DEF IInv, PluginTypeOK, ResourcesTypeOK
<1>5. phase = "unit" <=> current <= Len(invocation.files)
    BY <1>2 DEF IInv, PluginTypeOK
<1>6. MetNow = IF current <= Len(invocation.files) THEN EncounteredIn(current) ELSE {}
    <2>1. CASE phase = "run"
        BY <1>5, <2>1 DEF MetNow
    <2>2. CASE phase = "unit"
        <3>1. DOMAIN CurrentFile.classes = 1 .. Len(CurrentFile.classes)
            BY <1>2, <1>5, <2>2, InvocationTypes, Unfolded DEF CurrentFile, IInv
        <3> QED
            BY <1>5, <2>2, <3>1 DEF MetNow, EncounteredIn, CurrentFile
    <2> QED
        BY <2>1, <2>2
<1>7. FallbacksOf(UnitsDone) \cup MetNow =
          UNION {EncounteredIn(i) :
                 i \in UnitsDone \cup (IF current <= Len(invocation.files) THEN {current} ELSE {})}
    BY <1>6 DEF FallbacksOf
<1>8. invocation.coverage =>
          /\ Len(reports') = Len(consumers) + (IF phase = "unit" \/ ~ invocation.disableFree
                                                THEN 1 ELSE 0)
          /\ \A k \in 1 .. Len(consumers) :
                  reports'[k] = UNION {EncounteredIn(i) : i \in Before(idFileMap[k][2])}
          /\ phase = "unit" \/ ~ invocation.disableFree => reports'[Len(reports')] = fallbacks
    <2> SUFFICES ASSUME invocation.coverage
                 PROVE  /\ Len(reports') = Len(consumers)
                               + (IF phase = "unit" \/ ~ invocation.disableFree THEN 1 ELSE 0)
                        /\ \A k \in 1 .. Len(consumers) :
                              reports'[k] = UNION {EncounteredIn(i) : i \in Before(idFileMap[k][2])}
                        /\ phase = "unit" \/ ~ invocation.disableFree
                               => reports'[Len(reports')] = fallbacks
        OBVIOUS
    <2>1. /\ Len(reports) = Len(consumers)
          /\ \A k \in 1 .. Len(reports) :
                  reports[k] = UNION {EncounteredIn(i) : i \in Before(idFileMap[k][2])}
        BY <1>3 DEF ReportsInv, FallbacksOf
    <2>2. CASE phase = "unit" \/ ~ invocation.disableFree
        <3>1. reports' = Append(reports, fallbacks)
            BY <1>3, <2>2
        <3>2. /\ Len(reports') = Len(reports) + 1
              /\ \A k \in 1 .. Len(reports) : reports'[k] = reports[k]
              /\ reports'[Len(reports) + 1] = fallbacks
            BY <1>2, <3>1, AppendProperties
        <3> QED
            BY <2>1, <2>2, <3>2
    <2>3. CASE ~ (phase = "unit" \/ ~ invocation.disableFree)
        BY <1>2, <2>1, <2>3
    <2> QED
        BY <2>2, <2>3
<1>9. ~ invocation.coverage => reports' = <<>>
    BY <1>3 DEF ReportsInv
<1>10. ReportsOfTheProcess'
    <2>1. /\ (UnitsDone)' = UnitsDone /\ \A f : Before(f)' = Before(f)
          /\ \A i : EncounteredIn(i)' = EncounteredIn(i)
        BY <1>1 DEF Before, UnitsDone, EncounteredIn
    <2>2. \A f : Before(f) = {i \in UnitsDone : i < f}
        BY DEF Before
    <2>3. invocation.coverage => fallbacks = FallbacksOf(UnitsDone) \cup MetNow
        BY <1>3
    <2> QED
        BY <1>1, <1>2, <1>5, <1>7, <1>8, <1>9, <2>1, <2>2, <2>3 DEF ReportsOfTheProcess
<1>11. OptionsOfUnits'
    BY <1>1, OptionsKept DEF IInv
<1> QED
    BY <1>1, <1>4, <1>10, <1>11 DEF IInv, BeforeInv, ParseInv, ResetInv, UnitsInv, InFile

LEMMA FatalStep ==
    ASSUME IInv, dumpFatalError
    PROVE  IInv'
    BY ExitStep DEF dumpFatalError, UnitMet, reportHandlerCoverage

LEMMA DestroyActionStep ==
    ASSUME IInv, DestroyAction
    PROVE  IInv'
<1>1. /\ phase = "run" /\ current > Len(invocation.files) /\ phase' = "exited"
      /\ UNCHANGED <<invocation, probe, arg, current, met, failed, optionVars, enabled,
                     fallbacks, unitVars>>
    BY DEF DestroyAction
<1>2. outcome' \in {"success", "failure"}
    BY DEF DestroyAction, Outcome
<1>3. reports' = IF (phase = "unit" \/ ~ invocation.disableFree) /\ enabled
                 THEN Append(reports, fallbacks) ELSE reports
    BY DEF DestroyAction, reportHandlerCoverage
<1> QED
    BY <1>1, <1>2, <1>3, ExitStep

LEMMA BuryActionStep ==
    ASSUME IInv, BuryAction
    PROVE  IInv'
<1>1. /\ phase = "run" /\ current > Len(invocation.files) /\ phase' = "exited"
      /\ UNCHANGED <<invocation, probe, arg, current, met, failed, optionVars, enabled,
                     fallbacks, unitVars>>
    BY DEF BuryAction, resourceVars
<1>2. outcome' \in {"success", "failure"}
    BY DEF BuryAction, Outcome
<1>3. reports' = IF (phase = "unit" \/ ~ invocation.disableFree) /\ enabled
                 THEN Append(reports, fallbacks) ELSE reports
    BY <1>1 DEF BuryAction, resourceVars
<1> QED
    BY <1>1, <1>2, <1>3, ExitStep

-----------------------------------------------------------------------------

LEMMA NextIInv == IInv /\ [PluginNext]_pluginVars => IInv'
<1> SUFFICES ASSUME IInv, [PluginNext]_pluginVars PROVE IInv'
    OBVIOUS
<1>1. CASE PluginStep
    BY <1>1, ConstructProbeStep, DestroyProbeStep, ConstructActionStep, ParseArgStep,
       ParseArgThrowsStep, ArgsParsedStep, SkipStep, CreateStep, RecordStep, FatalStep, EndStep,
       DestroyActionStep, BuryActionStep DEF PluginStep
<1>2. CASE UNCHANGED pluginVars
    <2>1. UNCHANGED <<invocation, phase, probe, arg, current, met, failed, outcome, runId,
                      systemHeaderThreshold, enabled, fallbacks, idFileMap, consumers, reports>>
        BY <1>2 DEF pluginVars, frontendVars, resourceVars, optionVars, unitVars
    <2>2. PluginTypeOK' /\ BeforeInv'
        BY <2>1 DEF IInv, PluginTypeOK, ResourcesTypeOK, CurrentFile, BeforeInv, NoUnits
    <2>3. ParseInv' /\ ResetInv'
        BY <2>1 DEF IInv, ParseInv, Parsed, LastBefore, ResetInv
    <2>4. /\ (UnitsDone)' = UnitsDone /\ MetNow' = MetNow
          /\ \A f : Before(f)' = Before(f) /\ \A F : FallbacksOf(F)' = FallbacksOf(F)
          /\ \A i : EncounteredIn(i)' = EncounteredIn(i)
        BY <2>1 DEF UnitsDone, MetNow, Before, FallbacksOf, EncounteredIn, CurrentFile
    <2>6. UnitsInv'
        BY <2>1, <2>4 DEF IInv, UnitsInv, InFile, ReportsInv, CurrentFile
    <2>5. OptionsOfUnits'
        BY <2>1, OptionsKept DEF IInv
    <2>7. ReportsOfTheProcess'
        BY <2>1, <2>4 DEF IInv, ReportsOfTheProcess
    <2> QED
        BY <2>2, <2>3, <2>5, <2>6, <2>7 DEF IInv
<1> QED
    BY <1>1, <1>2 DEF PluginNext, Exited

LEMMA PluginInvariant == PluginSpec => []IInv
    BY InitIInv, NextIInv, PTL DEF PluginSpec

(* The state of cc1, of the Plugin objects and of the shared resources      *)
(* keeps its types.                                                         *)
THEOREM PluginTypeCorrect == PluginSpec => []PluginTypeOK
<1>1. IInv => PluginTypeOK
    BY DEF IInv
<1> QED
    BY <1>1, PluginInvariant, PTL

(* The probes reset the static options, and the first unit gets the options *)
(* given by the last arguments all the same; however many files follow, no  *)
(* later unit gets any (ParseArgs(), CreateASTConsumer()).                  *)
THEOREM OptionsOfUnitsHolds == PluginSpec => []OptionsOfUnits
<1>1. IInv => OptionsOfUnits
    BY DEF IInv
<1> QED
    BY <1>1, PluginInvariant, PTL

(* How many reports a cc1 process writes and what each of them knows (the   *)
(* destructor, dumpFatalError()), for any number of files.                  *)
THEOREM ReportsOfTheProcessHolds == PluginSpec => []ReportsOfTheProcess
<1>1. IInv => ReportsOfTheProcess
    BY DEF IInv
<1> QED
    BY <1>1, PluginInvariant, PTL

=============================================================================
