---------------------------- MODULE DumpTool_proofs ----------------------------
(***************************************************************************)
(* Proofs about the standalone tool, for all command lines: any number of  *)
(* files with any number of fallbacks each.                                *)
(*                                                                         *)
(* The invariant describes the loop of ClangTool: what the files before    *)
(* the current one, and the fallbacks met so far in the unit of the        *)
(* current one, have left in the shared resources and in the result.  The  *)
(* properties about the exit follow when the loop ends or a unit throws.   *)
(***************************************************************************)
EXTENDS DumpTool, SequenceTheorems, TLAPS

Looping == phase \in {"run", "unit"}

(* Nothing was done before the options were read.                           *)
OptionsInv ==
    phase = "options" =>
        /\ current = 1
        /\ ~ enabled /\ fallbacks = {}
        /\ idFileMap = <<>> /\ consumers = <<>> /\ reports = <<>>
        /\ ~ result.ProcessingFailed /\ ~ result.FileSkipped

LoopInv ==
    Looping =>
        /\ args.valid
        /\ runId = args.id /\ systemHeaderThreshold = args.threshold
        /\ enabled <=> args.coverage
        /\ reports = <<>>
        /\ \A i \in 1 .. current - 1 : ~ Thrown(i)
        /\ phase = "unit" => Opened(current)

(* The files whose consumer was created by now.                             *)
Dumped == {i \in DOMAIN args.files :
               Opened(i) /\ (i < current \/ (phase = "unit" /\ i = current))}

MetNow == IF phase = "unit" THEN {CurrentFile.classes[k] : k \in 1 .. met} ELSE {}

FallbacksOf(files) == UNION {EncounteredIn(i) : i \in files}

FallbacksInv ==
    Looping => fallbacks = IF args.coverage
                           THEN FallbacksOf({i \in Dumped : i < current}) \cup MetNow
                           ELSE {}

ResultInv ==
    Looping =>
        /\ result.ProcessingFailed <=>
               \E i \in DOMAIN args.files :
                   /\ i < current
                   /\ \/ args.files[i].begins = "unreadable"
                      \/ Opened(i) /\ args.files[i].ends = "errors"
        /\ result.FileSkipped <=>
               \E i \in DOMAIN args.files : i < current /\ args.files[i].begins = "skipped"

(* The records and consumers are those of the files given.                  *)
Announced(files) ==
    /\ Len(consumers) = Len(idFileMap)
    /\ \A k \in 1 .. Len(idFileMap) :
            /\ idFileMap[k][1] = args.id /\ idFileMap[k][2] \in files
            /\ consumers[k] = <<args.id, args.threshold>>
    /\ \A i \in files : \E k \in 1 .. Len(idFileMap) : idFileMap[k][2] = i
    /\ \A k, l \in 1 .. Len(idFileMap) : k < l => idFileMap[k][2] < idFileMap[l][2]

AnnouncedInv == Looping => Announced(Dumped)

ExitInv == ReportedOnceOnExit /\ ExitCodeTruthful /\ FilesAnnounced

IInv ==
    /\ ToolTypeOK
    /\ OptionsInv /\ LoopInv /\ FallbacksInv /\ ResultInv /\ AnnouncedInv
    /\ ExitInv

-----------------------------------------------------------------------------

LEMMA FilesTypes ==
    ASSUME args \in CommandLine
    PROVE  /\ Len(args.files) \in Nat
           /\ DOMAIN args.files = 1 .. Len(args.files)
           /\ \A i \in 1 .. Len(args.files) :
                /\ args.files[i] \in File
                /\ Len(args.files[i].classes) \in Nat
                /\ DOMAIN args.files[i].classes = 1 .. Len(args.files[i].classes)
                /\ \A k \in 1 .. Len(args.files[i].classes) :
                        args.files[i].classes[k] \in Fallbacks
<1>1. args.files \in Seq(File)
    BY DEF CommandLine
<1>2. /\ Len(args.files) \in Nat
      /\ DOMAIN args.files = 1 .. Len(args.files)
      /\ \A i \in 1 .. Len(args.files) : args.files[i] \in File
    BY <1>1, LenProperties, ElementOfSeq
<1>3. ASSUME NEW i \in 1 .. Len(args.files)
      PROVE  /\ args.files[i] \in File
             /\ Len(args.files[i].classes) \in Nat
             /\ DOMAIN args.files[i].classes = 1 .. Len(args.files[i].classes)
             /\ \A k \in 1 .. Len(args.files[i].classes) :
                    args.files[i].classes[k] \in Fallbacks
    <2>1. args.files[i] \in File /\ args.files[i].classes \in Seq(Fallbacks)
        BY <1>2 DEF File
    <2> QED
        BY <2>1, LenProperties, ElementOfSeq
<1> QED
    BY <1>2, <1>3

LEMMA InitIInv == ToolInit => IInv
<1> SUFFICES ASSUME ToolInit PROVE IInv
    OBVIOUS
<1>1. args \in CommandLine /\ phase = "options"
    BY CommandLinesAssumption DEF ToolInit
<1>2. ToolTypeOK
    <2>1. ResourcesTypeOK(DOMAIN args.files)
        <3>1. <<>> \in Seq(Int \X DOMAIN args.files) /\ <<>> \in Seq(Int \X Int)
              /\ <<>> \in Seq(SUBSET Fallbacks)
            BY EmptySeq
        <3>2. /\ idFileMap = <<>> /\ consumers = <<>> /\ reports = <<>>
              /\ runId = 0 /\ systemHeaderThreshold = 0
              /\ enabled = FALSE /\ fallbacks = {}
            BY DEF ToolInit, ResourcesInit
        <3>3. /\ idFileMap \in Seq(Int \X DOMAIN args.files)
              /\ consumers \in Seq(Int \X Int)
              /\ reports \in Seq(SUBSET Fallbacks)
            BY <3>1, <3>2, Zenon
        <3>4. runId \in Int /\ systemHeaderThreshold \in Int
            BY <3>2
        <3>5. enabled \in BOOLEAN /\ fallbacks \subseteq Fallbacks
            BY <3>2, Zenon
        <3> QED
            BY <3>3, <3>4, <3>5 DEF ResourcesTypeOK
    <2>2. current \in 1 .. Len(args.files) + 1
        BY <1>1, FilesTypes DEF ToolInit
    <2> QED
        BY <1>1, <2>1, <2>2 DEF ToolInit, ToolTypeOK
<1>3. OptionsInv
    BY DEF ToolInit, ResourcesInit, OptionsInv
<1> QED
    BY <1>1, <1>2, <1>3 DEF IInv, LoopInv, FallbacksInv, ResultInv, AnnouncedInv, Looping,
                            ExitInv, ReportedOnceOnExit, ExitCodeTruthful, FilesAnnounced

(* The types of the parts, unfolded.                                        *)
LEMMA Unfolded ==
    ASSUME ToolTypeOK
    PROVE  /\ args \in CommandLine /\ args.id \in Int /\ args.threshold \in Int
           /\ current \in Nat /\ current >= 1 /\ current <= Len(args.files) + 1
           /\ Len(args.files) \in Nat /\ DOMAIN args.files = 1 .. Len(args.files)
           /\ AtFile \/ phase = "unit" => current \in DOMAIN args.files
           /\ idFileMap \in Seq(Int \X DOMAIN args.files) /\ Len(idFileMap) \in Nat
           /\ DOMAIN idFileMap = 1 .. Len(idFileMap)
           /\ consumers \in Seq(Int \X Int) /\ Len(consumers) \in Nat
           /\ DOMAIN consumers = 1 .. Len(consumers)
<1>1. /\ args \in CommandLine /\ Len(args.files) \in Nat
      /\ DOMAIN args.files = 1 .. Len(args.files)
    BY FilesTypes DEF ToolTypeOK
<1>2. /\ current \in 1 .. Len(args.files) + 1
      /\ AtFile \/ phase = "unit" => current <= Len(args.files)
    BY DEF ToolTypeOK, AtFile
<1>3. idFileMap \in Seq(Int \X DOMAIN args.files) /\ consumers \in Seq(Int \X Int)
    BY DEF ToolTypeOK, ResourcesTypeOK
<1>4. /\ Len(idFileMap) \in Nat /\ DOMAIN idFileMap = 1 .. Len(idFileMap)
      /\ Len(consumers) \in Nat /\ DOMAIN consumers = 1 .. Len(consumers)
    BY <1>3, LenProperties
<1> QED
    BY <1>1, <1>2, <1>3, <1>4 DEF CommandLine

(* A step that stays in the loop has nothing to say about the exit.         *)
LEMMA NoExit ==
    ASSUME phase' # "exited", phase' # "options"
    PROVE  OptionsInv' /\ ExitInv'
    BY DEF OptionsInv, ExitInv, ReportedOnceOnExit, ExitCodeTruthful, FilesAnnounced

(* Before any file.                                                         *)
LEMMA StartStep ==
    ASSUME IInv, initResources
    PROVE  IInv'
<1>1. /\ args \in CommandLine /\ args.valid /\ args' = args /\ current = 1 /\ current' = 1
      /\ phase = "options" /\ phase' = "run"
      /\ runId' = args.id /\ systemHeaderThreshold' = args.threshold
      /\ enabled' = (enabled \/ args.coverage)
      /\ UNCHANGED <<met, fallbacks, idFileMap, consumers, reports, result, exitCode>>
    BY DEF initResources, init, unitVars, IInv, OptionsInv, ToolTypeOK
<1>2. /\ ~ enabled /\ fallbacks = {} /\ idFileMap = <<>> /\ consumers = <<>> /\ reports = <<>>
      /\ ~ result.ProcessingFailed /\ ~ result.FileSkipped
    BY <1>1 DEF IInv, OptionsInv
<1>3. /\ \A i \in DOMAIN args.files : ~ (i < current')
      /\ 1 .. current' - 1 = {}
    BY <1>1, FilesTypes
<1>4. Dumped' = {} /\ MetNow' = {}
    BY <1>1, <1>3 DEF Dumped, MetNow, Opened
<1>5. LoopInv'
    BY <1>1, <1>2, <1>3 DEF LoopInv, Looping
<1>6. FallbacksInv'
    BY <1>1, <1>2, <1>4 DEF FallbacksInv, FallbacksOf
<1>7. ResultInv'
    BY <1>1, <1>2, <1>3 DEF ResultInv
<1>8. AnnouncedInv'
    <2>1. Len(idFileMap') = 0 /\ Len(consumers') = 0
        BY <1>1, <1>2, EmptySeq
    <2> QED
        BY <1>4, <2>1 DEF AnnouncedInv, Announced
<1>9. ToolTypeOK'
    BY <1>1, Unfolded DEF IInv, ToolTypeOK, ResourcesTypeOK
<1> QED
    BY <1>1, <1>5, <1>6, <1>7, <1>8, <1>9, NoExit DEF IInv

(* A file that is not opened.                                               *)
LEMMA SkipStep ==
    ASSUME IInv, SkipFile
    PROVE  IInv'
<1>1. /\ phase = "run" /\ phase' = "run" /\ args' = args /\ current' = current + 1
      /\ ~ Opened(current) /\ current <= Len(args.files)
      /\ UNCHANGED <<met, runId, systemHeaderThreshold, enabled, fallbacks, idFileMap,
                     consumers, reports, exitCode>>
    BY DEF SkipFile, AtFile, Opened, CurrentFile, resourceVars, optionVars, unitVars
<1>2. /\ current \in Nat /\ Len(args.files) \in Nat /\ DOMAIN args.files = 1 .. Len(args.files)
      /\ current \in DOMAIN args.files
      /\ args.files[current] \in File
    BY <1>1, Unfolded, FilesTypes DEF IInv, AtFile
<1>3. \A i \in DOMAIN args.files : i < current' <=> i < current \/ i = current
    BY <1>1, <1>2
<1>4. Dumped' = Dumped /\ {i \in Dumped : i < current}' = {i \in Dumped : i < current}
    BY <1>1, <1>3 DEF Dumped, Opened
<1>5. LoopInv'
    <2>1. \A i \in 1 .. current' - 1 : i \in 1 .. current - 1 \/ i = current
        BY <1>1, <1>2
    <2> QED
        BY <1>1, <2>1 DEF IInv, LoopInv, Looping, Thrown, Opened
<1>6. FallbacksInv'
    BY <1>1, <1>4 DEF IInv, FallbacksInv, FallbacksOf, EncounteredIn, MetNow, Looping
<1>7. ResultInv'
    <2>1. CASE args.files[current].begins = "skipped"
        <3>1. result' = [result EXCEPT !.FileSkipped = TRUE]
            BY <2>1 DEF SkipFile, CurrentFile
        <3>2. result'.FileSkipped /\ result'.ProcessingFailed = result.ProcessingFailed
            BY <3>1 DEF IInv, ToolTypeOK
        <3> QED
            BY <1>1, <1>2, <1>3, <2>1, <3>2 DEF IInv, ResultInv, Looping, Opened
    <2>2. CASE args.files[current].begins # "skipped"
        <3>1. result' = [result EXCEPT !.ProcessingFailed = TRUE]
            BY <2>2 DEF SkipFile, CurrentFile
        <3>2. result'.ProcessingFailed /\ result'.FileSkipped = result.FileSkipped
            BY <3>1 DEF IInv, ToolTypeOK
        <3>3. args.files[current].begins = "unreadable"
            BY <1>1, <1>2, <2>2 DEF Opened, File
        <3> QED
            BY <1>1, <1>2, <1>3, <2>2, <3>2, <3>3 DEF IInv, ResultInv, Looping, Opened
    <2> QED
        BY <2>1, <2>2
<1>8. AnnouncedInv'
    BY <1>1, <1>4 DEF IInv, AnnouncedInv, Announced, Looping
<1>9. ToolTypeOK'
    <2>1. result' \in [ProcessingFailed : BOOLEAN, FileSkipped : BOOLEAN]
        BY DEF SkipFile, IInv, ToolTypeOK
    <2> QED
        BY <1>1, <1>2, <2>1 DEF IInv, ToolTypeOK, ResourcesTypeOK
<1> QED
    BY <1>1, <1>5, <1>6, <1>7, <1>8, <1>9, NoExit DEF IInv

(* A consumer is created: the file is announced after those before it.      *)
LEMMA CreateStep ==
    ASSUME IInv, CreateASTConsumer
    PROVE  IInv'
<1>1. /\ phase = "run" /\ phase' = "unit" /\ args' = args /\ current' = current /\ met' = 0
      /\ Opened(current) /\ current <= Len(args.files)
      /\ idFileMap' = Append(idFileMap, <<runId, current>>)
      /\ consumers' = Append(consumers, <<runId, systemHeaderThreshold>>)
      /\ UNCHANGED <<runId, systemHeaderThreshold, enabled, fallbacks, reports, result,
                     exitCode>>
    BY DEF CreateASTConsumer, CreateConsumer, AtFile, Opened, CurrentFile, optionVars
<1>2. /\ current \in DOMAIN args.files /\ current \in Nat
      /\ runId = args.id /\ systemHeaderThreshold = args.threshold
      /\ args.id \in Int /\ args.threshold \in Int
      /\ idFileMap \in Seq(Int \X DOMAIN args.files) /\ Len(idFileMap) \in Nat
      /\ consumers \in Seq(Int \X Int)
    BY <1>1, Unfolded DEF IInv, AtFile, LoopInv, Looping
<1>3. Dumped' = Dumped \cup {current} /\ \A i \in Dumped : i < current
    BY <1>1, <1>2 DEF Dumped, Opened
<1>4. {i \in Dumped' : i < current'} = {i \in Dumped : i < current} /\ MetNow' = MetNow
    <2>1. {i \in Dumped' : i < current'} = {i \in Dumped : i < current}
        BY <1>1, <1>2, <1>3
    <2>2. 1 .. met' = {} /\ MetNow = {}
        BY <1>1 DEF MetNow
    <2> QED
        BY <1>1, <2>1, <2>2 DEF MetNow
<1>5. LoopInv'
    BY <1>1 DEF IInv, LoopInv, Looping, Thrown, Opened
<1>6. FallbacksInv'
    BY <1>1, <1>4 DEF IInv, FallbacksInv, FallbacksOf, EncounteredIn, Looping
<1>7. ResultInv'
    BY <1>1 DEF IInv, ResultInv, Looping, Opened
<1>8. /\ idFileMap' \in Seq(Int \X DOMAIN args.files) /\ Len(idFileMap') = Len(idFileMap) + 1
      /\ \A k \in 1 .. Len(idFileMap) : idFileMap'[k] = idFileMap[k]
      /\ idFileMap'[Len(idFileMap) + 1] = <<args.id, current>>
    BY <1>1, <1>2, AppendProperties
<1>9. /\ consumers' \in Seq(Int \X Int) /\ Len(consumers') = Len(consumers) + 1
      /\ \A k \in 1 .. Len(consumers) : consumers'[k] = consumers[k]
      /\ consumers'[Len(consumers) + 1] = <<args.id, args.threshold>>
    BY <1>1, <1>2, AppendProperties
<1>10. AnnouncedInv'
    <2>1. Announced(Dumped)
        BY <1>1 DEF IInv, AnnouncedInv, Looping
    <2>2. Len(consumers) = Len(idFileMap)
        BY <2>1 DEF Announced
    <2>3. \A k \in 1 .. Len(idFileMap) + 1 : k \in 1 .. Len(idFileMap) \/ k = Len(idFileMap) + 1
        BY <1>2
    <2>4. ASSUME NEW k \in 1 .. Len(idFileMap) + 1
          PROVE  /\ idFileMap'[k][1] = args.id /\ idFileMap'[k][2] \in Dumped \cup {current}
                 /\ consumers'[k] = <<args.id, args.threshold>>
        <3>1. CASE k \in 1 .. Len(idFileMap)
            BY <1>8, <1>9, <2>1, <2>2, <3>1 DEF Announced
        <3>2. CASE k = Len(idFileMap) + 1
            <4>1. idFileMap'[k] = <<args.id, current>>
                BY <1>8, <3>2
            <4>2. consumers'[k] = <<args.id, args.threshold>>
                BY <1>9, <2>2, <3>2
            <4> QED
                BY <4>1, <4>2
        <3> QED
            BY <2>3, <3>1, <3>2
    <2>5. ASSUME NEW i \in Dumped \cup {current}
          PROVE  \E k \in 1 .. Len(idFileMap) + 1 : idFileMap'[k][2] = i
        <3>1. CASE i = current
            BY <1>2, <1>8, <3>1
        <3>2. CASE i \in Dumped
            <4>1. PICK k \in 1 .. Len(idFileMap) : idFileMap[k][2] = i
                BY <2>1, <3>2 DEF Announced
            <4> QED
                BY <1>2, <1>8, <4>1
        <3> QED
            BY <3>1, <3>2
    <2>6. ASSUME NEW k \in 1 .. Len(idFileMap) + 1, NEW l \in 1 .. Len(idFileMap) + 1, k < l
          PROVE  idFileMap'[k][2] < idFileMap'[l][2]
        <3>1. k \in 1 .. Len(idFileMap) /\ idFileMap'[k] = idFileMap[k]
            BY <1>2, <1>8, <2>6
        <3>2. idFileMap[k][2] \in Dumped
            BY <2>1, <3>1 DEF Announced
        <3>3. CASE l = Len(idFileMap) + 1
            BY <1>3, <1>8, <3>1, <3>2, <3>3
        <3>4. CASE l \in 1 .. Len(idFileMap)
            BY <1>8, <2>1, <2>6, <3>1, <3>4 DEF Announced
        <3> QED
            BY <2>3, <3>3, <3>4
    <2>7. Announced(Dumped \cup {current})'
        BY <1>1, <1>3, <1>8, <1>9, <2>2, <2>4, <2>5, <2>6 DEF Announced
    <2> QED
        BY <1>1, <1>3, <2>7 DEF AnnouncedInv, Announced
<1>11. ToolTypeOK'
    <2>1. Len(args.files[current].classes) \in Nat
        BY <1>2, Unfolded, FilesTypes DEF IInv
    <2> QED
        BY <1>1, <1>8, <1>9, <2>1 DEF IInv, ToolTypeOK, ResourcesTypeOK, CurrentFile
<1> QED
    BY <1>1, <1>5, <1>6, <1>7, <1>10, <1>11, NoExit DEF IInv

(* A fallback is met.                                                       *)
LEMMA RecordStep ==
    ASSUME IInv, recordHandlerFallback
    PROVE  IInv'
<1>1. /\ phase = "unit" /\ phase' = phase /\ args' = args /\ current' = current
      /\ met < Len(CurrentFile.classes) /\ met' = met + 1
      /\ fallbacks' = IF enabled THEN fallbacks \cup {CurrentFile.classes[met + 1]} ELSE fallbacks
      /\ UNCHANGED <<runId, systemHeaderThreshold, enabled, idFileMap, consumers, reports,
                     result, exitCode>>
    BY DEF recordHandlerFallback, recordFallback, InUnit, optionVars, unitVars
<1>2. /\ met \in Nat /\ current \in DOMAIN args.files
      /\ Len(CurrentFile.classes) \in Nat
      /\ CurrentFile.classes[met + 1] \in Fallbacks
    <2>1. /\ met \in Nat /\ current \in 1 .. Len(args.files) /\ DOMAIN args.files = 1 .. Len(args.files)
          /\ args \in CommandLine
        BY <1>1, Unfolded DEF IInv, ToolTypeOK
    <2>2. /\ Len(CurrentFile.classes) \in Nat
          /\ \A k \in 1 .. Len(CurrentFile.classes) : CurrentFile.classes[k] \in Fallbacks
        BY <2>1, FilesTypes DEF CurrentFile
    <2> QED
        BY <1>1, <2>1, <2>2
<1>3. Dumped' = Dumped /\ MetNow' = MetNow \cup {CurrentFile.classes[met + 1]}
    <2>1. \A k : k \in 1 .. met + 1 <=> k \in 1 .. met \/ k = met + 1
        BY <1>2
    <2> QED
        BY <1>1, <2>1 DEF Dumped, Opened, MetNow, CurrentFile
<1>4. LoopInv'
    BY <1>1 DEF IInv, LoopInv, Looping, Thrown, Opened
<1>5. FallbacksInv'
    <2>1. FallbacksOf({i \in Dumped : i < current})' = FallbacksOf({i \in Dumped : i < current})
        BY <1>1, <1>3 DEF FallbacksOf, EncounteredIn
    <2>2. enabled <=> args.coverage
        BY <1>1 DEF IInv, LoopInv, Looping
    <2> QED
        BY <1>1, <1>3, <2>1, <2>2 DEF IInv, FallbacksInv, Looping
<1>6. ResultInv'
    BY <1>1 DEF IInv, ResultInv, Looping, Opened
<1>7. AnnouncedInv'
    BY <1>1, <1>3 DEF IInv, AnnouncedInv, Announced, Looping
<1>8. ToolTypeOK'
    BY <1>1, <1>2 DEF IInv, ToolTypeOK, ResourcesTypeOK, CurrentFile
<1> QED
    BY <1>1, <1>4, <1>5, <1>6, <1>7, <1>8, NoExit DEF IInv

(* The action ends, and ClangTool goes on.                                  *)
LEMMA EndStep ==
    ASSUME IInv, EndUnit
    PROVE  IInv'
<1>1. /\ phase = "unit" /\ phase' = "run" /\ args' = args /\ current' = current + 1
      /\ met = Len(CurrentFile.classes) /\ CurrentFile.ends # "thrown"
      /\ UNCHANGED <<met, runId, systemHeaderThreshold, enabled, fallbacks, idFileMap,
                     consumers, reports, exitCode>>
    BY DEF EndUnit, UnitMet, InUnit, resourceVars, optionVars, unitVars
<1>2. /\ current \in Nat /\ Len(args.files) \in Nat /\ DOMAIN args.files = 1 .. Len(args.files)
      /\ current \in DOMAIN args.files /\ args \in CommandLine
    BY <1>1, Unfolded DEF IInv
<1>3. DOMAIN CurrentFile.classes = 1 .. Len(CurrentFile.classes) /\ CurrentFile \in File
    BY <1>2, FilesTypes DEF CurrentFile
<1>4. Opened(current) /\ \A i \in DOMAIN args.files : i < current' <=> i < current \/ i = current
    BY <1>1, <1>2 DEF IInv, LoopInv, Looping
<1>5. /\ Dumped' = Dumped
      /\ {i \in Dumped : i < current}' = {i \in Dumped : i < current} \cup {current}
    <2>1. Dumped' = Dumped
        <3>1. \A i \in DOMAIN args.files :
                  /\ (Opened(i))' <=> Opened(i)
                  /\ (i < current \/ (phase = "unit" /\ i = current))'
                         <=> (i < current \/ (phase = "unit" /\ i = current))
            BY <1>1, <1>4 DEF Opened
        <3> QED
            BY <1>1, <3>1 DEF Dumped
    <2>2. current \in Dumped /\ Dumped \subseteq DOMAIN args.files
        BY <1>1, <1>2, <1>4 DEF Dumped
    <2> QED
        BY <1>4, <2>1, <2>2
<1>6. MetNow = EncounteredIn(current) /\ MetNow' = {}
    BY <1>1, <1>3 DEF MetNow, EncounteredIn, CurrentFile
<1>7. LoopInv'
    <2>1. \A i \in 1 .. current' - 1 : i \in 1 .. current - 1 \/ i = current
        BY <1>1, <1>2
    <2> QED
        BY <1>1, <2>1 DEF IInv, LoopInv, Looping, Thrown, Opened, CurrentFile
<1>8. FallbacksInv'
    <2>1. FallbacksOf({i \in Dumped : i < current})' =
              FallbacksOf({i \in Dumped : i < current}) \cup EncounteredIn(current)
        <3>1. FallbacksOf({i \in Dumped : i < current} \cup {current}) =
                  FallbacksOf({i \in Dumped : i < current}) \cup EncounteredIn(current)
            BY DEF FallbacksOf
        <3> QED
            BY <1>1, <1>5, <3>1 DEF FallbacksOf, EncounteredIn
    <2> QED
        BY <1>1, <1>6, <2>1 DEF IInv, FallbacksInv, Looping
<1>9. ResultInv'
    <2>1. CASE CurrentFile.ends = "errors"
        <3>1. result'.ProcessingFailed /\ result'.FileSkipped = result.FileSkipped
            BY <2>1 DEF EndUnit, IInv, ToolTypeOK
        <3> QED
            BY <1>1, <1>2, <1>4, <2>1, <3>1 DEF IInv, ResultInv, Looping, Opened, CurrentFile
    <2>2. CASE CurrentFile.ends # "errors"
        <3>1. result' = result
            BY <2>2 DEF EndUnit
        <3> QED
            BY <1>1, <1>2, <1>4, <2>2, <3>1 DEF IInv, ResultInv, Looping, Opened, CurrentFile
    <2> QED
        BY <2>1, <2>2
<1>10. AnnouncedInv'
    BY <1>1, <1>5 DEF IInv, AnnouncedInv, Announced, Looping
<1>11. ToolTypeOK'
    <2>1. result' \in [ProcessingFailed : BOOLEAN, FileSkipped : BOOLEAN]
        BY DEF EndUnit, IInv, ToolTypeOK
    <2> QED
        BY <1>1, <1>2, <2>1 DEF IInv, ToolTypeOK, ResourcesTypeOK
<1> QED
    BY <1>1, <1>7, <1>8, <1>9, <1>10, <1>11, NoExit DEF IInv

-----------------------------------------------------------------------------

(* What the files dumped by the end amount to, if they are those reached.   *)
LEMMA AnnouncedAtExit ==
    ASSUME ToolTypeOK, NEW files, Announced(files), files = {i \in Reached : Opened(i)}
    PROVE  /\ idFileMap = [k \in DOMAIN idFileMap |-> <<args.id, idFileMap[k][2]>>]
           /\ consumers = [k \in DOMAIN idFileMap |-> <<args.id, args.threshold>>]
           /\ {idFileMap[k][2] : k \in DOMAIN idFileMap} = {i \in Reached : Opened(i)}
           /\ \A k, l \in DOMAIN idFileMap : k < l => idFileMap[k][2] < idFileMap[l][2]
<1>1. /\ DOMAIN idFileMap = 1 .. Len(idFileMap) /\ DOMAIN consumers = 1 .. Len(consumers)
      /\ idFileMap \in Seq(Int \X DOMAIN args.files) /\ consumers \in Seq(Int \X Int)
    BY Unfolded
<1>2. Len(consumers) = Len(idFileMap)
    BY DEF Announced
<1>3. \A k \in DOMAIN idFileMap : idFileMap[k] = <<args.id, idFileMap[k][2]>>
    BY <1>1, ElementOfSeq DEF Announced
<1>4. idFileMap = [k \in DOMAIN idFileMap |-> idFileMap[k]]
    BY <1>1
<1>5. consumers = [k \in DOMAIN consumers |-> consumers[k]]
    BY <1>1
<1>6. \A k \in DOMAIN idFileMap : consumers[k] = <<args.id, args.threshold>>
    BY <1>1 DEF Announced
<1>7. idFileMap = [k \in DOMAIN idFileMap |-> <<args.id, idFileMap[k][2]>>]
    BY <1>3, <1>4, Zenon
<1>8. consumers = [k \in DOMAIN idFileMap |-> <<args.id, args.threshold>>]
    BY <1>1, <1>2, <1>5, <1>6, Zenon
<1>9. {idFileMap[k][2] : k \in DOMAIN idFileMap} = files
    <2>1. \A k \in DOMAIN idFileMap : idFileMap[k][2] \in files
        BY <1>1 DEF Announced
    <2>2. \A i \in files : \E k \in DOMAIN idFileMap : idFileMap[k][2] = i
        BY <1>1 DEF Announced
    <2> QED
        BY <2>1, <2>2, Zenon
<1> QED
    BY <1>1, <1>7, <1>8, <1>9 DEF Announced

(* The process exits having changed nothing but the report and the status.  *)
LEMMA ExitStep ==
    ASSUME IInv, NEW files, Announced(files), files = {i \in Reached : Opened(i)},
           phase' = "exited", exitCode' \in 0 .. 2,
           reports' = IF args.valid /\ args.coverage THEN <<FallbacksOf(files)>> ELSE <<>>,
           exitCode' = 0 <=> /\ args.valid
                             /\ \A i \in DOMAIN args.files :
                                    Opened(i) /\ args.files[i].ends = "complete",
           FallbacksOf(files) \subseteq Fallbacks,
           UNCHANGED <<args, current, met, optionVars, enabled, fallbacks, unitVars, result>>
    PROVE  IInv'
<1>1. UNCHANGED <<args, current, met, runId, systemHeaderThreshold, enabled, fallbacks,
                  idFileMap, consumers, result>>
    BY DEF optionVars, unitVars
<1>2. Reached' = Reached /\ \A i : (Opened(i))' <=> Opened(i)
    BY <1>1 DEF Reached, Opened, Thrown
<1>3. ReportedOnceOnExit'
    <2>1. (UNION {EncounteredIn(i) : i \in {j \in Reached : Opened(j)}})' = FallbacksOf(files)
        BY <1>1, <1>2 DEF EncounteredIn, FallbacksOf
    <2> QED
        BY <1>1, <2>1 DEF ReportedOnceOnExit
<1>4. ExitCodeTruthful'
    BY <1>1, <1>2 DEF ExitCodeTruthful
<1>5. FilesAnnounced'
    <2>1. ToolTypeOK
        BY DEF IInv
    <2>2. /\ idFileMap = [k \in DOMAIN idFileMap |-> <<args.id, idFileMap[k][2]>>]
          /\ consumers = [k \in DOMAIN idFileMap |-> <<args.id, args.threshold>>]
          /\ {idFileMap[k][2] : k \in DOMAIN idFileMap} = {i \in Reached : Opened(i)}
          /\ \A k, l \in DOMAIN idFileMap : k < l => idFileMap[k][2] < idFileMap[l][2]
        BY <2>1, AnnouncedAtExit
    <2>3. {i \in Reached : Opened(i)}' = {i \in Reached : Opened(i)}
        BY <1>2
    <2> QED
        BY <1>1, <2>2, <2>3 DEF FilesAnnounced
<1>6. ToolTypeOK'
    <2>1. reports' \in Seq(SUBSET Fallbacks)
        <3>1. <<>> \in Seq(SUBSET Fallbacks) /\ <<FallbacksOf(files)>> \in Seq(SUBSET Fallbacks)
            OBVIOUS
        <3> QED
            BY <3>1
    <2> QED
        BY <1>1, <2>1 DEF IInv, ToolTypeOK, ResourcesTypeOK
<1> QED
    BY <1>3, <1>4, <1>5, <1>6 DEF IInv, OptionsInv, LoopInv, FallbacksInv, ResultInv,
                                  AnnouncedInv, Looping, ExitInv

(* The options are refused.                                                 *)
LEMMA RefusedStep ==
    ASSUME IInv, optionsError
    PROVE  IInv'
<1>1. /\ phase = "options" /\ ~ args.valid /\ phase' = "exited" /\ exitCode' = 1
      /\ UNCHANGED <<args, current, met, optionVars, enabled, fallbacks, unitVars, reports,
                     result>>
    BY DEF optionsError, resourceVars
<1>2. reports = <<>> /\ idFileMap = <<>> /\ consumers = <<>>
    BY <1>1 DEF IInv, OptionsInv
<1>3. Announced({})
    <2>1. Len(idFileMap) = 0 /\ Len(consumers) = 0
        BY <1>2
    <2> QED
        BY <2>1 DEF Announced
<1>4. {} = {i \in Reached : Opened(i)}
    BY <1>1 DEF Reached
<1>5. FallbacksOf({}) \subseteq Fallbacks
    BY DEF FallbacksOf
<1>6. reports' = IF args.valid /\ args.coverage THEN <<FallbacksOf({})>> ELSE <<>>
    BY <1>1, <1>2
<1>7. exitCode' \in 0 .. 2 /\ ~ (exitCode' = 0)
    BY <1>1
<1> QED
    BY <1>1, <1>3, <1>4, <1>5, <1>6, <1>7, ExitStep

(* The report at an exit from the loop.                                     *)
LEMMA ReportStep ==
    ASSUME IInv, Looping, reportHandlerCoverage
    PROVE  reports' = IF args.valid /\ args.coverage THEN <<fallbacks>> ELSE <<>>
<1>1. args.valid /\ (enabled <=> args.coverage) /\ reports = <<>>
    BY DEF IInv, LoopInv
<1>2. Append(<<>>, fallbacks) = <<fallbacks>>
    OBVIOUS
<1> QED
    BY <1>1, <1>2 DEF reportHandlerCoverage

(* A unit throws: the files reached are those up to the current one.        *)
LEMMA FatalStep ==
    ASSUME IInv, dumpFatalError
    PROVE  IInv'
<1>1. /\ phase = "unit" /\ phase' = "exited" /\ exitCode' = 1 /\ reportHandlerCoverage
      /\ met = Len(CurrentFile.classes) /\ CurrentFile.ends = "thrown"
      /\ UNCHANGED <<args, current, met, optionVars, enabled, fallbacks, unitVars, result>>
    BY DEF dumpFatalError, UnitMet, InUnit
<1>2. /\ current \in Nat /\ Len(args.files) \in Nat /\ DOMAIN args.files = 1 .. Len(args.files)
      /\ current \in DOMAIN args.files /\ args \in CommandLine
    BY <1>1, Unfolded DEF IInv
<1>3. /\ args.valid /\ Thrown(current) /\ \A i \in 1 .. current - 1 : ~ Thrown(i)
    BY <1>1 DEF IInv, LoopInv, Looping, Thrown, CurrentFile
<1>4. Dumped = {i \in Reached : Opened(i)}
    <2>1. ASSUME NEW i \in DOMAIN args.files
          PROVE  i \in Reached <=> i < current \/ i = current
        BY <1>2, <1>3 DEF Reached
    <2>2. \A i : i \in Reached => i \in DOMAIN args.files
        BY DEF Reached
    <2>3. \A i : i \in Dumped <=>
              i \in DOMAIN args.files /\ Opened(i) /\ (i < current \/ i = current)
        BY <1>1 DEF Dumped
    <2> QED
        BY <2>1, <2>2, <2>3, Zenon
<1>5. fallbacks = IF args.coverage THEN FallbacksOf(Dumped) ELSE {}
    <2>1. DOMAIN CurrentFile.classes = 1 .. Len(CurrentFile.classes)
        BY <1>2, FilesTypes DEF CurrentFile
    <2>2. MetNow = EncounteredIn(current)
        BY <1>1, <2>1 DEF MetNow, EncounteredIn, CurrentFile
    <2>3. Dumped = {i \in Dumped : i < current} \cup {current}
        BY <1>1, <1>2, <1>3 DEF Dumped, Thrown
    <2>4. FallbacksOf({i \in Dumped : i < current} \cup {current}) =
              FallbacksOf({i \in Dumped : i < current}) \cup EncounteredIn(current)
        BY DEF FallbacksOf
    <2>5. fallbacks = IF args.coverage
                      THEN FallbacksOf({i \in Dumped : i < current}) \cup MetNow ELSE {}
        BY <1>1 DEF IInv, FallbacksInv, Looping
    <2> QED
        BY <2>2, <2>3, <2>4, <2>5
<1>6. Announced(Dumped) /\ Looping
    BY <1>1 DEF IInv, AnnouncedInv, Looping
<1>7. reports' = IF args.valid /\ args.coverage THEN <<FallbacksOf(Dumped)>> ELSE <<>>
    BY <1>1, <1>5, <1>6, ReportStep
<1>8. FallbacksOf(Dumped) \subseteq Fallbacks
    BY <1>2, FilesTypes DEF FallbacksOf, EncounteredIn, Dumped
<1>9. exitCode' \in 0 .. 2 /\ ~ (exitCode' = 0)
    BY <1>1
<1>10. ~ \A i \in DOMAIN args.files : Opened(i) /\ args.files[i].ends = "complete"
    BY <1>2, <1>3 DEF Thrown
<1> QED
    BY <1>1, <1>4, <1>6, <1>7, <1>8, <1>9, <1>10, ExitStep

(* The loop ends: every file was reached.                                   *)
LEMMA FinishStep ==
    ASSUME IInv, finish
    PROVE  IInv'
<1>1. /\ phase = "run" /\ phase' = "exited" /\ exitCode' = ToolReturns
      /\ reportHandlerCoverage /\ current > Len(args.files)
      /\ UNCHANGED <<args, current, met, optionVars, enabled, fallbacks, unitVars, result>>
    BY DEF finish
<1>2. /\ current \in Nat /\ Len(args.files) \in Nat /\ DOMAIN args.files = 1 .. Len(args.files)
      /\ current = Len(args.files) + 1 /\ args \in CommandLine
    BY <1>1, Unfolded DEF IInv
<1>3. /\ args.valid /\ \A i \in DOMAIN args.files : i < current /\ ~ Thrown(i)
    BY <1>1, <1>2 DEF IInv, LoopInv, Looping
<1>4. Reached = DOMAIN args.files
    BY <1>2, <1>3 DEF Reached
<1>5. Dumped = {i \in Reached : Opened(i)} /\ {i \in Dumped : i < current} = Dumped
    <2>1. \A i : i \in Dumped <=> i \in DOMAIN args.files /\ Opened(i)
        BY <1>3 DEF Dumped
    <2> QED
        BY <1>3, <1>4, <2>1, Zenon
<1>6. fallbacks = IF args.coverage THEN FallbacksOf(Dumped) ELSE {}
    BY <1>1, <1>5 DEF IInv, FallbacksInv, Looping, MetNow
<1>7. Announced(Dumped) /\ Looping
    BY <1>1 DEF IInv, AnnouncedInv, Looping
<1>8. reports' = IF args.valid /\ args.coverage THEN <<FallbacksOf(Dumped)>> ELSE <<>>
    BY <1>1, <1>6, <1>7, ReportStep
<1>9. FallbacksOf(Dumped) \subseteq Fallbacks
    BY <1>2, FilesTypes DEF FallbacksOf, EncounteredIn, Dumped
<1>10. /\ exitCode' \in 0 .. 2
       /\ exitCode' = 0 <=> ~ result.ProcessingFailed /\ ~ result.FileSkipped
    BY <1>1 DEF ToolReturns, IInv, ToolTypeOK
<1>11. exitCode' = 0 <=> \A i \in DOMAIN args.files :
                             Opened(i) /\ args.files[i].ends = "complete"
    <2>1. \A i \in DOMAIN args.files : args.files[i] \in File
        BY <1>2, FilesTypes
    <2>2. /\ result.ProcessingFailed <=>
                 \E i \in DOMAIN args.files :
                     /\ i < current
                     /\ \/ args.files[i].begins = "unreadable"
                        \/ Opened(i) /\ args.files[i].ends = "errors"
          /\ result.FileSkipped <=>
                 \E i \in DOMAIN args.files : i < current /\ args.files[i].begins = "skipped"
        BY <1>1 DEF IInv, ResultInv, Looping
    <2>3. ASSUME NEW i \in DOMAIN args.files
          PROVE  /\ args.files[i].begins \in {"skipped", "unreadable", "opened"}
                 /\ args.files[i].ends \in {"complete", "errors", "thrown"}
                 /\ i < current /\ (Opened(i) => args.files[i].ends # "thrown")
        BY <1>3, <2>1 DEF File, Thrown
    <2> QED
        BY <1>10, <2>2, <2>3 DEF Opened
<1> QED
    BY <1>1, <1>3, <1>5, <1>7, <1>8, <1>9, <1>10, <1>11, ExitStep

-----------------------------------------------------------------------------

LEMMA NextIInv == IInv /\ [ToolNext]_toolVars => IInv'
<1> SUFFICES ASSUME IInv, [ToolNext]_toolVars PROVE IInv'
    OBVIOUS
<1>1. CASE ToolStep
    BY <1>1, RefusedStep, StartStep, SkipStep, CreateStep, RecordStep, FatalStep, EndStep,
       FinishStep DEF ToolStep
<1>2. CASE UNCHANGED toolVars
    <2>1. UNCHANGED <<args, phase, current, met, runId, systemHeaderThreshold, enabled,
                      fallbacks, idFileMap, consumers, reports, result, exitCode>>
        BY <1>2 DEF toolVars, resourceVars, optionVars, unitVars
    <2>2. ToolTypeOK' /\ OptionsInv'
        BY <2>1 DEF IInv, ToolTypeOK, ResourcesTypeOK, CurrentFile, OptionsInv
    <2>3. LoopInv' /\ ResultInv'
        BY <2>1 DEF IInv, LoopInv, ResultInv, Looping, Thrown, Opened
    <2>4. Dumped' = Dumped /\ MetNow' = MetNow
        BY <2>1 DEF Dumped, MetNow, Opened, CurrentFile
    <2>5. FallbacksInv'
        BY <2>1, <2>4 DEF IInv, FallbacksInv, FallbacksOf, EncounteredIn, Looping
    <2>6. AnnouncedInv'
        BY <2>1, <2>4 DEF IInv, AnnouncedInv, Announced, Looping
    <2>7. Reached' = Reached /\ {i \in Reached : Opened(i)}' = {i \in Reached : Opened(i)}
        BY <2>1 DEF Reached, Thrown, Opened
    <2>8. ReportedOnceOnExit'
        BY <2>1, <2>7 DEF IInv, ExitInv, ReportedOnceOnExit, EncounteredIn
    <2>9. ExitCodeTruthful'
        BY <2>1 DEF IInv, ExitInv, ExitCodeTruthful, Opened
    <2>10. FilesAnnounced'
        BY <2>1, <2>7 DEF IInv, ExitInv, FilesAnnounced
    <2> QED
        BY <2>2, <2>3, <2>5, <2>6, <2>8, <2>9, <2>10 DEF IInv, ExitInv
<1> QED
    BY <1>1, <1>2 DEF ToolNext, Exited

LEMMA ToolInvariant == ToolSpec => []IInv
    BY InitIInv, NextIInv, PTL DEF ToolSpec

(* The state of main(), ClangTool and the shared resources keeps its types. *)
THEOREM ToolTypeCorrect == ToolSpec => []ToolTypeOK
<1>1. IInv => ToolTypeOK
    BY DEF IInv
<1> QED
    BY <1>1, ToolInvariant, PTL

(* main() and dumpFatalError() between them write the coverage report that  *)
(* was asked for exactly once, with the fallbacks of every unit opened,     *)
(* whatever the number of files and fallbacks and the way the run ends.     *)
THEOREM ReportedOnceOnExitHolds == ToolSpec => []ReportedOnceOnExit
<1>1. IInv => ReportedOnceOnExit
    BY DEF IInv, ExitInv
<1> QED
    BY <1>1, ToolInvariant, PTL

(* Status 0 means that every file of the command line was opened and dumped *)
(* without an error, for any number of files.                               *)
THEOREM ExitCodeTruthfulHolds == ToolSpec => []ExitCodeTruthful
<1>1. IInv => ExitCodeTruthful
    BY DEF IInv, ExitInv
<1> QED
    BY <1>1, ToolInvariant, PTL

(* The files announced are the opened ones up to the first fatal error, in  *)
(* order, each with the options of the command line.                        *)
THEOREM FilesAnnouncedHolds == ToolSpec => []FilesAnnounced
<1>1. IInv => FilesAnnounced
    BY DEF IInv, ExitInv
<1> QED
    BY <1>1, ToolInvariant, PTL

=============================================================================
