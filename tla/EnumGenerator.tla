---------------------------- MODULE EnumGenerator ----------------------------
(***************************************************************************)
(* The generator of the enum tables (python -m clang_enums): a pool of     *)
(* workers preprocesses the LLVM headers and extracts the enumerators, the *)
(* main thread takes the results as they come and writes, for each header, *)
(* the C++ file with its tables and one Java file per enum.  The files     *)
(* outlive the run: a later one, with another LLVM, writes over them.      *)
(***************************************************************************)
EXTENDS Integers, FiniteSets, SequencesExt

CONSTANTS
    HEADERS,      \* the header files, in order
    EnumsOf,      \* header -> its enums, in order
    Exclude,      \* enum -> the enumerators it leaves out
    Mapper,       \* enum -> enumerator -> the name in the tables
    Versions,     \* of LLVM
    Enumerators,  \* version -> enum -> its enumerators, in order
    Jobs,         \* workers
    Absent, Torn, \* a file that is not there; one that is open for writing
    MaxKills      \* bound: how many runs are killed

Headers == ToSet(HEADERS)
Enums == UNION {ToSet(EnumsOf[h]) : h \in Headers}
EnumsIn(h) == ToSet(EnumsOf[h])

(* value: the index by which the dumper looks the enumerator up.            *)
IsAlias(enumerators, i) == \E j \in 1 .. i - 1 : enumerators[j].value = enumerators[i].value

(* The enumerators count up from zero; aliases come last, and only they are *)
(* left out (LastKind, UETT_Last).                                          *)
EnumsAssumption ==
    \A v \in Versions, e \in Enums :
        LET all == Enumerators[v][e] IN
        /\ all # <<>>
        /\ \A i \in DOMAIN all :
            \/ all[i].value = i - 1 /\ all[i].name \notin Exclude[e]
            \/ \A j \in i .. Len(all) : IsAlias(all, j)

ASSUME GeneratorAssumption ==
    /\ EnumsAssumption
    /\ HEADERS \in Seq(Headers) /\ IsInjective(HEADERS) /\ HEADERS # <<>>
    /\ \A h \in Headers : EnumsOf[h] \in Seq(EnumsIn(h))
    /\ \A g, h \in Headers : g # h => EnumsIn(g) \cap EnumsIn(h) = {}
    /\ Jobs \in Nat \ {0} /\ MaxKills \in Nat

(* Mutant: names are mapped before those to leave out are looked for.       *)
MappedThenExcluded(v, e) ==
    LET mapped == [i \in DOMAIN Enumerators[v][e] |-> Mapper[e][Enumerators[v][e][i].name]]
    IN  SelectSeq(mapped, LAMBDA n : n \notin Exclude[e])

(* The names an enum of a version declares, without those to leave out,     *)
(* mapped.                                                                  *)
Table(v, e) ==
    LET kept == SelectSeq(Enumerators[v][e], LAMBDA x : x.name \notin Exclude[e])
    IN  [i \in DOMAIN kept |-> Mapper[e][kept[i].name]]

Tables(v, extracted) == [e \in extracted |-> Table(v, e)]

(* A file that is absent or torn is no file with tables.                    *)
ASSUME FilesAssumption ==
    \A v \in Versions :
        /\ \A e \in Enums : Table(v, e) \notin {Absent, Torn}
        /\ \A extracted \in SUBSET Enums : Tables(v, extracted) \notin {Absent, Torn}

VARIABLES
    llvm,        \* the version installed
    at,          \* where main() is
    queue,       \* the headers no worker has taken yet
    working,     \* the headers workers are at
    done,        \* headers whose future is done and not taken yet
    result,      \* header -> [enums extracted, errors met]
    all_errors,  \* an error was met
    header,      \* the one main() writes or wrote last
    pending,     \* its enums whose Java file is still to be written
    cpp,         \* header -> the tables of its C++ file
    java,        \* enum -> the table of its Java file
    exit,        \* exit code
    start,       \* history: cpp when this run began
    cut,         \* history: headers whose files were left half written
    kills

poolVars == <<queue, working, done, result>>
mainVars == <<all_errors, header, pending, exit>>
fileVars == <<cpp, java>>
generatorVars == <<llvm, at, poolVars, mainVars, fileVars, start, cut, kills>>

NoResult == [enums |-> <<>>, errors |-> FALSE]

GeneratorInit ==
    /\ llvm \in Versions
    /\ at = "idle"
    /\ queue = <<>> /\ working = {} /\ done = {}
    /\ result = [h \in Headers |-> NoResult]
    /\ all_errors = FALSE /\ header \in Headers /\ pending = <<>> /\ exit = 0
    /\ cpp = [h \in Headers |-> Absent]
    /\ java = [e \in Enums |-> Absent]
    /\ start = cpp /\ cut = {} /\ kills = 0

generate_cpp_file(extracted) == Tables(llvm, ToSet(extracted))

(* Mutant: the Java file lists what the C++ file leaves out.                *)
GenerateJavaUnfiltered(e) ==
    [i \in DOMAIN Enumerators[llvm][e] |-> Mapper[e][Enumerators[llvm][e][i].name]]

generate_java_enum_values(e) == Table(llvm, e)

-----------------------------------------------------------------------------

(* A run, perhaps after another LLVM was installed: submits every header.   *)
StartRun ==
    /\ at \in {"idle", "exited"}
    /\ llvm' \in Versions
    /\ queue' = HEADERS /\ working' = {} /\ done' = {}
    /\ result' = [h \in Headers |-> NoResult]
    /\ all_errors' = FALSE /\ pending' = <<>> /\ exit' = 0
    /\ start' = cpp
    /\ at' = "collect"
    /\ UNCHANGED <<header, fileVars, cut, kills>>

Running == at \notin {"idle", "exited"}

(* A worker of the pool takes the header submitted first.                   *)
TakeHeader ==
    /\ Running /\ queue # <<>> /\ Cardinality(working) < Jobs
    /\ working' = working \cup {Head(queue)}
    /\ queue' = Tail(queue)
    /\ UNCHANGED <<llvm, at, done, result, mainVars, fileVars, start, cut, kills>>

(* Mutant: the worker is not free for another header.                       *)
FutureDoneWorkerBusy(h, extracted, errors) ==
    /\ done' = done \cup {h}
    /\ result' = [result EXCEPT ![h] = [enums |-> extracted, errors |-> errors]]
    /\ UNCHANGED <<llvm, at, queue, working, mainVars, fileVars, start, cut, kills>>

FutureDone(h, extracted, errors) ==
    /\ working' = working \ {h}
    /\ done' = done \cup {h}
    /\ result' = [result EXCEPT ![h] = [enums |-> extracted, errors |-> errors]]
    /\ UNCHANGED <<llvm, at, queue, mainVars, fileVars, start, cut, kills>>

(* clang++ -E fails, or an unexpected exception is kept in the future.      *)
ProcessHeaderFails(h) == h \in working /\ FutureDone(h, <<>>, TRUE)

(* Some of the enums of a header, in order.                                 *)
Extractions(h) ==
    {extracted \in SeqOf(EnumsIn(h), Len(EnumsOf[h])) :
        \E place \in [DOMAIN extracted -> DOMAIN EnumsOf[h]] :
            /\ \A i, j \in DOMAIN extracted : i < j => place[i] < place[j]
            /\ \A i \in DOMAIN extracted : extracted[i] = EnumsOf[h][place[i]]}

(* Each enum is extracted or is an error of its own.                        *)
process_header(h) ==
    /\ h \in working
    /\ \E extracted \in Extractions(h) :
            FutureDone(h, extracted, extracted # EnumsOf[h])

(* Mutant: a header without enums is written, too.                          *)
CollectAlways(h) ==
    /\ at = "collect" /\ h \in done
    /\ done' = done \ {h}
    /\ all_errors' = (all_errors \/ result[h].errors)
    /\ header' = h /\ pending' = result[h].enums /\ at' = "cpp"
    /\ UNCHANGED <<llvm, queue, working, result, exit, fileVars, start, cut, kills>>

(* Mutant: a future is taken again and again.                               *)
CollectAgain(h) ==
    /\ at = "collect" /\ h \in done
    /\ all_errors' = (all_errors \/ result[h].errors)
    /\ IF result[h].enums = <<>>
       THEN UNCHANGED <<at, header, pending>>
       ELSE header' = h /\ pending' = result[h].enums /\ at' = "cpp"
    /\ UNCHANGED <<llvm, queue, working, done, result, exit, fileVars, start, cut, kills>>

(* as_completed(): any future that is done.                                 *)
Collect(h) ==
    /\ at = "collect" /\ h \in done
    /\ done' = done \ {h}
    /\ all_errors' = (all_errors \/ result[h].errors)
    /\ IF result[h].enums = <<>>
       THEN UNCHANGED <<at, header, pending>>
       ELSE header' = h /\ pending' = result[h].enums /\ at' = "cpp"
    /\ UNCHANGED <<llvm, queue, working, result, exit, fileVars, start, cut, kills>>

(* write_cpp_file()                                                         *)
CppOpens ==
    /\ at = "cpp"
    /\ cpp' = [cpp EXCEPT ![header] = Torn]
    /\ at' = "cppOpen"
    /\ UNCHANGED <<llvm, poolVars, mainVars, java, start, cut, kills>>

CppCloses ==
    /\ at = "cppOpen"
    /\ cpp' = [cpp EXCEPT ![header] = generate_cpp_file(result[header].enums)]
    /\ at' = "java"
    /\ UNCHANGED <<llvm, poolVars, mainVars, java, start, cut, kills>>

(* write_java_files()                                                       *)
JavaOpens ==
    /\ at = "java" /\ pending # <<>>
    /\ java' = [java EXCEPT ![Head(pending)] = Torn]
    /\ at' = "javaOpen"
    /\ UNCHANGED <<llvm, poolVars, mainVars, cpp, start, cut, kills>>

JavaCloses ==
    /\ at = "javaOpen"
    /\ java' = [java EXCEPT ![Head(pending)] = generate_java_enum_values(Head(pending))]
    /\ pending' = Tail(pending)
    /\ at' = "java"
    /\ UNCHANGED <<llvm, poolVars, all_errors, header, exit, cpp, start, cut, kills>>

HeaderWritten ==
    /\ at = "java" /\ pending = <<>>
    /\ cut' = cut \ {header}
    /\ at' = "collect"
    /\ UNCHANGED <<llvm, poolVars, mainVars, fileVars, start, kills>>

Writing == at \in {"cpp", "cppOpen", "java", "javaOpen"}
CutNow == IF Writing THEN cut \cup {header} ELSE cut

(* An OSError leaves the loop: the pool is waited for.                      *)
WriteFails ==
    /\ Writing /\ (at = "java" => pending # <<>>)
    /\ cut' = CutNow
    /\ at' = "unwind"
    /\ UNCHANGED <<llvm, poolVars, mainVars, fileVars, start, kills>>

PoolIdle == queue = <<>> /\ working = {}

Unwound ==
    /\ at = "unwind" /\ PoolIdle
    /\ at' = "exited" /\ exit' = 1
    /\ UNCHANGED <<llvm, poolVars, all_errors, header, pending, fileVars, start, cut,
                   kills>>

main_returns ==
    /\ at = "collect" /\ PoolIdle /\ done = {}
    /\ at' = "exited" /\ exit' = IF all_errors THEN 1 ELSE 0
    /\ UNCHANGED <<llvm, poolVars, all_errors, header, pending, fileVars, start, cut,
                   kills>>

Kill ==
    /\ Running /\ kills < MaxKills
    /\ kills' = kills + 1
    /\ cut' = CutNow
    /\ at' = "idle"
    /\ UNCHANGED <<llvm, poolVars, mainVars, fileVars, start>>

WorkerStep ==
    \/ TakeHeader
    \/ \E h \in Headers : ProcessHeaderFails(h) \/ process_header(h)

MainStep ==
    \/ \E h \in Headers : Collect(h)
    \/ CppOpens \/ CppCloses \/ JavaOpens \/ JavaCloses \/ HeaderWritten
    \/ WriteFails \/ Unwound \/ main_returns

GeneratorNext == StartRun \/ (Running /\ WorkerStep) \/ MainStep \/ Kill

(* The threads are scheduled, and clang++ ends; nobody has to start a run.  *)
GeneratorSpec ==
    /\ GeneratorInit /\ [][GeneratorNext]_generatorVars
    /\ WF_generatorVars(Running /\ WorkerStep) /\ WF_generatorVars(MainStep)

-----------------------------------------------------------------------------

(* What the threads hold, and files with the tables of an LLVM that was     *)
(* installed.                                                               *)
GeneratorTypeOK ==
    /\ llvm \in Versions
    /\ at \in {"idle", "collect", "cpp", "cppOpen", "java", "javaOpen", "unwind", "exited"}
    /\ queue \in Seq(Headers) /\ working \subseteq Headers /\ done \subseteq Headers
    /\ Cardinality(working) <= Jobs
    /\ working \cap done = {} /\ (working \cup done) \cap ToSet(queue) = {}
    /\ result \in [Headers -> [enums : Seq(Enums), errors : BOOLEAN]]
    /\ \A h \in Headers : ToSet(result[h].enums) \subseteq EnumsIn(h)
    /\ all_errors \in BOOLEAN /\ header \in Headers /\ exit \in {0, 1}
    /\ pending \in Seq(EnumsIn(header))
    /\ at = "javaOpen" => pending # <<>>
    /\ \A h \in Headers :
            \/ cpp[h] \in {Absent, Torn}
            \/ \E v \in Versions, s \in SUBSET EnumsIn(h) : cpp[h] = Tables(v, s)
    /\ \A e \in Enums :
            java[e] \in {Absent, Torn} \/ \E v \in Versions : java[e] = Table(v, e)
    /\ cut \subseteq Headers /\ kills \in 0 .. MaxKills

(* A table has, at the value of every enumerator that is no alias, its      *)
(* name, and it has none of the names to leave out.                         *)
RightTable(v, e, t) ==
    LET all == Enumerators[v][e] IN
    /\ \A i \in DOMAIN all :
        ~ IsAlias(all, i) => /\ all[i].value + 1 \in DOMAIN t
                             /\ t[all[i].value + 1] = Mapper[e][all[i].name]
    /\ \A n \in Exclude[e] : \A i \in DOMAIN t : t[i] # Mapper[e][n]

(* The tables generated are right: the headers declare their enumerators as *)
(* EnumsAssumption says, and no two of a kind are mapped to one name.       *)
TablesAreRight == \A v \in Versions, e \in Enums : RightTable(v, e, Table(v, e))

(* A run that exits with 0 leaves, for every enum of every header, a C++    *)
(* and a Java table that are right for the LLVM installed, whatever earlier *)
(* runs left there (main(), process_header(), generate_cpp_array()).        *)
CompleteOnSuccess ==
    at = "exited" /\ exit = 0 =>
        \A h \in Headers : \A e \in EnumsIn(h) :
            /\ cpp[h] \notin {Absent, Torn} /\ e \in DOMAIN cpp[h]
            /\ java[e] \notin {Absent, Torn}
            /\ RightTable(llvm, e, cpp[h][e]) /\ RightTable(llvm, e, java[e])

(* The Java file of an enum always says the same as its table in the C++    *)
(* file, also of headers that failed since, unless the writing of the       *)
(* header was cut off and no later run repaired it (main()'s loop).         *)
TwinsAgree ==
    \A h \in Headers \ CutNow :
        cpp[h] # Absent => cpp[h] # Torn /\ \A e \in DOMAIN cpp[h] : java[e] = cpp[h][e]

(* While a run goes on and after it, a header it has not come to or of      *)
(* which it extracted nothing has the C++ file of an earlier run, and any   *)
(* other exactly the enums it extracted, in whatever order the results came *)
(* (main()'s loop).                                                         *)
OnlyWhatWasExtracted ==
    at # "idle" =>
        \A h \in Headers \ CutNow :
            LET untaken == h \in working \cup done \cup ToSet(queue)
            IN  cpp[h] = IF untaken \/ result[h].enums = <<>>
                         THEN start[h]
                         ELSE generate_cpp_file(result[h].enums)

(* A run ends.                                                              *)
RunEnds == Running ~> ~ Running

=============================================================================
