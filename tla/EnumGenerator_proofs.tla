------------------------- MODULE EnumGenerator_proofs -------------------------
(***************************************************************************)
(* Proofs about the generator of the enum tables, for any headers, enums,  *)
(* versions and number of workers, and any sequence of runs, failed or     *)
(* killed.                                                                 *)
(*                                                                         *)
(* The workers touch only headers that main() has not taken, and main()    *)
(* writes only the files of the header it took last.  HeaderInv says what  *)
(* it has written of it so far; with it, the files of all other headers    *)
(* stay as they were when main() went on.                                  *)
(***************************************************************************)
EXTENDS EnumGenerator, SequenceTheorems, FiniteSetTheorems, TLAPS

(* The headers main() has not come to in this run.                          *)
Untaken == working \cup done \cup ToSet(queue)

LEMMA TailElements ==
    ASSUME NEW S, NEW s \in Seq(S), s # <<>>
    PROVE  /\ Head(s) \in S /\ Tail(s) \in Seq(S)
           /\ ToSet(s) = {Head(s)} \cup ToSet(Tail(s))
           /\ ToSet(s) \subseteq S
           /\ IsInjective(s) => IsInjective(Tail(s)) /\ Head(s) \notin ToSet(Tail(s))
<1>1. /\ Head(s) = s[1] /\ Head(s) \in S /\ Tail(s) \in Seq(S)
      /\ Len(s) \in Nat \ {0} /\ Len(Tail(s)) = Len(s) - 1
      /\ DOMAIN s = 1 .. Len(s) /\ DOMAIN Tail(s) = 1 .. Len(s) - 1
      /\ \A i \in 1 .. Len(s) : s[i] \in S
    BY HeadTailProperties, EmptySeq, LenProperties, ElementOfSeq
<1>2. \A i \in 1 .. Len(s) - 1 : Tail(s)[i] = s[i + 1]
    BY <1>1, HeadTailProperties
<1>3. ToSet(s) = {Head(s)} \cup ToSet(Tail(s))
  <2>1. ASSUME NEW x \in ToSet(s)
        PROVE  x \in {Head(s)} \cup ToSet(Tail(s))
    <3>1. PICK i \in 1 .. Len(s) : x = s[i]
        BY <1>1 DEF ToSet
    <3>2. CASE i = 1
        BY <3>1, <3>2, <1>1
    <3>3. CASE i # 1
        <4>1. i - 1 \in 1 .. Len(s) - 1 /\ (i - 1) + 1 = i
            BY <3>3, <1>1
        <4>2. Tail(s)[i - 1] = x
            BY <4>1, <1>2, <3>1
        <4> QED
            BY <4>1, <4>2, <1>1 DEF ToSet
    <3> QED
        BY <3>2, <3>3
  <2>2. ASSUME NEW x \in {Head(s)} \cup ToSet(Tail(s))
        PROVE  x \in ToSet(s)
    <3>1. CASE x = Head(s)
        BY <3>1, <1>1 DEF ToSet
    <3>2. CASE x \in ToSet(Tail(s))
        <4>1. PICK i \in 1 .. Len(s) - 1 : x = Tail(s)[i]
            BY <3>2, <1>1 DEF ToSet
        <4>2. i + 1 \in 1 .. Len(s) /\ x = s[i + 1]
            BY <4>1, <1>1, <1>2
        <4> QED
            BY <4>2, <1>1 DEF ToSet
    <3> QED
        BY <3>1, <3>2
  <2> QED
      BY <2>1, <2>2
<1>4. ASSUME IsInjective(s)
      PROVE  IsInjective(Tail(s)) /\ Head(s) \notin ToSet(Tail(s))
  <2>1. \A i, j \in 1 .. Len(s) : s[i] = s[j] => i = j
      BY <1>1, <1>4 DEF IsInjective
  <2>2. ASSUME NEW i \in 1 .. Len(s) - 1, NEW j \in 1 .. Len(s) - 1, Tail(s)[i] = Tail(s)[j]
        PROVE  i = j
    <3>1. i + 1 \in 1 .. Len(s) /\ j + 1 \in 1 .. Len(s) /\ s[i + 1] = s[j + 1]
        BY <2>2, <1>1, <1>2
    <3>2. i + 1 = j + 1
        BY <3>1, <2>1
    <3> QED
        BY <3>2
  <2>3. ASSUME NEW i \in 1 .. Len(s) - 1
        PROVE  Tail(s)[i] # Head(s)
    <3>1. i + 1 \in 1 .. Len(s) /\ 1 \in 1 .. Len(s) /\ i + 1 # 1
        BY <1>1
    <3> QED
        BY <3>1, <2>1, <1>1, <1>2
  <2> QED
      BY <2>2, <2>3, <1>1 DEF IsInjective, ToSet
<1>5. ToSet(s) \subseteq S
    BY <1>1 DEF ToSet
<1> QED
    BY <1>1, <1>3, <1>4, <1>5

LEMMA ElementsOf ==
    ASSUME NEW S, NEW s \in Seq(S)
    PROVE  ToSet(s) \subseteq S
    BY ElementOfSeq, LenProperties DEF ToSet

LEMMA InOwnElements ==
    ASSUME NEW S, NEW s \in Seq(S), NEW T, ToSet(s) \subseteq T
    PROVE  s \in Seq(T)
<1>1. s \in [1 .. Len(s) -> S] /\ Len(s) \in Nat
    BY LenProperties
<1>2. \A i \in 1 .. Len(s) : s[i] \in T
    BY <1>1 DEF ToSet
<1> QED
    BY <1>1, <1>2, IsASeq

(* One worker more or less.                                                 *)
LEMMA WorkerCounts ==
    ASSUME NEW S, IsFiniteSet(S), NEW x
    PROVE  /\ IsFiniteSet(S \cup {x}) /\ Cardinality(S \cup {x}) <= Cardinality(S) + 1
           /\ IsFiniteSet(S \ {x}) /\ Cardinality(S \ {x}) <= Cardinality(S)
           /\ Cardinality(S) \in Nat
<1>1. Cardinality(S) \in Nat
    BY FS_CardinalityType
<1>2. /\ IsFiniteSet(S \cup {x})
      /\ Cardinality(S \cup {x}) = IF x \in S THEN Cardinality(S) ELSE Cardinality(S) + 1
    BY FS_AddElement
<1>3. /\ IsFiniteSet(S \ {x})
      /\ Cardinality(S \ {x}) = IF x \in S THEN Cardinality(S) - 1 ELSE Cardinality(S)
    BY FS_RemoveElement
<1> QED
    BY <1>1, <1>2, <1>3

(* What a worker extracts are enums of its header.                          *)
LEMMA ExtractionTypes ==
    ASSUME NEW h \in Headers, NEW extracted \in Extractions(h)
    PROVE  extracted \in Seq(Enums) /\ ToSet(extracted) \subseteq EnumsIn(h)
<1>1. PICK m \in 0 .. Len(EnumsOf[h]) : extracted \in [1 .. m -> EnumsIn(h)]
    BY DEF Extractions, SeqOf
<1>2. Len(EnumsOf[h]) \in Nat
    BY GeneratorAssumption, LenProperties
<1>3. m \in Nat
    BY <1>1, <1>2
<1>4. EnumsIn(h) \subseteq Enums
    BY DEF Enums, EnumsIn
<1>5. extracted \in Seq(EnumsIn(h))
    BY <1>1, <1>3, IsASeq
<1>6. ToSet(extracted) \subseteq EnumsIn(h)
    BY <1>5, ElementsOf
<1>7. extracted \in Seq(Enums)
    BY <1>5, <1>4, <1>6, InOwnElements
<1> QED
    BY <1>6, <1>7

-----------------------------------------------------------------------------

(* The types, in parts: the pool, main() and the files.                     *)
PoolTypes ==
    /\ queue \in Seq(Headers) /\ IsInjective(queue)
    /\ working \subseteq Headers /\ done \subseteq Headers
    /\ IsFiniteSet(working) /\ Cardinality(working) <= Jobs
    /\ working \cap done = {} /\ (working \cup done) \cap ToSet(queue) = {}
    /\ result \in [Headers -> [enums : Seq(Enums), errors : BOOLEAN]]
    /\ \A h \in Headers : ToSet(result[h].enums) \subseteq EnumsIn(h)

MainTypes ==
    /\ llvm \in Versions
    /\ at \in {"idle", "collect", "cpp", "cppOpen", "java", "javaOpen", "unwind", "exited"}
    /\ all_errors \in BOOLEAN /\ header \in Headers /\ exit \in {0, 1}
    /\ pending \in Seq(EnumsIn(header))
    /\ at = "javaOpen" => pending # <<>>
    /\ cut \subseteq Headers /\ kills \in 0 .. MaxKills

FileTypes ==
    /\ cpp \in [Headers -> {Absent, Torn} \cup
                          {Tables(v, s) : v \in Versions, s \in SUBSET Enums}]
    /\ \A h \in Headers :
            \/ cpp[h] \in {Absent, Torn}
            \/ \E v \in Versions, s \in SUBSET EnumsIn(h) : cpp[h] = Tables(v, s)
    /\ java \in [Enums -> {Absent, Torn} \cup {Table(v, e) : v \in Versions, e \in Enums}]
    /\ \A e \in Enums :
            java[e] \in {Absent, Torn} \/ \E v \in Versions : java[e] = Table(v, e)

TypeInv == PoolTypes /\ MainTypes /\ FileTypes

LEMMA TypeInvImplies == TypeInv => GeneratorTypeOK
    BY DEF TypeInv, PoolTypes, MainTypes, FileTypes, GeneratorTypeOK

LEMMA SomeHeader == Headers # {} /\ HEADERS \in Seq(Headers) /\ IsInjective(HEADERS)
<1>1. 1 \in DOMAIN HEADERS
    BY GeneratorAssumption, EmptySeq, LenProperties
<1> QED
    BY <1>1, GeneratorAssumption DEF Headers, ToSet

LEMMA NoElements == ASSUME NEW S PROVE <<>> \in Seq(S) /\ ToSet(<<>>) = {} /\ IsInjective(<<>>)
    BY EmptySeq DEF ToSet, IsInjective

LEMMA TypeInit == GeneratorInit => TypeInv
<1> SUFFICES ASSUME GeneratorInit PROVE TypeInv
    OBVIOUS
<1>1. PoolTypes
  <2>1. IsFiniteSet({}) /\ Cardinality({}) = 0
      BY FS_EmptySet
  <2>2. Jobs \in Nat
      BY GeneratorAssumption
  <2> QED
      BY <2>1, <2>2, NoElements DEF GeneratorInit, PoolTypes, NoResult
<1>2. MainTypes
  <2>1. pending \in Seq(EnumsIn(header))
      BY NoElements DEF GeneratorInit
  <2>2. kills \in 0 .. MaxKills
      BY GeneratorAssumption DEF GeneratorInit
  <2> QED
      BY <2>1, <2>2 DEF GeneratorInit, MainTypes
<1>3. FileTypes
    BY DEF GeneratorInit, FileTypes
<1> QED
    BY <1>1, <1>2, <1>3 DEF TypeInv

LEMMA PoolTypesNext ==
    ASSUME TypeInv, [GeneratorNext]_generatorVars
    PROVE  PoolTypes'
<1> USE DEF TypeInv
<1>1. CASE StartRun
  <2>1. IsFiniteSet({}) /\ Cardinality({}) = 0 /\ Jobs \in Nat
      BY FS_EmptySet, GeneratorAssumption
  <2> QED
      BY <1>1, <2>1, SomeHeader, NoElements DEF StartRun, PoolTypes, NoResult
<1>2. CASE TakeHeader
  <2>1. /\ Head(queue) \in Headers /\ Tail(queue) \in Seq(Headers)
        /\ ToSet(queue) = {Head(queue)} \cup ToSet(Tail(queue))
        /\ IsInjective(Tail(queue)) /\ Head(queue) \notin ToSet(Tail(queue))
      BY <1>2, TailElements DEF TakeHeader, PoolTypes
  <2>2. IsFiniteSet(working') /\ Cardinality(working') <= Cardinality(working) + 1
    <3>1. IsFiniteSet(working) /\ working' = working \cup {Head(queue)}
        BY <1>2 DEF TakeHeader, PoolTypes
    <3>2. /\ IsFiniteSet(working \cup {Head(queue)})
          /\ Cardinality(working \cup {Head(queue)}) <= Cardinality(working) + 1
        BY <3>1, WorkerCounts
    <3> QED
        BY <3>1, <3>2
  <2>3. Cardinality(working') <= Jobs
      BY <1>2, <2>2, FS_CardinalityType, GeneratorAssumption DEF TakeHeader, PoolTypes
  <2>4. Head(queue) \notin done
      BY <2>1 DEF PoolTypes
  <2> QED
      BY <1>2, <2>1, <2>2, <2>3, <2>4 DEF TakeHeader, PoolTypes
<1>3. ASSUME NEW h \in working, NEW extracted \in Seq(Enums),
             ToSet(extracted) \subseteq EnumsIn(h),
             NEW errors \in BOOLEAN, FutureDone(h, extracted, errors)
      PROVE  PoolTypes'
  <2>1. h \in Headers /\ h \notin ToSet(queue)
      BY <1>3 DEF PoolTypes
  <2>2. IsFiniteSet(working') /\ Cardinality(working') <= Cardinality(working)
    <3>1. IsFiniteSet(working) /\ working' = working \ {h}
        BY <1>3 DEF FutureDone, PoolTypes
    <3>2. /\ IsFiniteSet(working \ {h})
          /\ Cardinality(working \ {h}) <= Cardinality(working)
        BY <3>1, WorkerCounts
    <3> QED
        BY <3>1, <3>2
  <2>3. Cardinality(working') <= Jobs
      BY <2>2, FS_CardinalityType, GeneratorAssumption DEF PoolTypes
  <2>4. /\ result' \in [Headers -> [enums : Seq(Enums), errors : BOOLEAN]]
        /\ \A g \in Headers : ToSet(result'[g].enums) \subseteq EnumsIn(g)
      BY <1>3, <2>1 DEF FutureDone, PoolTypes
  <2> QED
      BY <1>3, <2>1, <2>2, <2>3, <2>4 DEF FutureDone, PoolTypes
<1>4. CASE \E h \in Headers : ProcessHeaderFails(h)
    BY <1>3, <1>4, NoElements DEF ProcessHeaderFails
<1>5. CASE \E h \in Headers : process_header(h)
  <2>1. PICK h \in Headers : process_header(h)
      BY <1>5
  <2>2. PICK extracted \in Extractions(h) :
                h \in working /\ FutureDone(h, extracted, extracted # EnumsOf[h])
      BY <2>1 DEF process_header
  <2> QED
      BY <1>3, <2>2, ExtractionTypes
<1>6. CASE \E h \in Headers : Collect(h)
    BY <1>6 DEF Collect, PoolTypes
<1>7. CASE \/ CppOpens \/ CppCloses \/ JavaOpens \/ JavaCloses \/ HeaderWritten
           \/ WriteFails \/ Unwound \/ main_returns \/ Kill
           \/ UNCHANGED generatorVars
    BY <1>7 DEF CppOpens, CppCloses, JavaOpens, JavaCloses, HeaderWritten, WriteFails,
                Unwound, main_returns, Kill, PoolTypes, poolVars, generatorVars
<1> QED
    BY <1>1, <1>2, <1>4, <1>5, <1>6, <1>7 DEF GeneratorNext, WorkerStep, MainStep

LEMMA MainTypesNext ==
    ASSUME TypeInv, [GeneratorNext]_generatorVars
    PROVE  MainTypes'
<1> USE DEF TypeInv
<1>1. CASE StartRun
    BY <1>1, NoElements DEF StartRun, MainTypes
<1>2. CASE WorkerStep
  <2>1. UNCHANGED <<llvm, at, mainVars, cut, kills>>
      BY <1>2 DEF WorkerStep, TakeHeader, ProcessHeaderFails, process_header, FutureDone
  <2> QED
      BY <2>1 DEF MainTypes, mainVars
<1>3. ASSUME NEW h \in Headers, Collect(h)
      PROVE  MainTypes'
  <2>1. result[h].enums \in Seq(Enums) /\ result[h].errors \in BOOLEAN
      BY DEF PoolTypes
  <2>2. result[h].enums \in Seq(EnumsIn(h))
      BY <2>1, InOwnElements DEF PoolTypes
  <2>3. (all_errors \/ result[h].errors) \in BOOLEAN
      OBVIOUS
  <2>4. all_errors' \in BOOLEAN
      BY <1>3, <2>3 DEF Collect
  <2>5. pending' \in Seq(EnumsIn(header')) /\ header' \in Headers
      BY <1>3, <2>2 DEF Collect, MainTypes
  <2> QED
      BY <1>3, <2>4, <2>5 DEF Collect, MainTypes
<1>4. CASE CppOpens \/ CppCloses
    BY <1>4 DEF CppOpens, CppCloses, MainTypes, mainVars
<1>5. CASE JavaOpens
    BY <1>5 DEF JavaOpens, MainTypes, mainVars
<1>6. CASE JavaCloses
  <2>1. Tail(pending) \in Seq(EnumsIn(header))
      BY <1>6, TailElements DEF JavaCloses, MainTypes
  <2> QED
      BY <1>6, <2>1 DEF JavaCloses, MainTypes
<1>7. CASE HeaderWritten
    BY <1>7 DEF HeaderWritten, MainTypes, mainVars
<1>8. CutNow \subseteq Headers
    BY DEF CutNow, MainTypes
<1>9. CASE WriteFails
    BY <1>8, <1>9 DEF WriteFails, MainTypes, mainVars
<1>10. CASE Unwound \/ main_returns
  <2>1. exit' \in {0, 1} /\ at' = "exited"
      BY <1>10 DEF Unwound, main_returns
  <2> QED
      BY <1>10, <2>1 DEF Unwound, main_returns, MainTypes
<1>11. CASE Kill
    BY <1>8, <1>11, GeneratorAssumption DEF Kill, MainTypes, mainVars
<1>12. CASE UNCHANGED generatorVars
    BY <1>12 DEF MainTypes, generatorVars, mainVars
<1> QED
    BY <1>1, <1>2, <1>3, <1>4, <1>5, <1>6, <1>7, <1>9, <1>10, <1>11, <1>12
    DEF GeneratorNext, MainStep

LEMMA FileTypesNext ==
    ASSUME TypeInv, [GeneratorNext]_generatorVars
    PROVE  FileTypes'
<1> USE DEF TypeInv
<1>1. CASE CppOpens
    BY <1>1 DEF CppOpens, FileTypes, MainTypes
<1>2. CASE CppCloses
  <2>1. /\ header \in Headers /\ llvm \in Versions
        /\ ToSet(result[header].enums) \subseteq EnumsIn(header)
        /\ EnumsIn(header) \subseteq Enums
      BY DEF MainTypes, PoolTypes, Enums, EnumsIn
  <2>2. cpp' = [cpp EXCEPT ![header] = Tables(llvm, ToSet(result[header].enums))]
      BY <1>2 DEF CppCloses, generate_cpp_file
  <2> QED
      BY <1>2, <2>1, <2>2 DEF CppCloses, FileTypes
<1>3. CASE JavaOpens \/ JavaCloses
  <2>1. pending \in Seq(EnumsIn(header)) /\ pending # <<>>
      BY <1>3 DEF JavaOpens, JavaCloses, MainTypes
  <2>2. Head(pending) \in Enums
      BY <2>1, TailElements DEF MainTypes, Enums, EnumsIn
  <2>3. CASE JavaOpens
      BY <2>2, <2>3 DEF JavaOpens, FileTypes
  <2>4. CASE JavaCloses
      BY <2>2, <2>4 DEF JavaCloses, FileTypes, MainTypes, generate_java_enum_values
  <2> QED
      BY <1>3, <2>3, <2>4
<1>4. CASE \/ StartRun \/ WorkerStep \/ (\E h \in Headers : Collect(h)) \/ HeaderWritten
           \/ WriteFails \/ Unwound \/ main_returns \/ Kill \/ UNCHANGED generatorVars
  <2>1. UNCHANGED <<cpp, java>>
      BY <1>4 DEF StartRun, WorkerStep, TakeHeader, ProcessHeaderFails, process_header,
                  FutureDone, Collect, HeaderWritten, WriteFails, Unwound, main_returns,
                  Kill, fileVars, generatorVars
  <2> QED
      BY <2>1 DEF FileTypes
<1> QED
    BY <1>1, <1>2, <1>3, <1>4 DEF GeneratorNext, MainStep

(* The types hold for whatever headers, enums and versions.                 *)
THEOREM GeneratorTypeCorrect == GeneratorSpec => []GeneratorTypeOK
<1>1. TypeInv /\ [GeneratorNext]_generatorVars => TypeInv'
    BY PoolTypesNext, MainTypesNext, FileTypesNext DEF TypeInv
<1> QED
    BY <1>1, TypeInit, TypeInvImplies, PTL DEF GeneratorSpec

-----------------------------------------------------------------------------

(* main() writes the files of a header that it has taken, with enums.  Its  *)
(* C++ file is done before the first Java file; of these, the ones not      *)
(* pending are done.                                                        *)
HeaderInv ==
    Writing =>
        /\ header \notin Untaken /\ result[header].enums # <<>>
        /\ at \in {"cpp", "cppOpen"} => pending = result[header].enums
        /\ at \in {"java", "javaOpen"} =>
                /\ cpp[header] = Tables(llvm, ToSet(result[header].enums))
                /\ \A e \in ToSet(result[header].enums) \ ToSet(pending) :
                        java[e] = Table(llvm, e)

(* The workers leave what main() has taken alone.                           *)
LEMMA WorkersApart ==
    ASSUME TypeInv, WorkerStep
    PROVE  /\ Untaken' = Untaken
           /\ \A h \in Headers \ Untaken : result'[h] = result[h]
           /\ UNCHANGED <<llvm, at, mainVars, fileVars, start, cut, kills>>
<1> USE DEF TypeInv
<1>1. CASE TakeHeader
  <2>1. ToSet(queue) = {Head(queue)} \cup ToSet(Tail(queue))
      BY <1>1, TailElements DEF TakeHeader, PoolTypes
  <2> QED
      BY <1>1, <2>1 DEF TakeHeader, Untaken
<1>2. ASSUME NEW h \in working, NEW extracted, NEW errors, FutureDone(h, extracted, errors)
      PROVE  /\ Untaken' = Untaken
             /\ \A g \in Headers \ Untaken : result'[g] = result[g]
             /\ UNCHANGED <<llvm, at, mainVars, fileVars, start, cut, kills>>
    BY <1>2 DEF FutureDone, Untaken, PoolTypes
<1>3. CASE \E h \in Headers : ProcessHeaderFails(h)
    BY <1>2, <1>3 DEF ProcessHeaderFails
<1>4. CASE \E h \in Headers : process_header(h)
    BY <1>2, <1>4 DEF process_header
<1> QED
    BY <1>1, <1>3, <1>4 DEF WorkerStep

(* A future is taken once.                                                  *)
LEMMA CollectTakes ==
    ASSUME TypeInv, NEW h \in Headers, Collect(h)
    PROVE  /\ h \in Untaken /\ Untaken' = Untaken \ {h}
           /\ UNCHANGED <<llvm, result, fileVars, start, cut>>
    BY DEF Collect, Untaken, TypeInv, PoolTypes

LEMMA HeaderNext ==
    ASSUME TypeInv, HeaderInv, [GeneratorNext]_generatorVars
    PROVE  HeaderInv'
<1> USE DEF TypeInv
<1>1. CASE StartRun
    BY <1>1 DEF StartRun, HeaderInv, Writing
<1>2. CASE WorkerStep
  <2>1. /\ UNCHANGED <<llvm, at, header, pending, cpp, java>>
        /\ Untaken' = Untaken
        /\ \A h \in Headers \ Untaken : result'[h] = result[h]
      BY <1>2, WorkersApart DEF mainVars, fileVars
  <2>2. Writing => result'[header] = result[header]
      BY <2>1 DEF HeaderInv, MainTypes
  <2> QED
      BY <2>1, <2>2 DEF HeaderInv, Writing
<1>3. ASSUME NEW h \in Headers, Collect(h)
      PROVE  HeaderInv'
  <2>1. h \in Untaken /\ Untaken' = Untaken \ {h} /\ UNCHANGED result
      BY <1>3, CollectTakes
  <2> QED
      BY <1>3, <2>1 DEF Collect, HeaderInv, Writing
<1>4. CASE CppOpens
    BY <1>4 DEF CppOpens, HeaderInv, Writing, Untaken, poolVars, mainVars
<1>5. CASE CppCloses
  <2>1. header \in Headers /\ cpp' = [cpp EXCEPT ![header] =
                                        Tables(llvm, ToSet(result[header].enums))]
      BY <1>5 DEF CppCloses, generate_cpp_file, MainTypes
  <2>2. cpp'[header] = Tables(llvm, ToSet(result[header].enums))
      BY <2>1 DEF FileTypes
  <2>3. pending = result[header].enums
      BY <1>5 DEF CppCloses, HeaderInv, Writing
  <2> QED
      BY <1>5, <2>2, <2>3 DEF CppCloses, HeaderInv, Writing, Untaken, poolVars, mainVars
<1>6. CASE JavaOpens
  <2>1. /\ pending # <<>> /\ Head(pending) \in ToSet(pending)
      BY <1>6, TailElements DEF JavaOpens, MainTypes
  <2>2. \A e \in Enums \ ToSet(pending) : java'[e] = java[e]
      BY <1>6, <2>1 DEF JavaOpens, FileTypes
  <2>3. ToSet(result[header].enums) \subseteq Enums
      BY DEF PoolTypes, MainTypes, Enums, EnumsIn
  <2> QED
      BY <1>6, <2>2, <2>3 DEF JavaOpens, HeaderInv, Writing, Untaken, poolVars, mainVars
<1>7. CASE JavaCloses
  <2>1. /\ pending # <<>> /\ ToSet(pending) = {Head(pending)} \cup ToSet(Tail(pending))
        /\ Head(pending) \in Enums
    <3>1. pending # <<>> /\ pending \in Seq(EnumsIn(header)) /\ EnumsIn(header) \subseteq Enums
        BY <1>7 DEF JavaCloses, MainTypes, Enums, EnumsIn
    <3> QED
        BY <3>1, TailElements
  <2>2. /\ java'[Head(pending)] = Table(llvm, Head(pending))
        /\ \A e \in Enums : e # Head(pending) => java'[e] = java[e]
      BY <1>7, <2>1 DEF JavaCloses, FileTypes, generate_java_enum_values
  <2>3. ToSet(result[header].enums) \subseteq Enums
      BY DEF PoolTypes, MainTypes, Enums, EnumsIn
  <2>4. /\ UNCHANGED <<llvm, header, result, cpp, queue, working, done>>
        /\ at = "javaOpen" /\ at' = "java" /\ pending' = Tail(pending)
      BY <1>7 DEF JavaCloses, poolVars
  <2>5. \A e \in ToSet(result[header].enums) \ ToSet(pending') : java'[e] = Table(llvm, e)
      BY <2>1, <2>2, <2>3, <2>4 DEF HeaderInv, Writing
  <2> QED
      BY <2>4, <2>5 DEF HeaderInv, Writing, Untaken
<1>8. CASE HeaderWritten \/ WriteFails \/ Unwound \/ main_returns \/ Kill
    BY <1>8 DEF HeaderWritten, WriteFails, Unwound, main_returns, Kill, HeaderInv, Writing
<1>9. CASE UNCHANGED generatorVars
    BY <1>9 DEF HeaderInv, Writing, Untaken, generatorVars, poolVars, mainVars, fileVars
<1> QED
    BY <1>1, <1>2, <1>3, <1>4, <1>5, <1>6, <1>7, <1>8, <1>9 DEF GeneratorNext, MainStep

(* What is cut off, and what the steps that write do to the other headers.  *)
LEMMA WritingApart ==
    ASSUME TypeInv, CppOpens \/ CppCloses \/ JavaOpens \/ JavaCloses
    PROVE  /\ Writing /\ Writing' /\ CutNow' = CutNow /\ header \in CutNow
           /\ \A h \in Headers \ {header} :
                /\ cpp'[h] = cpp[h]
                /\ \A e \in EnumsIn(h) : java'[e] = java[e]
           /\ Untaken' = Untaken /\ at' # "idle"
           /\ UNCHANGED <<llvm, result, header, start>>
<1> USE DEF TypeInv
<1>1. CASE CppOpens
    BY <1>1 DEF CppOpens, Writing, CutNow, Untaken, poolVars, mainVars, FileTypes
<1>2. CASE CppCloses
    BY <1>2 DEF CppCloses, Writing, CutNow, Untaken, poolVars, mainVars, FileTypes
<1>3. CASE JavaOpens \/ JavaCloses
  <2>1. pending # <<>> /\ Head(pending) \in EnumsIn(header)
      BY <1>3, TailElements DEF JavaOpens, JavaCloses, MainTypes
  <2>2. \A h \in Headers \ {header} :
            /\ Head(pending) \notin EnumsIn(h) /\ EnumsIn(h) \subseteq Enums
      BY <2>1, GeneratorAssumption DEF MainTypes, Enums, EnumsIn
  <2>3. CASE JavaOpens
      BY <2>2, <2>3 DEF JavaOpens, Writing, CutNow, Untaken, poolVars, mainVars, FileTypes
  <2>4. CASE JavaCloses
      BY <2>2, <2>4 DEF JavaCloses, Writing, CutNow, Untaken, poolVars, FileTypes
  <2> QED
      BY <1>3, <2>3, <2>4
<1> QED
    BY <1>1, <1>2, <1>3

(* The steps of main() that end something and touch no files.               *)
LEMMA EndingApart ==
    ASSUME WriteFails \/ Unwound \/ main_returns \/ Kill \/ UNCHANGED generatorVars
    PROVE  /\ CutNow' = CutNow /\ Untaken' = Untaken
           /\ UNCHANGED <<llvm, result, header, all_errors, cpp, java, start>>
<1>1. CASE WriteFails \/ Kill
    BY <1>1 DEF WriteFails, Kill, CutNow, Writing, Untaken, poolVars, mainVars, fileVars
<1>2. CASE Unwound \/ main_returns
    BY <1>2 DEF Unwound, main_returns, CutNow, Writing, Untaken, poolVars, fileVars
<1>3. CASE UNCHANGED generatorVars
    BY <1>3 DEF CutNow, Writing, Untaken, generatorVars, poolVars, mainVars, fileVars
<1> QED
    BY <1>1, <1>2, <1>3

LEMMA OnlyNext ==
    ASSUME TypeInv, HeaderInv, OnlyWhatWasExtracted, [GeneratorNext]_generatorVars
    PROVE  OnlyWhatWasExtracted'
<1> DEFINE Right(untaken, r, c, s, v, h) ==
            c[h] = IF h \in untaken \/ r[h].enums = <<>>
                   THEN s[h] ELSE Tables(v, ToSet(r[h].enums))
<1>1. OnlyWhatWasExtracted <=>
        (at # "idle" =>
            \A h \in Headers \ CutNow : Right(Untaken, result, cpp, start, llvm, h))
    BY DEF OnlyWhatWasExtracted, Untaken, generate_cpp_file
<1>2. OnlyWhatWasExtracted' <=>
        (at' # "idle" =>
            \A h \in Headers \ CutNow' : Right(Untaken', result', cpp', start', llvm', h))
    BY DEF OnlyWhatWasExtracted, Untaken, generate_cpp_file
<1>3. CASE StartRun
  <2>1. Untaken' = Headers /\ start' = cpp /\ cpp' = cpp
      BY <1>3 DEF StartRun, Untaken, fileVars, Headers
  <2> QED
      BY <1>2, <2>1
<1>4. CASE WorkerStep
  <2>1. /\ Untaken' = Untaken
        /\ \A h \in Headers \ Untaken : result'[h] = result[h]
        /\ UNCHANGED <<llvm, at, header, cpp, start, cut>>
      BY <1>4, WorkersApart DEF mainVars, fileVars
  <2>2. CutNow' = CutNow
      BY <2>1 DEF CutNow, Writing
  <2> QED
      BY <1>1, <1>2, <2>1, <2>2
<1>5. ASSUME NEW h \in Headers, Collect(h)
      PROVE  OnlyWhatWasExtracted'
  <2>1. /\ h \in Untaken /\ Untaken' = Untaken \ {h}
        /\ UNCHANGED <<llvm, result, cpp, start, cut>>
      BY <1>5, CollectTakes DEF fileVars
  <2>2. CutNow = cut /\ at = "collect"
      BY <1>5 DEF Collect, CutNow, Writing
  <2>3. CASE result[h].enums = <<>>
    <3>1. CutNow' = cut
        BY <1>5, <2>3, <2>1 DEF Collect, CutNow, Writing
    <3> QED
        BY <1>1, <1>2, <2>1, <2>2, <2>3, <3>1
  <2>4. CASE result[h].enums # <<>>
    <3>1. CutNow' = cut \cup {h}
        BY <1>5, <2>4, <2>1 DEF Collect, CutNow, Writing
    <3> QED
        BY <1>1, <1>2, <2>1, <2>2, <3>1
  <2> QED
      BY <2>3, <2>4
<1>6. CASE CppOpens \/ CppCloses \/ JavaOpens \/ JavaCloses
  <2>1. at # "idle"
      BY <1>6 DEF CppOpens, CppCloses, JavaOpens, JavaCloses
  <2> QED
      BY <1>1, <1>2, <1>6, <2>1, WritingApart
<1>7. CASE HeaderWritten
  <2>1. /\ Right(Untaken, result, cpp, start, llvm, header)
        /\ CutNow = cut \cup {header} /\ at # "idle"
      BY <1>7 DEF HeaderWritten, HeaderInv, Writing, CutNow
  <2>2. /\ CutNow' = cut \ {header} /\ Untaken' = Untaken
        /\ UNCHANGED <<llvm, result, cpp, start>>
      BY <1>7 DEF HeaderWritten, CutNow, Writing, Untaken, poolVars, fileVars
  <2> QED
      BY <1>1, <1>2, <2>1, <2>2
<1>8. CASE WriteFails \/ Unwound \/ main_returns \/ Kill \/ UNCHANGED generatorVars
  <2>1. at' # "idle" => at # "idle"
      BY <1>8 DEF WriteFails, Unwound, main_returns, Kill, generatorVars, Writing
  <2> QED
      BY <1>1, <1>2, <1>8, <2>1, EndingApart
<1> QED
    BY <1>3, <1>4, <1>5, <1>6, <1>7, <1>8 DEF GeneratorNext, MainStep

LEMMA TwinsNext ==
    ASSUME TypeInv, HeaderInv, TwinsAgree, [GeneratorNext]_generatorVars
    PROVE  TwinsAgree'
<1> DEFINE Twins(c, j, h) == c[h] # Absent => /\ c[h] # Torn
                                             /\ \A e \in DOMAIN c[h] : j[e] = c[h][e]
<1>1. TwinsAgree <=> \A h \in Headers \ CutNow : Twins(cpp, java, h)
    BY DEF TwinsAgree
<1>2. TwinsAgree' <=> \A h \in Headers \ CutNow' : Twins(cpp', java', h)
    BY DEF TwinsAgree
<1> USE DEF TypeInv
<1>3. CASE \/ StartRun \/ WorkerStep \/ (\E h \in Headers : Collect(h))
           \/ WriteFails \/ Unwound \/ main_returns \/ Kill \/ UNCHANGED generatorVars
  <2>1. CutNow \subseteq CutNow' /\ UNCHANGED <<cpp, java>>
    <3>1. CASE StartRun
        BY <3>1 DEF StartRun, CutNow, Writing, fileVars
    <3>2. CASE WorkerStep
        BY <3>2, WorkersApart DEF CutNow, Writing, mainVars, fileVars
    <3>3. CASE \E h \in Headers : Collect(h)
        BY <3>3 DEF Collect, CutNow, Writing, fileVars
    <3>4. CASE WriteFails \/ Unwound \/ main_returns \/ Kill \/ UNCHANGED generatorVars
        BY <3>4, EndingApart
    <3> QED
        BY <1>3, <3>1, <3>2, <3>3, <3>4
  <2> QED
      BY <1>1, <1>2, <2>1
<1>4. CASE CppOpens \/ CppCloses \/ JavaOpens \/ JavaCloses
  <2>1. /\ CutNow' = CutNow /\ header \in CutNow
        /\ \A h \in Headers \ {header} :
                /\ cpp'[h] = cpp[h]
                /\ \A e \in EnumsIn(h) : java'[e] = java[e]
      BY <1>4, WritingApart
  <2>2. ASSUME NEW h \in Headers \ CutNow, Twins(cpp, java, h)
        PROVE  Twins(cpp', java', h)
    <3>1. CASE cpp[h] \in {Absent, Torn}
        BY <2>1, <2>2, <3>1
    <3>2. CASE \E v \in Versions, s \in SUBSET EnumsIn(h) : cpp[h] = Tables(v, s)
      <4>1. DOMAIN cpp[h] \subseteq EnumsIn(h)
          BY <3>2 DEF Tables
      <4> QED
          BY <2>1, <2>2, <4>1
    <3> QED
        BY <3>1, <3>2 DEF FileTypes
  <2> QED
      BY <1>1, <1>2, <2>1, <2>2
<1>5. CASE HeaderWritten
  <2>1. /\ at = "java" /\ pending = <<>> /\ CutNow = cut \cup {header}
        /\ CutNow' = cut \ {header} /\ UNCHANGED <<cpp, java>>
      BY <1>5 DEF HeaderWritten, CutNow, Writing, fileVars
  <2>2. /\ cpp[header] = Tables(llvm, ToSet(result[header].enums))
        /\ \A e \in ToSet(result[header].enums) : java[e] = Table(llvm, e)
      BY <2>1, NoElements DEF HeaderInv, Writing
  <2>3. ToSet(result[header].enums) \subseteq Enums /\ llvm \in Versions
      BY DEF PoolTypes, MainTypes, Enums, EnumsIn
  <2>4. Twins(cpp, java, header)
      BY <2>2, <2>3, FilesAssumption DEF Tables
  <2> QED
      BY <1>1, <1>2, <2>1, <2>4
<1> QED
    BY <1>3, <1>4, <1>5 DEF GeneratorNext, MainStep

(* A worker that met no error extracted every enum, an error is not         *)
(* forgotten, and while no writing failed every header taken with enums has *)
(* its files, but the one main() is at.                                     *)
SuccessInv ==
    at \notin {"idle", "unwind"} /\ (at = "exited" => exit = 0) =>
        /\ \A h \in Headers \ (working \cup ToSet(queue)) :
                ~ result[h].errors => result[h].enums = EnumsOf[h]
        /\ \A h \in Headers \ Untaken :
                /\ result[h].errors => all_errors
                /\ result[h].enums # <<>> /\ (Writing => h # header) => h \notin cut
        /\ at = "exited" => Untaken = {} /\ ~ all_errors

LEMMA SuccessNext ==
    ASSUME TypeInv, SuccessInv, [GeneratorNext]_generatorVars
    PROVE  SuccessInv'
<1> USE DEF TypeInv
<1> DEFINE Complete(r, h) == ~ r[h].errors => r[h].enums = EnumsOf[h]
<1>1. CASE StartRun
  <2>1. Untaken' = Headers /\ ToSet(queue') = Headers /\ at' = "collect"
      BY <1>1 DEF StartRun, Untaken, Headers
  <2> QED
      BY <2>1 DEF SuccessInv
<1>2. CASE WorkerStep
  <2>1. /\ Untaken' = Untaken
        /\ \A h \in Headers \ Untaken : result'[h] = result[h]
        /\ UNCHANGED <<at, header, exit, all_errors, cut>>
      BY <1>2, WorkersApart DEF mainVars
  <2>2. CASE TakeHeader
    <3>1. /\ working' \cup ToSet(queue') = working \cup ToSet(queue)
          /\ UNCHANGED result
      <4>1. ToSet(queue) = {Head(queue)} \cup ToSet(Tail(queue))
          BY <2>2, TailElements DEF TakeHeader, PoolTypes
      <4> QED
          BY <2>2, <4>1 DEF TakeHeader
    <3> QED
        BY <2>1, <3>1 DEF SuccessInv, Writing
  <2>3. ASSUME NEW h \in working, NEW extracted, NEW errors \in BOOLEAN,
               FutureDone(h, extracted, errors), ~ errors => extracted = EnumsOf[h],
               at \notin {"idle", "unwind"}, at = "exited" => exit = 0
        PROVE  \A g \in Headers \ (working' \cup ToSet(queue')) : Complete(result', g)
    <3>1. h \in Headers
        BY DEF PoolTypes
    <3>2. result'[h].enums = extracted /\ result'[h].errors = errors
        BY <2>3, <3>1 DEF FutureDone, PoolTypes
    <3>3. /\ \A g \in Headers \ {h} : result'[g] = result[g]
          /\ working' = working \ {h} /\ queue' = queue
        BY <2>3, <3>1 DEF FutureDone, PoolTypes
    <3>4. Complete(result', h)
        BY <2>3, <3>2
    <3>5. \A g \in Headers \ (working \cup ToSet(queue)) : Complete(result, g)
        BY <2>3 DEF SuccessInv
    <3> QED
        BY <3>3, <3>4, <3>5
  <2>4. CASE \E h \in Headers : ProcessHeaderFails(h)
    <3>1. PICK h \in working : FutureDone(h, <<>>, TRUE)
        BY <2>4 DEF ProcessHeaderFails
    <3>2. at \notin {"idle", "unwind"} /\ (at = "exited" => exit = 0) =>
            \A g \in Headers \ (working' \cup ToSet(queue')) : Complete(result', g)
        BY <2>3, <3>1
    <3> QED
        BY <2>1, <3>2 DEF SuccessInv, Writing
  <2>5. CASE \E h \in Headers : process_header(h)
    <3>0. PICK h \in Headers : process_header(h)
        BY <2>5
    <3>1. PICK extracted \in Extractions(h) :
                h \in working /\ FutureDone(h, extracted, extracted # EnumsOf[h])
        BY <3>0 DEF process_header
    <3>2. (extracted # EnumsOf[h]) \in BOOLEAN
        OBVIOUS
    <3>3. at \notin {"idle", "unwind"} /\ (at = "exited" => exit = 0) =>
            \A g \in Headers \ (working' \cup ToSet(queue')) : Complete(result', g)
        BY <2>3, <3>1, <3>2
    <3> QED
        BY <2>1, <3>3 DEF SuccessInv, Writing
  <2> QED
      BY <1>2, <2>2, <2>4, <2>5 DEF WorkerStep
<1>3. ASSUME NEW h \in Headers, Collect(h)
      PROVE  SuccessInv'
  <2>1. /\ h \in Untaken /\ Untaken' = Untaken \ {h}
        /\ UNCHANGED <<result, cut, working, queue>>
      BY <1>3, CollectTakes DEF Collect
  <2>2. /\ at = "collect" /\ at' \in {"collect", "cpp"}
        /\ result[h].enums # <<>> => at' = "cpp" /\ header' = h
      BY <1>3 DEF Collect
  <2>3. /\ all_errors' = (all_errors \/ result[h].errors)
      BY <1>3 DEF Collect
  <2>4. \A g \in Headers \ Untaken' : result'[g].errors => all_errors'
      BY <2>1, <2>2, <2>3 DEF SuccessInv
  <2>5. \A g \in Headers \ Untaken' :
            result'[g].enums # <<>> /\ (Writing' => g # header') => g \notin cut'
      BY <2>1, <2>2 DEF SuccessInv, Writing
  <2>6. \A g \in Headers \ (working' \cup ToSet(queue')) : Complete(result', g)
      BY <2>1, <2>2 DEF SuccessInv
  <2> QED
      BY <2>2, <2>4, <2>5, <2>6 DEF SuccessInv
<1>4. CASE CppOpens \/ CppCloses \/ JavaOpens \/ JavaCloses
  <2>1. /\ Writing /\ Writing'
        /\ UNCHANGED <<header, all_errors, cut, queue, working, done, result>>
      BY <1>4 DEF CppOpens, CppCloses, JavaOpens, JavaCloses, Writing, poolVars, mainVars
  <2> QED
      BY <2>1 DEF SuccessInv, Writing, Untaken
<1>5. CASE HeaderWritten
  <2>1. /\ at = "java" /\ at' = "collect" /\ cut' = cut \ {header}
        /\ UNCHANGED <<all_errors, queue, working, done, result>>
      BY <1>5 DEF HeaderWritten, poolVars, mainVars
  <2> QED
      BY <2>1 DEF SuccessInv, Writing, Untaken
<1>6. CASE main_returns
  <2>1. /\ at = "collect" /\ at' = "exited" /\ exit' = IF all_errors THEN 1 ELSE 0
        /\ queue = <<>> /\ working = {} /\ done = {}
        /\ UNCHANGED <<all_errors, header, cut, queue, working, done, result>>
      BY <1>6 DEF main_returns, PoolIdle, poolVars
  <2>2. Untaken = {} /\ Untaken' = {}
      BY <2>1, NoElements DEF Untaken
  <2>3. exit' = 0 => ~ all_errors'
      BY <2>1
  <2> QED
      BY <2>1, <2>2, <2>3 DEF SuccessInv, Writing
<1>7. CASE WriteFails \/ Unwound \/ Kill
    BY <1>7 DEF WriteFails, Unwound, Kill, SuccessInv
<1>8. CASE UNCHANGED generatorVars
    BY <1>8 DEF SuccessInv, Writing, Untaken, generatorVars, poolVars, mainVars
<1> QED
    BY <1>1, <1>2, <1>3, <1>4, <1>5, <1>6, <1>7, <1>8 DEF GeneratorNext, MainStep

-----------------------------------------------------------------------------

FilesInv == HeaderInv /\ OnlyWhatWasExtracted /\ TwinsAgree /\ SuccessInv

LEMMA FilesInit == GeneratorInit => FilesInv
    BY DEF GeneratorInit, FilesInv, HeaderInv, OnlyWhatWasExtracted, TwinsAgree, SuccessInv,
           Writing

LEMMA GeneratorInductive == GeneratorSpec => [](TypeInv /\ FilesInv)
<1>1. TypeInv /\ [GeneratorNext]_generatorVars => TypeInv'
    BY PoolTypesNext, MainTypesNext, FileTypesNext DEF TypeInv
<1>2. TypeInv /\ FilesInv /\ [GeneratorNext]_generatorVars => FilesInv'
    BY HeaderNext, OnlyNext, TwinsNext, SuccessNext DEF FilesInv
<1> QED
    BY <1>1, <1>2, TypeInit, FilesInit, PTL DEF GeneratorSpec

(* The Java file of an enum agrees with its table in the C++ file wherever  *)
(* no writing was cut off (main()'s loop).                                  *)
THEOREM TwinsAgreeHolds == GeneratorSpec => []TwinsAgree
    BY GeneratorInductive, PTL DEF FilesInv

(* A run leaves the files of what it did not extract as they were, and      *)
(* writes of any other header just what it extracted (main()'s loop).       *)
THEOREM OnlyWhatWasExtractedHolds == GeneratorSpec => []OnlyWhatWasExtracted
    BY GeneratorInductive, PTL DEF FilesInv

(* A success means that every table is there and is right.                  *)
LEMMA SuccessIsComplete ==
    ASSUME TypeInv, FilesInv, TablesAreRight
    PROVE  CompleteOnSuccess
<1> SUFFICES ASSUME at = "exited", exit = 0,
                    NEW h \in Headers, NEW e \in EnumsIn(h)
             PROVE  /\ cpp[h] \notin {Absent, Torn} /\ e \in DOMAIN cpp[h]
                    /\ java[e] \notin {Absent, Torn}
                    /\ RightTable(llvm, e, cpp[h][e]) /\ RightTable(llvm, e, java[e])
    BY DEF CompleteOnSuccess
<1>1. Untaken = {} /\ ~ all_errors
    BY DEF FilesInv, SuccessInv
<1>2. result[h].enums = EnumsOf[h] /\ e \in ToSet(EnumsOf[h]) /\ EnumsOf[h] # <<>>
  <2>1. ~ result[h].errors
      BY <1>1 DEF FilesInv, SuccessInv
  <2>2. result[h].enums = EnumsOf[h]
      BY <1>1, <2>1 DEF FilesInv, SuccessInv, Untaken
  <2> QED
      BY <2>2, NoElements DEF EnumsIn
<1>3. h \notin CutNow
    BY <1>1, <1>2 DEF FilesInv, SuccessInv, CutNow, Writing
<1>4. cpp[h] = Tables(llvm, EnumsIn(h))
    BY <1>1, <1>2, <1>3 DEF FilesInv, OnlyWhatWasExtracted, Untaken, generate_cpp_file, EnumsIn
<1>5. EnumsIn(h) \subseteq Enums /\ e \in Enums /\ llvm \in Versions
    BY DEF Enums, EnumsIn, TypeInv, MainTypes
<1>6. cpp[h] \notin {Absent, Torn} /\ e \in DOMAIN cpp[h] /\ cpp[h][e] = Table(llvm, e)
    BY <1>4, <1>5, FilesAssumption DEF Tables
<1>7. java[e] = Table(llvm, e)
    BY <1>3, <1>6 DEF FilesInv, TwinsAgree
<1> QED
    BY <1>5, <1>6, <1>7, FilesAssumption DEF TablesAreRight

(* A run that exits with 0 leaves right tables of every enum, of the LLVM   *)
(* installed, where the headers declare enums the generator is made for     *)
(* (main(), process_header()).                                              *)
THEOREM CompleteOnSuccessHolds ==
    ASSUME TablesAreRight
    PROVE  GeneratorSpec => []CompleteOnSuccess
<1>1. TypeInv /\ FilesInv => CompleteOnSuccess
    BY SuccessIsComplete
<1> QED
    BY <1>1, GeneratorInductive, PTL

===============================================================================
