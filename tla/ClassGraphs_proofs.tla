------------------------- MODULE ClassGraphs_proofs -------------------------
(***************************************************************************)
(* Proofs about graphs whose nodes run the class handlers: graph closure,  *)
(* for every translation unit, and no data record cut short.               *)
(*                                                                         *)
(* Closure is proved class by class.  Covered(calls) is what the direct    *)
(* visits of a handler reach, and "not dumped" as well if it throws; the   *)
(* null pointer is always covered.  There is a lemma for every children    *)
(* handler and data dumper of the same class, base classes first: what     *)
(* the dumper writes is covered by what the handler calls.  The dispatch   *)
(* tables combine them, and OfNode states it for every kind of node, but   *)
(* for the ids that a node writes and another one visits (Indirect).  A    *)
(* set of nodes closed under direct visits contains those too, and so      *)
(* everything its nodes write (ClassGraphClosed): the traversal core does  *)
(* the rest.                                                               *)
(*                                                                         *)
(* What the handlers take for granted of the nodes that Clang makes        *)
(* (MadeByClang) is needed for the arguments that are null pointers, and   *)
(* for the dumpers that refuse what no handler refuses.                    *)
(*                                                                         *)
(* A data dumper throws after its record was begun.  By the same lemmas    *)
(* the children handler of its class then throws as well (DataThrowsLate), *)
(* and it is called first; a handler that is done made all of its calls    *)
(* and none of them throws (PassedInv).                                    *)
(*                                                                         *)
(* The consumer meets another graph in each group.  Its units are closed   *)
(* by the same lemmas (ClassUnitClosed).                                   *)
(***************************************************************************)
EXTENDS ClassGraphs, MyASTConsumer_proofs

IsCalls(calls) == calls \in Seq(Range(calls))

Throws(calls) == \E i \in DOMAIN calls : calls[i].op = "throw"

(* What a data dumper may write when its children handler makes these       *)
(* calls: the ids visited directly, the null sentinel, and an exception     *)
(* where the children handler has thrown one before.                        *)
Covered(calls) ==
    {calls[i].to : i \in {j \in DOMAIN calls : calls[j].op \in DirectVisits}}
        \cup {Null}
        \cup (IF Throws(calls) THEN notDumped ELSE {})

Covers(calls, written) == IsCalls(calls) /\ written \subseteq Covered(calls)

-----------------------------------------------------------------------------

(* Induction over the naturals, for sets: a smallest number left out would  *)
(* have its predecessor in S.                                               *)
LEMMA NatBySets ==
    ASSUME NEW S, 0 \in S, \A n \in Nat : n \in S => n + 1 \in S
    PROVE  Nat \subseteq S
<1> DEFINE Missing == {1..n : n \in Nat \ S}
<1> SUFFICES ASSUME Nat \ S # {} PROVE FALSE
    OBVIOUS
<1>1. Missing # {} /\ Missing \subseteq FiniteSubsetsOf(Nat)
    <2>1. \A n \in Nat : IsFiniteSet(1..n)
        BY FS_Interval
    <2>2. \A n \in Nat : 1..n \in FiniteSubsetsOf(Nat)
        BY <2>1 DEF FiniteSubsetsOf
    <2> QED
        BY <2>2
<1>2. PICK X \in Missing : \A Y \in Missing : <<Y, X>> \notin StrictSubsetOrdering(Nat)
    <2> HIDE DEF Missing
    <2>1. \E X \in Missing : \A Y \in Missing : ~ (<<Y, X>> \in StrictSubsetOrdering(Nat))
        BY <1>1, FS_StrictSubsetOrderingWellFounded, WFMin
    <2> QED
        BY <2>1
<1>3. PICK x \in Nat \ S : X = 1..x
    OBVIOUS
<1>4. x # 0 /\ x - 1 \in Nat
    BY <1>3
<1>5. x - 1 \in S
    <2>1. SUFFICES ASSUME x - 1 \notin S PROVE FALSE
        OBVIOUS
    <2>2. 1..(x - 1) \in Missing
        BY <2>1, <1>4
    <2>3. 1..(x - 1) \subseteq 1..x /\ x \in 1..x /\ x \notin 1..(x - 1)
        BY <1>3, <1>4
    <2>4. 1..(x - 1) \subseteq Nat /\ 1..x \subseteq Nat /\ 1..(x - 1) # 1..x
        BY <2>3, <1>3, <1>4
    <2>5. <<1..(x - 1), 1..x>> \in StrictSubsetOrdering(Nat)
        BY <2>3, <2>4 DEF StrictSubsetOrdering
    <2> QED
        BY <1>2, <1>3, <2>2, <2>5
<1>6. (x - 1) + 1 \in S
    BY <1>4, <1>5
<1> QED
    BY <1>3, <1>6

-----------------------------------------------------------------------------

(* Sequences of calls.                                                      *)
LEMMA SequencesOfCalls ==
    ASSUME NEW calls
    PROVE  IsCalls(calls) <=> \E S : calls \in Seq(S)
<1>1. ASSUME NEW S, calls \in Seq(S) PROVE calls \in Seq(Range(calls))
    <2>1. Len(calls) \in Nat /\ DOMAIN calls = 1..Len(calls) /\ calls \in [1..Len(calls) -> S]
        BY <1>1
    <2>2. calls \in [1..Len(calls) -> Range(calls)]
        BY <2>1 DEF Range
    <2> QED
        BY <2>1, <2>2, SeqDef
<1> QED
    BY <1>1 DEF IsCalls

LEMMA ConcatenatedCalls ==
    ASSUME NEW c, NEW d, IsCalls(c), IsCalls(d)
    PROVE  /\ IsCalls(c \o d)
           /\ Covered(c \o d) = Covered(c) \cup Covered(d)
<1> DEFINE S == Range(c) \cup Range(d)
<1>1. c \in Seq(S) /\ d \in Seq(S)
    BY SeqDef DEF IsCalls
<1>2. c \o d \in Seq(S) /\ Len(c) \in Nat /\ Len(d) \in Nat
    BY <1>1
<1>3. /\ DOMAIN c = 1..Len(c)
      /\ DOMAIN d = 1..Len(d)
      /\ DOMAIN (c \o d) = 1..(Len(c) + Len(d))
      /\ \A i \in 1..Len(c) : (c \o d)[i] = c[i]
      /\ \A i \in 1..Len(d) : (c \o d)[Len(c) + i] = d[i]
    BY <1>1, ConcatProperties
<1>4. \A i \in DOMAIN (c \o d) :
        \/ i \in DOMAIN c /\ (c \o d)[i] = c[i]
        \/ \E j \in DOMAIN d : (c \o d)[i] = d[j]
    <2> SUFFICES ASSUME NEW i \in DOMAIN (c \o d), ~ (i \in DOMAIN c)
                 PROVE  \E j \in DOMAIN d : (c \o d)[i] = d[j]
        BY <1>3
    <2>1. i - Len(c) \in 1..Len(d) /\ Len(c) + (i - Len(c)) = i
        BY <1>2, <1>3
    <2> QED
        BY <1>3, <2>1
<1>5. /\ \A i \in DOMAIN c : i \in DOMAIN (c \o d) /\ (c \o d)[i] = c[i]
      /\ \A j \in DOMAIN d : \E i \in DOMAIN (c \o d) : (c \o d)[i] = d[j]
    <2>1. \A j \in 1..Len(d) : Len(c) + j \in 1..(Len(c) + Len(d))
        BY <1>2
    <2>2. \A i \in 1..Len(c) : i \in 1..(Len(c) + Len(d))
        BY <1>2
    <2> QED
        BY <1>3, <2>1, <2>2
<1> HIDE DEF S
<1>6. Throws(c \o d) <=> Throws(c) \/ Throws(d)
    BY <1>4, <1>5 DEF Throws
<1>7. {(c \o d)[i].to : i \in {j \in DOMAIN (c \o d) : (c \o d)[j].op \in DirectVisits}}
        = {c[i].to : i \in {j \in DOMAIN c : c[j].op \in DirectVisits}}
            \cup {d[i].to : i \in {j \in DOMAIN d : d[j].op \in DirectVisits}}
    BY <1>4, <1>5
<1>8. Covered(c \o d) = Covered(c) \cup Covered(d)
    BY <1>6, <1>7 DEF Covered
<1> QED
    BY <1>2, <1>8, SequencesOfCalls

(* The recursive function that FlattenSeq is defined with.                  *)
Flattening(seqs, n, f) ==
    f = [i \in 1..n |-> IF i = 1 THEN seqs[i] ELSE f[i - 1] \o seqs[i]]

LEMMA FlatteningExists ==
    ASSUME NEW seqs, NEW n \in Nat
    PROVE  \E f : Flattening(seqs, n, f)
<1> DEFINE S == {k \in Nat : \E f : Flattening(seqs, k, f)}
<1>1. 0 \in S
    <2>1. Flattening(seqs, 0, [i \in 1..0 |-> seqs[i]])
        BY DEF Flattening
    <2> QED
        BY <2>1
<1>2. ASSUME NEW k \in Nat, k \in S PROVE k + 1 \in S
    <2>1. PICK f : f = [i \in 1..k |-> IF i = 1 THEN seqs[i] ELSE f[i - 1] \o seqs[i]]
        BY <1>2 DEF Flattening
    <2> DEFINE g == [i \in 1..(k + 1) |-> IF i = 1 THEN seqs[i] ELSE f[i - 1] \o seqs[i]]
    <2>2. \A i \in 1..(k + 1) : i # 1 => g[i - 1] = f[i - 1]
        <3> SUFFICES ASSUME NEW i \in 1..(k + 1), i # 1 PROVE g[i - 1] = f[i - 1]
            OBVIOUS
        <3>1. i - 1 \in 1..k /\ i - 1 \in 1..(k + 1)
            OBVIOUS
        <3> QED
            BY <3>1, <2>1
    <2>3. g = [i \in 1..(k + 1) |-> IF i = 1 THEN seqs[i] ELSE g[i - 1] \o seqs[i]]
        BY <2>2
    <2>4. Flattening(seqs, k + 1, g)
        BY <2>3 DEF Flattening
    <2> QED
        BY <2>4
<1> HIDE DEF S
<1>3. Nat \subseteq S
    BY <1>1, <1>2, NatBySets
<1> QED
    BY <1>3 DEF S

LEMMA FlattenedByFunction ==
    ASSUME NEW seqs, Len(seqs) \in Nat, Len(seqs) # 0
    PROVE  \E f : Flattening(seqs, Len(seqs), f) /\ FlattenSeq(seqs) = f[Len(seqs)]
<1> DEFINE f == CHOOSE f : Flattening(seqs, Len(seqs), f)
<1>1. Flattening(seqs, Len(seqs), f)
    BY FlatteningExists
<1>2. FlattenSeq(seqs) = f[Len(seqs)]
    BY DEF FlattenSeq, Flattening
<1> QED
    BY <1>1, <1>2

(* Concatenating the calls of each turn of a loop leaves none of them out.  *)
LEMMA FlattenedCalls ==
    ASSUME NEW T, NEW seqs \in Seq(T), \A i \in DOMAIN seqs : IsCalls(seqs[i])
    PROVE  /\ IsCalls(FlattenSeq(seqs))
           /\ \A i \in DOMAIN seqs : Covered(seqs[i]) \subseteq Covered(FlattenSeq(seqs))
<1>1. Len(seqs) \in Nat /\ DOMAIN seqs = 1..Len(seqs)
    OBVIOUS
<1>2. CASE Len(seqs) = 0
    <2>1. FlattenSeq(seqs) = seqs
        BY <1>2 DEF FlattenSeq
    <2>2. DOMAIN seqs = {}
        BY <1>1, <1>2
    <2> QED
        BY <2>1, <2>2, SequencesOfCalls
<1>3. CASE Len(seqs) # 0
    <2>1. PICK f : Flattening(seqs, Len(seqs), f) /\ FlattenSeq(seqs) = f[Len(seqs)]
        BY <1>1, <1>3, FlattenedByFunction
    <2>2. \A i \in 1..Len(seqs) : f[i] = IF i = 1 THEN seqs[i] ELSE f[i - 1] \o seqs[i]
        BY <2>1 DEF Flattening
    <2> DEFINE Complete(k) == /\ IsCalls(f[k])
                              /\ \A i \in 1..k : Covered(seqs[i]) \subseteq Covered(f[k])
               S == {k \in Nat : k \in 1..Len(seqs) => Complete(k)}
    <2>3. 0 \in S
        OBVIOUS
    <2>4. ASSUME NEW k \in Nat, k \in S PROVE k + 1 \in S
        <3> SUFFICES ASSUME k + 1 \in 1..Len(seqs) PROVE Complete(k + 1)
            OBVIOUS
        <3>1. IsCalls(seqs[k + 1])
            BY <1>1
        <3>2. CASE k = 0
            <4>1. f[k + 1] = seqs[k + 1]
                BY <2>2, <3>2
            <4>2. \A i \in 1..(k + 1) : i = k + 1
                BY <3>2
            <4> QED
                BY <3>1, <4>1, <4>2
        <3>3. CASE k # 0
            <4>1. k \in 1..Len(seqs) /\ (k + 1) - 1 = k /\ k + 1 # 1
                BY <1>1, <3>3
            <4>2. Complete(k)
                BY <2>4, <4>1
            <4>3. f[k + 1] = f[k] \o seqs[k + 1]
                BY <2>2, <4>1
            <4>4. \A i \in 1..(k + 1) : i \in 1..k \/ i = k + 1
                BY <1>1
            <4>5. IsCalls(f[k + 1]) /\ Covered(f[k + 1]) = Covered(f[k]) \cup Covered(seqs[k + 1])
                BY <3>1, <4>2, <4>3, ConcatenatedCalls
            <4> QED
                BY <4>2, <4>4, <4>5
        <3> QED
            BY <3>2, <3>3
    <2> HIDE DEF S
    <2>5. Nat \subseteq S
        BY <2>3, <2>4, NatBySets
    <2>6. Complete(Len(seqs))
        BY <1>1, <1>3, <2>5 DEF S
    <2> QED
        BY <1>1, <2>1, <2>6
<1> QED
    BY <1>2, <1>3

-----------------------------------------------------------------------------

(* The vocabulary of the handlers.                                          *)
LEMMA NoCalls == IsCalls(<<>>) /\ Covered(<<>>) = {Null} /\ \A calls : Null \in Covered(calls)
<1>1. IsCalls(<<>>)
    <2>1. <<>> \in Seq({})
        OBVIOUS
    <2> QED
        BY <2>1, SequencesOfCalls
<1>2. DOMAIN <<>> = {}
    OBVIOUS
<1> QED
    BY <1>1, <1>2 DEF Covered, Throws

LEMMA OneCall ==
    ASSUME NEW op, NEW p
    PROVE  /\ IsCalls(Call(op, p))
           /\ op \in {"visitTop", "requiredChild"} => Covered(Call(op, p)) = {p, Null}
           /\ op = "addChild" => Covered(Call(op, p)) = {Null}
           /\ op = "throw" => Covered(Call(op, p)) = notDumped \cup {Null}
<1>1. IsCalls(Call(op, p))
    <2>1. Call(op, p) \in Seq({[op |-> op, to |-> p]})
        BY DEF Call
    <2> QED
        BY <2>1, SequencesOfCalls
<1>2. DOMAIN Call(op, p) = {1} /\ Call(op, p)[1].op = op /\ Call(op, p)[1].to = p
    BY DEF Call
<1> HIDE DEF Call
<1>3. Throws(Call(op, p)) <=> op = "throw"
    BY <1>2 DEF Throws
<1>4. CASE op \in {"visitTop", "requiredChild"}
    BY <1>1, <1>2, <1>3, <1>4 DEF Covered, DirectVisits
<1>5. CASE ~ (op \in {"visitTop", "requiredChild"})
    BY <1>1, <1>2, <1>3, <1>5 DEF Covered, DirectVisits
<1> QED
    BY <1>4, <1>5

LEMMA PointerCalls ==
    ASSUME NEW d, NEW f
    PROVE  /\ IsCalls(visitTop(d, f)) /\ Covered(visitTop(d, f)) = {d.one[f], Null}
           /\ IsCalls(requiredChild(d, f)) /\ Covered(requiredChild(d, f)) = {d.one[f], Null}
           /\ IsCalls(addChild(d, f))
           /\ IsCalls(visitIfPresent(d, f)) /\ Covered(visitIfPresent(d, f)) = {d.one[f], Null}
BY OneCall, NoCalls DEF visitTop, requiredChild, addChild, visitIfPresent

LEMMA WhenCalls ==
    ASSUME NEW d, NEW q, NEW c, IsCalls(c)
    PROVE  /\ IsCalls(When(d, q, c))
           /\ Covered(When(d, q, c)) = IF q \in d.is THEN Covered(c) ELSE {Null}
BY NoCalls DEF When

(* The loops that make one call for each element of a list.                 *)
LEMMA LoopCalls ==
    ASSUME NEW list, IsList(list), NEW op \in {"addChild", "visitTop"}
    PROVE  LET calls == [i \in DOMAIN list |-> [op |-> op, to |-> list[i]]]
           IN  /\ IsCalls(calls)
               /\ op = "visitTop" => Covered(calls) = Range(list) \cup {Null}
<1> DEFINE calls == [i \in DOMAIN list |-> [op |-> op, to |-> list[i]]]
<1>1. Len(list) \in Nat /\ DOMAIN list = 1..Len(list)
    BY DEF IsList
<1>2. calls \in [1..Len(list) -> Range(calls)]
    BY <1>1 DEF Range
<1>3. IsCalls(calls)
    BY <1>1, <1>2, SeqDef DEF IsCalls
<1>4. /\ DOMAIN calls = DOMAIN list
      /\ \A i \in DOMAIN list : calls[i].op = op /\ calls[i].to = list[i]
    OBVIOUS
<1> HIDE DEF calls
<1>5. ~ Throws(calls)
    BY <1>4 DEF Throws
<1>6. ASSUME op = "visitTop" PROVE Covered(calls) = Range(list) \cup {Null}
    BY <1>4, <1>5, <1>6 DEF Covered, DirectVisits, Range
<1> QED
    BY <1>3, <1>6 DEF calls

LEMMA ListCalls ==
    ASSUME NEW d, NEW f, IsList(d.each[f])
    PROVE  /\ IsCalls(addEach(d, f))
           /\ IsCalls(visitEach(d, f))
           /\ Covered(visitEach(d, f)) = idsOf(d, f) \cup {Null}
<1>1. IsCalls(addEach(d, f))
    BY LoopCalls DEF addEach
<1>2. IsCalls(visitEach(d, f)) /\ Covered(visitEach(d, f)) = idsOf(d, f) \cup {Null}
    BY LoopCalls DEF visitEach, idsOf
<1> QED
    BY <1>1, <1>2

(* The loops whose turns make several calls, or none.                       *)
LEMMA LoopOfCalls ==
    ASSUME NEW list, IsList(list), NEW turn, DOMAIN turn = DOMAIN list,
           turn = [i \in DOMAIN turn |-> turn[i]],
           \A i \in DOMAIN list : IsCalls(turn[i])
    PROVE  /\ IsCalls(FlattenSeq(turn))
           /\ \A i \in DOMAIN list : Covered(turn[i]) \subseteq Covered(FlattenSeq(turn))
<1>1. Len(list) \in Nat /\ DOMAIN list = 1..Len(list)
    BY DEF IsList
<1>2. turn \in [1..Len(list) -> Range(turn)]
    BY <1>1 DEF Range
<1>3. turn \in Seq(Range(turn))
    BY <1>1, <1>2, SeqDef
<1> QED
    BY <1>3, FlattenedCalls

-----------------------------------------------------------------------------

(* Template arguments and names.                                            *)
LEMMA ReachedName ==
    ASSUME NEW name
    PROVE  Covers(visitReachedName(name), dumpReachedName(name))
<1>1. CASE name.kind \in DeclNames
    <2>1. visitReachedName(name) = Call("visitTop", name.node) /\ dumpReachedName(name) = {name.node}
        BY <1>1 DEF visitReachedName, dumpReachedName, visitNode, DeclNames
    <2> QED
        BY <2>1, OneCall DEF Covers
<1>2. CASE ~ (name.kind \in DeclNames) /\ name.kind = "DependentTemplate"
    <2>1. visitReachedName(name) = <<>> /\ dumpReachedName(name) = {}
        BY <1>2 DEF visitReachedName, dumpReachedName, DeclNames
    <2> QED
        BY <2>1, NoCalls DEF Covers
<1>3. CASE ~ (name.kind \in DeclNames) /\ name.kind # "DependentTemplate"
    <2>1. visitReachedName(name) = Call("throw", Null) /\ dumpReachedName(name) = notDumped
        BY <1>3 DEF visitReachedName, dumpReachedName, notImplemented, DeclNames
    <2> QED
        BY <2>1, OneCall DEF Covers
<1> QED
    BY <1>1, <1>2, <1>3

LEMMA TemplateName ==
    ASSUME NEW name, IsList(name.substitutedFor)
    PROVE  Covers(VisitTemplateName(name), dumpTemplateName(name))
<1> DEFINE calls == [i \in DOMAIN name.substitutedFor |->
                        [op |-> "visitTop", to |-> name.substitutedFor[i]]]
<1>1. IsCalls(calls) /\ Covered(calls) = Range(name.substitutedFor) \cup {Null}
    BY LoopCalls
<1>2. VisitTemplateName(name) = calls \o visitReachedName(name)
    BY DEF VisitTemplateName
<1> HIDE DEF calls
<1> QED
    BY <1>1, <1>2, ReachedName, ConcatenatedCalls DEF Covers, dumpTemplateName

LEMMA PlainArgument ==
    ASSUME NEW arg, IsPlainArgument(arg), UnqualifiedNullPtr(arg)
    PROVE  Covers(visitPlainArgument(arg), dumpPlainArgument(arg))
<1>1. CASE arg.kind \in NodeArguments
    <2>1. /\ visitPlainArgument(arg) = Call("visitTop", arg.node)
          /\ dumpPlainArgument(arg) = {arg.node}
        BY <1>1 DEF visitPlainArgument, dumpPlainArgument, visitNode, NodeArguments, NameArguments
    <2> QED
        BY <2>1, OneCall DEF Covers
<1>2. CASE arg.kind = "Integral"
    <2>1. visitPlainArgument(arg) = <<>> /\ dumpPlainArgument(arg) = {}
        BY <1>2 DEF visitPlainArgument, dumpPlainArgument, NodeArguments, NameArguments
    <2> QED
        BY <2>1, NoCalls DEF Covers
<1>3. CASE arg.kind \in NameArguments
    <2>1. /\ visitPlainArgument(arg) = VisitTemplateName(arg.name)
          /\ dumpPlainArgument(arg) = dumpTemplateName(arg.name)
        BY <1>3 DEF visitPlainArgument, dumpPlainArgument, NodeArguments, NameArguments
    <2> QED
        BY <1>3, <2>1, TemplateName DEF IsPlainArgument
<1>4. CASE arg.kind = "NullPtr"
    <2>1. /\ visitPlainArgument(arg) = Call("visitTop", arg.typePtr)
          /\ dumpPlainArgument(arg) = {arg.typePtr}
        BY <1>4 DEF UnqualifiedNullPtr, visitPlainArgument, dumpPlainArgument, visitNode,
                    NodeArguments, NameArguments
    <2> QED
        BY <2>1, OneCall DEF Covers
<1>5. CASE ~ (arg.kind \in NodeArguments \cup NameArguments \cup {"NullPtr", "Integral"})
    <2>1. visitPlainArgument(arg) = Call("throw", Null) /\ dumpPlainArgument(arg) = notDumped
        BY <1>5 DEF visitPlainArgument, dumpPlainArgument, notImplemented
    <2> QED
        BY <2>1, OneCall DEF Covers
<1> QED
    BY <1>1, <1>2, <1>3, <1>4, <1>5

LEMMA PackArgument ==
    ASSUME NEW arg, arg.kind = "Pack", IsTemplateArgument(arg), UnqualifiedNullPtrs(arg)
    PROVE  Covers(VisitTemplateArgChildren(arg), dumpTemplateArgument(arg))
<1> DEFINE turn == [i \in DOMAIN arg.elements |-> visitPlainArgument(arg.elements[i])]
<1>1. /\ IsList(arg.elements)
      /\ \A i \in DOMAIN arg.elements :
            IsPlainArgument(arg.elements[i]) /\ UnqualifiedNullPtr(arg.elements[i])
    BY DEF IsTemplateArgument, UnqualifiedNullPtrs
<1>2. \A i \in DOMAIN arg.elements : Covers(turn[i], dumpPlainArgument(arg.elements[i]))
    BY <1>1, PlainArgument
<1>3. turn = [i \in DOMAIN turn |-> turn[i]] /\ DOMAIN turn = DOMAIN arg.elements
    OBVIOUS
<1>4. /\ VisitTemplateArgChildren(arg) = FlattenSeq(turn)
      /\ dumpTemplateArgument(arg)
            = UNION {dumpPlainArgument(arg.elements[i]) : i \in DOMAIN arg.elements}
    BY DEF VisitTemplateArgChildren, visitPack, dumpTemplateArgument
<1> HIDE DEF turn
<1> QED
    BY <1>1, <1>2, <1>3, <1>4, LoopOfCalls DEF Covers

(* The loops over all arguments, which expand packs or must not meet one.   *)
LEMMA ExpandedArguments ==
    ASSUME NEW args, IsList(args),
           \A i \in DOMAIN args : IsTemplateArgument(args[i]) /\ UnqualifiedNullPtrs(args[i])
    PROVE  Covers(visitArgumentsExpanded(args), dumpArguments(args))
<1> DEFINE turn == [i \in DOMAIN args |-> VisitTemplateArgChildren(args[i])]
<1>1. \A i \in DOMAIN args : Covers(turn[i], dumpTemplateArgument(args[i]))
    <2> SUFFICES ASSUME NEW i \in DOMAIN args
                 PROVE  Covers(VisitTemplateArgChildren(args[i]), dumpTemplateArgument(args[i]))
        OBVIOUS
    <2>1. CASE args[i].kind = "Pack"
        BY <2>1, PackArgument
    <2>2. CASE args[i].kind # "Pack"
        <3>1. /\ VisitTemplateArgChildren(args[i]) = visitPlainArgument(args[i])
              /\ dumpTemplateArgument(args[i]) = dumpPlainArgument(args[i])
              /\ IsPlainArgument(args[i]) /\ UnqualifiedNullPtr(args[i])
            BY <2>2 DEF VisitTemplateArgChildren, dumpTemplateArgument, IsTemplateArgument,
                        UnqualifiedNullPtrs
        <3> QED
            BY <3>1, PlainArgument
    <2> QED
        BY <2>1, <2>2
<1>2. turn = [i \in DOMAIN turn |-> turn[i]] /\ DOMAIN turn = DOMAIN args
    OBVIOUS
<1>3. visitArgumentsExpanded(args) = FlattenSeq(turn)
    BY DEF visitArgumentsExpanded
<1> HIDE DEF turn
<1> QED
    BY <1>1, <1>2, <1>3, LoopOfCalls DEF Covers, dumpArguments

LEMMA FlatArguments ==
    ASSUME NEW args, IsList(args),
           \A i \in DOMAIN args : IsTemplateArgument(args[i]) /\ UnqualifiedNullPtrs(args[i]),
           \A i \in DOMAIN args : args[i].kind # "Pack"
    PROVE  Covers(visitArguments(args), dumpArguments(args))
<1>1. \A i \in DOMAIN args : VisitTemplateArgument(args[i]) = VisitTemplateArgChildren(args[i])
    BY DEF VisitTemplateArgument, VisitTemplateArgChildren
<1>2. visitArguments(args) = visitArgumentsExpanded(args)
    BY <1>1 DEF visitArguments, visitArgumentsExpanded
<1> QED
    BY <1>2, ExpandedArguments

-----------------------------------------------------------------------------

(* Declarations: each children handler covers the data dumper of its class. *)
LEMMA LoopLists ==
    ASSUME NEW d, IsDescription(d), NEW f \in ListGetters
    PROVE  /\ IsList(d.each[f])
           /\ IsCalls(addEach(d, f))
           /\ Covers(visitEach(d, f), idsOf(d, f))
BY ListCalls DEF IsDescription, Covers

LEMMA Decl ==
    ASSUME NEW d, IsDescription(d)
    PROVE  Covers(VisitDeclChildren(d), DumpDeclData(d))
BY LoopLists DEF ListGetters, VisitDeclChildren, DumpDeclData

LEMMA NamedDecl ==
    ASSUME NEW d, IsDescription(d), MadeByClang(d)
    PROVE  Covers(VisitNamedDeclChildren(d), DumpNamedDeclData(d))
BY Decl
   DEF MadeByClang, WhenIds, Covers, VisitNamedDeclChildren, DumpNamedDeclData, dumpQualifiedPrefix

LEMMA TypeDecl ==
    ASSUME NEW d, IsDescription(d), MadeByClang(d)
    PROVE  Covers(VisitTypeDeclChildren(d), DumpTypeDeclData(d))
BY NamedDecl, PointerCalls, ConcatenatedCalls DEF Covers, ids, VisitTypeDeclChildren, DumpTypeDeclData

LEMMA AddedChildren ==
    ASSUME NEW d, IsDescription(d), NEW f \in ListGetters
    PROVE  IsCalls(addChildren(d, f))
<1> DEFINE turn == [i \in DOMAIN d.each[f] |-> IF d.each[f][i] \in d.implicit \cup {Null}
                                               THEN <<>>
                                               ELSE Call("addChild", d.each[f][i])]
<1>1. turn = [i \in DOMAIN turn |-> turn[i]] /\ DOMAIN turn = DOMAIN d.each[f]
    OBVIOUS
<1>2. \A i \in DOMAIN d.each[f] : IsCalls(turn[i])
    BY NoCalls, OneCall
<1>3. addChildren(d, f) = FlattenSeq(turn)
    BY DEF addChildren
<1> HIDE DEF turn
<1> QED
    BY <1>1, <1>2, <1>3, LoopLists, LoopOfCalls

LEMMA TagDecl ==
    ASSUME NEW d, IsDescription(d), MadeByClang(d)
    PROVE  Covers(VisitTagDeclChildren(d), DumpTagDeclData(d))
BY TypeDecl, AddedChildren, ConcatenatedCalls
   DEF Covers, ListGetters, VisitTagDeclChildren, DumpTagDeclData

LEMMA EnumDecl ==
    ASSUME NEW d, IsDescription(d), MadeByClang(d)
    PROVE  Covers(VisitEnumDeclChildren(d), DumpEnumDeclData(d))
BY TagDecl, PointerCalls, ConcatenatedCalls DEF Covers, ids, VisitEnumDeclChildren, DumpEnumDeclData

LEMMA ValueDecl ==
    ASSUME NEW d, IsDescription(d), MadeByClang(d)
    PROVE  Covers(VisitValueDeclChildren(d), DumpValueDeclData(d))
BY NamedDecl, PointerCalls, ConcatenatedCalls DEF Covers, ids, VisitValueDeclChildren, DumpValueDeclData

LEMMA FieldDecl ==
    ASSUME NEW d, IsDescription(d), MadeByClang(d)
    PROVE  Covers(VisitFieldDeclChildren(d), DumpFieldDeclData(d))
BY ValueDecl, PointerCalls, ConcatenatedCalls
   DEF Covers, VisitFieldDeclChildren, DumpFieldDeclData, DumpDeclaratorDeclData

(* Packs are left out of the lists of template arguments.                   *)
NoPack(d) == \A i \in DOMAIN d.args : d.args[i].kind # "Pack"

LEMMA Arguments ==
    ASSUME NEW d, IsDescription(d), MadeByClang(d), NoPack(d)
    PROVE  Covers(visitArguments(d.args), dumpArguments(d.args))
BY FlatArguments DEF IsDescription, MadeByClang, NoPack

LEMMA FunctionDecl ==
    ASSUME NEW d, IsDescription(d), MadeByClang(d), NoPack(d)
    PROVE  Covers(VisitFunctionDeclChildren(d), DumpFunctionDeclData(d))
BY ValueDecl, Arguments, PointerCalls, WhenCalls, LoopLists, ConcatenatedCalls
   DEF Covers, ids, WhenIds, ListGetters,
       VisitFunctionDeclChildren, DumpFunctionDeclData, DumpDeclaratorDeclData

LEMMA CXXMethodDecl ==
    ASSUME NEW d, IsDescription(d), MadeByClang(d), NoPack(d)
    PROVE  Covers(VisitCXXMethodDeclChildren(d), DumpCXXMethodDeclData(d))
BY FunctionDecl, PointerCalls, WhenCalls, LoopLists, ConcatenatedCalls
   DEF Covers, ids, WhenIds, ListGetters, VisitCXXMethodDeclChildren, DumpCXXMethodDeclData

LEMMA CtorInitializer ==
    ASSUME NEW init
    PROVE  Covers(visitCtorInitializer(init), dumpCtorInitializer(init))
<1>1. Covers(IF init.is \cap CtorInitializers = {} THEN notImplemented ELSE <<>>,
             IF init.is \cap CtorInitializers = {} THEN notDumped ELSE {})
    BY OneCall, NoCalls DEF Covers, notImplemented
<1> QED
    BY <1>1, PointerCalls, WhenCalls, ConcatenatedCalls
       DEF Covers, ids, WhenIds, visitCtorInitializer, dumpCtorInitializer

LEMMA CXXConstructorDecl ==
    ASSUME NEW d, IsDescription(d), MadeByClang(d), NoPack(d)
    PROVE  Covers(VisitCXXConstructorDeclChildren(d), DumpCXXConstructorDeclData(d))
<1> DEFINE turn == [i \in DOMAIN d.parts |-> visitCtorInitializer(d.parts[i])]
<1>1. turn = [i \in DOMAIN turn |-> turn[i]] /\ DOMAIN turn = DOMAIN d.parts
    OBVIOUS
<1>2. \A i \in DOMAIN d.parts : Covers(turn[i], dumpCtorInitializer(d.parts[i]))
    BY CtorInitializer
<1>3. VisitCXXConstructorDeclChildren(d)
        = VisitCXXMethodDeclChildren(d) \o FlattenSeq(turn) \o visitTop(d, "explicitSpecifierExpr")
    BY DEF VisitCXXConstructorDeclChildren
<1>4. /\ IsCalls(FlattenSeq(turn))
      /\ \A i \in DOMAIN d.parts : dumpCtorInitializer(d.parts[i]) \subseteq Covered(FlattenSeq(turn))
    <2>1. IsList(d.parts)
        BY DEF IsDescription
    <2> HIDE DEF turn
    <2> QED
        BY <1>1, <1>2, <2>1, LoopOfCalls DEF Covers
<1> HIDE DEF turn
<1> QED
    BY <1>3, <1>4, CXXMethodDecl, PointerCalls, ConcatenatedCalls
       DEF Covers, ids, DumpCXXConstructorDeclData

LEMMA CXXConversionDecl ==
    ASSUME NEW d, IsDescription(d), MadeByClang(d), NoPack(d)
    PROVE  Covers(VisitCXXConversionDeclChildren(d), DumpCXXConversionDeclData(d))
BY CXXMethodDecl, PointerCalls, ConcatenatedCalls
   DEF Covers, ids, VisitCXXConversionDeclChildren, DumpCXXConversionDeclData

LEMMA RecordDecl ==
    ASSUME NEW d, IsDescription(d), MadeByClang(d)
    PROVE  Covers(VisitRecordDeclChildren(d), DumpRecordDeclData(d))
BY TagDecl DEF VisitRecordDeclChildren, DumpRecordDeclData

LEMMA CXXRecordDecl ==
    ASSUME NEW d, IsDescription(d), MadeByClang(d)
    PROVE  Covers(VisitCXXRecordDeclChildren(d), DumpCXXRecordDeclData(d))
BY RecordDecl, PointerCalls, WhenCalls, LoopLists, ConcatenatedCalls
   DEF Covers, ids, WhenIds, ListGetters, VisitCXXRecordDeclChildren, DumpCXXRecordDeclData

LEMMA ClassTemplateSpecializationDecl ==
    ASSUME NEW d, IsDescription(d), MadeByClang(d), NoPack(d)
    PROVE  Covers(VisitClassTemplateSpecializationDeclChildren(d),
                  DumpClassTemplateSpecializationDeclData(d))
BY CXXRecordDecl, Arguments, PointerCalls, ConcatenatedCalls
   DEF Covers, ids, VisitClassTemplateSpecializationDeclChildren, DumpClassTemplateSpecializationDeclData

LEMMA VarDecl ==
    ASSUME NEW d, IsDescription(d), MadeByClang(d)
    PROVE  Covers(VisitVarDeclChildren(d), DumpVarDeclData(d))
BY ValueDecl, PointerCalls, WhenCalls, ConcatenatedCalls
   DEF Covers, VisitVarDeclChildren, DumpVarDeclData

LEMMA TemplateDecl ==
    ASSUME NEW d, IsDescription(d), MadeByClang(d)
    PROVE  Covers(VisitTemplateDeclChildren(d), DumpTemplateDeclData(d))
<1> DEFINE parameters == d.each["templateParameter"]
           turn == [i \in DOMAIN parameters |-> visitTemplateParameter(parameters[i])]
<1>1. turn = [i \in DOMAIN turn |-> turn[i]] /\ DOMAIN turn = DOMAIN parameters
    OBVIOUS
<1>2. \A i \in DOMAIN parameters : Covers(turn[i], {parameters[i]})
    BY OneCall, ConcatenatedCalls DEF Covers, visitTemplateParameter
<1>3. VisitTemplateDeclChildren(d)
        = VisitNamedDeclChildren(d) \o FlattenSeq(turn)
            \o addChild(d, "templatedDecl") \o visitTop(d, "templatedDecl")
    BY DEF VisitTemplateDeclChildren
<1>4. Covers(FlattenSeq(turn), idsOf(d, "templateParameter"))
    <2>1. IsList(parameters)
        BY DEF IsDescription, ListGetters
    <2>2. idsOf(d, "templateParameter") = {parameters[i] : i \in DOMAIN parameters}
        BY DEF idsOf, Range
    <2> HIDE DEF turn, parameters
    <2> QED
        BY <1>1, <1>2, <2>1, <2>2, LoopOfCalls DEF Covers
<1> HIDE DEF turn
<1> QED
    BY <1>3, <1>4, NamedDecl, PointerCalls, ConcatenatedCalls DEF Covers, ids, DumpTemplateDeclData

LEMMA TemplateTemplateParmDecl ==
    ASSUME NEW d, IsDescription(d), MadeByClang(d), NoPack(d)
    PROVE  Covers(VisitTemplateTemplateParmDeclChildren(d), DumpTemplateTemplateParmDeclData(d))
BY TemplateDecl, Arguments, WhenCalls, ConcatenatedCalls
   DEF Covers, WhenIds, VisitTemplateTemplateParmDeclChildren, DumpTemplateTemplateParmDeclData

LEMMA TemplateTypeParmDecl ==
    ASSUME NEW d, IsDescription(d), MadeByClang(d)
    PROVE  Covers(VisitTemplateTypeParmDeclChildren(d), DumpTemplateTypeParmDeclData(d))
BY TypeDecl, PointerCalls, WhenCalls, ConcatenatedCalls
   DEF Covers, ids, WhenIds, VisitTemplateTypeParmDeclChildren, DumpTemplateTypeParmDeclData

LEMMA EnumConstantDecl ==
    ASSUME NEW d, IsDescription(d), MadeByClang(d)
    PROVE  Covers(VisitEnumConstantDeclChildren(d), DumpValueDeclData(d))
BY ValueDecl, PointerCalls, ConcatenatedCalls DEF Covers, VisitEnumConstantDeclChildren

LEMMA TypedefNameDecl ==
    ASSUME NEW d, IsDescription(d), MadeByClang(d)
    PROVE  Covers(VisitTypedefNameDeclChildren(d), DumpTypedefNameDeclData(d))
BY TypeDecl, PointerCalls, ConcatenatedCalls
   DEF Covers, ids, VisitTypedefNameDeclChildren, DumpTypedefNameDeclData

LEMMA UsingDirectiveDecl ==
    ASSUME NEW d, IsDescription(d), MadeByClang(d)
    PROVE  Covers(VisitUsingDirectiveDeclChildren(d), DumpUsingDirectiveDeclData(d))
BY NamedDecl, PointerCalls, ConcatenatedCalls
   DEF Covers, ids, VisitUsingDirectiveDeclChildren, DumpUsingDirectiveDeclData

LEMMA NamespaceDecl ==
    ASSUME NEW d, IsDescription(d), MadeByClang(d)
    PROVE  Covers(VisitNamespaceDeclChildren(d), DumpNamespaceDeclData(d))
BY NamedDecl, AddedChildren, ConcatenatedCalls
   DEF Covers, ListGetters, VisitNamespaceDeclChildren, DumpNamespaceDeclData

LEMMA FriendDecl ==
    ASSUME NEW d, IsDescription(d)
    PROVE  Covers(VisitFriendDeclChildren(d), DumpDeclData(d))
<1>1. IsCalls(IF d.one["friendDecl"] # Null THEN addChild(d, "friendDecl")
              ELSE IF d.one["friendType"] # Null THEN addChild(d, "friendType")
              ELSE Call("addChild", Null))
    BY PointerCalls, OneCall
<1> QED
    BY <1>1, Decl, ConcatenatedCalls DEF Covers, VisitFriendDeclChildren

LEMMA NamespaceAliasDecl ==
    ASSUME NEW d, IsDescription(d), MadeByClang(d)
    PROVE  Covers(VisitNamespaceAliasDeclChildren(d), DumpNamespaceAliasDeclData(d))
BY NamedDecl, PointerCalls, ConcatenatedCalls
   DEF Covers, ids, VisitNamespaceAliasDeclChildren, DumpNamespaceAliasDeclData

(* These handlers visit no attribute, and do not look at the language.      *)
LEMMA DeclWithoutAttr ==
    ASSUME NEW d, IsDescription(d), d.each["attr"] = <<>>
    PROVE  /\ d.is \cap LinkageLanguages # {} =>
                Covers(VisitLinkageSpecDeclChildren(d), DumpLinkageSpecDeclData(d))
           /\ Covers(VisitStaticAssertDeclChildren(d), DumpStaticAssertDeclData(d))
<1>1. DumpDeclData(d) = {}
    BY DEF DumpDeclData, idsOf, Range
<1>2. IsCalls(VisitLinkageSpecDeclChildren(d)) /\ IsCalls(VisitStaticAssertDeclChildren(d))
    BY AddedChildren, PointerCalls, ConcatenatedCalls
       DEF ListGetters, VisitLinkageSpecDeclChildren, VisitStaticAssertDeclChildren
<1> QED
    BY <1>1, <1>2
    DEF Covers, DumpLinkageSpecDeclData, dumpLinkageLanguage, DumpStaticAssertDeclData

LEMMA NonTypeTemplateParmDecl ==
    ASSUME NEW d, IsDescription(d), MadeByClang(d)
    PROVE  Covers(VisitNonTypeTemplateParmDeclChildren(d), DumpNonTypeTemplateParmDeclData(d))
BY ValueDecl, PointerCalls, WhenCalls, LoopLists, ConcatenatedCalls
   DEF Covers, ids, WhenIds, ListGetters, DumpDeclaratorDeclData,
       VisitNonTypeTemplateParmDeclChildren, DumpNonTypeTemplateParmDeclData

LEMMA UsingDecl ==
    ASSUME NEW d, IsDescription(d), MadeByClang(d)
    PROVE  Covers(VisitUsingDeclChildren(d), DumpUsingDeclData(d))
<1>1. IsCalls(VisitNestedNameSpecifierChildren(d))
    BY PointerCalls, OneCall, NoCalls DEF VisitNestedNameSpecifierChildren, notImplemented
<1>2. dumpNestedNameSpecifier(d) \subseteq Covered(VisitNestedNameSpecifierChildren(d))
    BY PointerCalls, OneCall, NoCalls
       DEF ids, VisitNestedNameSpecifierChildren, dumpNestedNameSpecifier, notImplemented
<1> QED
    BY <1>1, <1>2, NamedDecl, ConcatenatedCalls DEF Covers, VisitUsingDeclChildren, DumpUsingDeclData

-----------------------------------------------------------------------------

(* Expressions, statements.                                                 *)
LEMMA SubStatements ==
    ASSUME NEW d, IsDescription(d)
    PROVE  IsCalls(VisitStmtChildren(d))
<1> DEFINE turn == [i \in DOMAIN d.each["subStmt"] |-> IF d.each["subStmt"][i] = Null
                                                       THEN <<>>
                                                       ELSE Call("addChild", d.each["subStmt"][i])]
<1>1. turn = [i \in DOMAIN turn |-> turn[i]] /\ DOMAIN turn = DOMAIN d.each["subStmt"]
    OBVIOUS
<1>2. \A i \in DOMAIN d.each["subStmt"] : IsCalls(turn[i])
    BY NoCalls, OneCall
<1>3. VisitStmtChildren(d) = FlattenSeq(turn)
    BY DEF VisitStmtChildren
<1>4. IsList(d.each["subStmt"])
    BY DEF IsDescription, ListGetters
<1> HIDE DEF turn
<1> QED
    BY <1>1, <1>2, <1>3, <1>4, LoopOfCalls

LEMMA Expr ==
    ASSUME NEW d, IsDescription(d)
    PROVE  Covers(VisitExprChildren(d), DumpExprData(d))
BY SubStatements, PointerCalls, ConcatenatedCalls
   DEF Covers, ids, VisitExprChildren, DumpExprData, DumpStmtData

LEMMA InitListExpr ==
    ASSUME NEW d, IsDescription(d)
    PROVE  Covers(VisitInitListExprChildren(d), DumpInitListExprData(d))
BY Expr, PointerCalls, ConcatenatedCalls
   DEF Covers, ids, VisitInitListExprChildren, DumpInitListExprData

LEMMA MemberExpr ==
    ASSUME NEW d, IsDescription(d)
    PROVE  Covers(VisitMemberExprChildren(d), DumpMemberExprData(d))
BY Expr, PointerCalls, ConcatenatedCalls
   DEF Covers, ids, VisitMemberExprChildren, DumpMemberExprData

LEMMA MaterializeTemporaryExpr ==
    ASSUME NEW d, IsDescription(d)
    PROVE  Covers(VisitMaterializeTemporaryExprChildren(d), DumpMaterializeTemporaryExprData(d))
BY Expr, PointerCalls, ConcatenatedCalls
   DEF Covers, ids, VisitMaterializeTemporaryExprChildren, DumpMaterializeTemporaryExprData

LEMMA CallExpr ==
    ASSUME NEW d, IsDescription(d)
    PROVE  Covers(VisitCallExprChildren(d), DumpCallExprData(d))
BY Expr, PointerCalls, ConcatenatedCalls DEF Covers, ids, VisitCallExprChildren, DumpCallExprData

LEMMA CXXNewExpr ==
    ASSUME NEW d, IsDescription(d)
    PROVE  Covers(VisitCXXNewExprChildren(d), DumpCXXNewExprData(d))
BY Expr, PointerCalls, ConcatenatedCalls
   DEF Covers, ids, VisitCXXNewExprChildren, DumpCXXNewExprData

LEMMA CXXDeleteExpr ==
    ASSUME NEW d, IsDescription(d)
    PROVE  Covers(VisitCXXDeleteExprChildren(d), DumpCXXDeleteExprData(d))
BY Expr, PointerCalls, ConcatenatedCalls
   DEF Covers, ids, VisitCXXDeleteExprChildren, DumpCXXDeleteExprData

LEMMA LambdaExpr ==
    ASSUME NEW d, IsDescription(d)
    PROVE  Covers(VisitLambdaExprChildren(d), DumpLambdaExprData(d))
BY Expr, PointerCalls, ConcatenatedCalls
   DEF Covers, ids, VisitLambdaExprChildren, DumpLambdaExprData

LEMMA CXXConstructExpr ==
    ASSUME NEW d, IsDescription(d)
    PROVE  Covers(VisitCXXConstructExprChildren(d), DumpCXXConstructExprData(d))
BY Expr, PointerCalls, ConcatenatedCalls
   DEF Covers, ids, VisitCXXConstructExprChildren, DumpCXXConstructExprData

LEMMA CXXPseudoDestructorExpr ==
    ASSUME NEW d, IsDescription(d)
    PROVE  Covers(VisitCXXPseudoDestructorExprChildren(d), DumpCXXPseudoDestructorExprData(d))
BY Expr, PointerCalls, ConcatenatedCalls
   DEF Covers, ids, VisitCXXPseudoDestructorExprChildren, DumpCXXPseudoDestructorExprData

LEMMA MSPropertyRefExpr ==
    ASSUME NEW d, IsDescription(d)
    PROVE  Covers(VisitMSPropertyRefExprChildren(d), DumpMSPropertyRefExprData(d))
BY Expr, PointerCalls, ConcatenatedCalls
   DEF Covers, ids, VisitMSPropertyRefExprChildren, DumpMSPropertyRefExprData

LEMMA CXXTypeidExpr ==
    ASSUME NEW d, IsDescription(d)
    PROVE  Covers(VisitCXXTypeidExprChildren(d), DumpCXXTypeidExprData(d))
BY Expr, PointerCalls, ConcatenatedCalls
   DEF Covers, ids, VisitCXXTypeidExprChildren, DumpCXXTypeidExprData

LEMMA CXXMemberCallExpr ==
    ASSUME NEW d, IsDescription(d)
    PROVE  Covers(VisitCXXMemberCallExprChildren(d), DumpCXXMemberCallExprData(d))
BY CallExpr, PointerCalls, ConcatenatedCalls
   DEF Covers, ids, VisitCXXMemberCallExprChildren, DumpCXXMemberCallExprData

LEMMA ExplicitCastExpr ==
    ASSUME NEW d, IsDescription(d)
    PROVE  Covers(VisitExplicitCastExprChildren(d), DumpExplicitCastExprData(d))
BY Expr, PointerCalls, ConcatenatedCalls
   DEF Covers, ids, VisitExplicitCastExprChildren, DumpExplicitCastExprData, DumpCastExprData

LEMMA OpaqueValueExpr ==
    ASSUME NEW d, IsDescription(d)
    PROVE  Covers(VisitOpaqueValueExprChildren(d), DumpExprData(d))
BY Expr, PointerCalls, ConcatenatedCalls DEF Covers, VisitOpaqueValueExprChildren

LEMMA UnaryExprOrTypeTraitExpr ==
    ASSUME NEW d, IsDescription(d)
    PROVE  Covers(VisitUnaryExprOrTypeTraitExprChildren(d), DumpUnaryExprOrTypeTraitExprData(d))
BY Expr, PointerCalls, WhenCalls, ConcatenatedCalls
   DEF Covers, ids, WhenIds, VisitUnaryExprOrTypeTraitExprChildren, DumpUnaryExprOrTypeTraitExprData

LEMMA TemplateArguments ==
    ASSUME NEW d, IsDescription(d), MadeByClang(d), NoPack(d)
    PROVE  Covers(visitTemplateArguments(d), dumpTemplateArguments(d))
BY Arguments, NoCalls DEF Covers, WhenIds, visitTemplateArguments, dumpTemplateArguments

LEMMA DeclRefExpr ==
    ASSUME NEW d, IsDescription(d), MadeByClang(d), NoPack(d)
    PROVE  Covers(VisitDeclRefExprChildren(d), DumpDeclRefExprData(d))
BY Expr, TemplateArguments, PointerCalls, ConcatenatedCalls
   DEF Covers, ids, VisitDeclRefExprChildren, DumpDeclRefExprData

LEMMA DependentScopeDeclRefExpr ==
    ASSUME NEW d, IsDescription(d), MadeByClang(d), NoPack(d)
    PROVE  Covers(VisitDependentScopeDeclRefExprChildren(d), DumpDependentScopeDeclRefExprData(d))
BY Expr, TemplateArguments, ConcatenatedCalls
   DEF Covers, VisitDependentScopeDeclRefExprChildren, DumpDependentScopeDeclRefExprData

LEMMA CXXDependentScopeMemberExpr ==
    ASSUME NEW d, IsDescription(d), MadeByClang(d), NoPack(d)
    PROVE  Covers(VisitCXXDependentScopeMemberExprChildren(d), DumpCXXDependentScopeMemberExprData(d))
BY Expr, TemplateArguments, ConcatenatedCalls
   DEF Covers, VisitCXXDependentScopeMemberExprChildren, DumpCXXDependentScopeMemberExprData

LEMMA OverloadExpr ==
    ASSUME NEW d, IsDescription(d), MadeByClang(d), NoPack(d)
    PROVE  Covers(VisitOverloadExprChildren(d), DumpOverloadExprData(d))
BY Expr, TemplateArguments, LoopLists, ConcatenatedCalls
   DEF Covers, ListGetters, VisitOverloadExprChildren, DumpOverloadExprData

LEMMA SizeOfPackExpr ==
    ASSUME NEW d, IsDescription(d), MadeByClang(d), NoPack(d)
    PROVE  Covers(VisitSizeOfPackExprChildren(d), DumpSizeOfPackExprData(d))
BY Expr, Arguments, PointerCalls, WhenCalls, ConcatenatedCalls
   DEF Covers, ids, WhenIds, VisitSizeOfPackExprChildren, DumpSizeOfPackExprData

LEMMA OffsetOfComponent ==
    ASSUME NEW node
    PROVE  Covers(visitOffsetOfComponent(node), dumpOffsetOfComponent(node))
<1>1. Covers(IF node.is \cap OffsetOfKinds = {} THEN notImplemented ELSE <<>>,
             IF node.is \cap OffsetOfKinds = {} THEN notDumped ELSE {})
    BY OneCall, NoCalls DEF Covers, notImplemented
<1> QED
    BY <1>1, PointerCalls, WhenCalls, ConcatenatedCalls
       DEF Covers, ids, WhenIds, visitOffsetOfComponent, dumpOffsetOfComponent

(* With a qualified type the handler visits another type than the dumper    *)
(* writes.                                                                  *)
LEMMA OffsetOfExpr ==
    ASSUME NEW d, IsDescription(d), ~ ("qualified" \in d.is)
    PROVE  Covers(VisitOffsetOfExprChildren(d), DumpOffsetOfExprData(d))
<1> DEFINE turn == [i \in DOMAIN d.parts |-> visitOffsetOfComponent(d.parts[i])]
<1>1. turn = [i \in DOMAIN turn |-> turn[i]] /\ DOMAIN turn = DOMAIN d.parts
    OBVIOUS
<1>2. \A i \in DOMAIN d.parts : Covers(turn[i], dumpOffsetOfComponent(d.parts[i]))
    BY OffsetOfComponent
<1>3. VisitOffsetOfExprChildren(d)
        = VisitExprChildren(d) \o visitTop(d, "offsetType") \o FlattenSeq(turn)
    BY DEF VisitOffsetOfExprChildren
<1>4. /\ IsCalls(FlattenSeq(turn))
      /\ \A i \in DOMAIN d.parts : dumpOffsetOfComponent(d.parts[i]) \subseteq Covered(FlattenSeq(turn))
    <2>1. IsList(d.parts)
        BY DEF IsDescription
    <2> HIDE DEF turn
    <2> QED
        BY <1>1, <1>2, <2>1, LoopOfCalls DEF Covers
<1> HIDE DEF turn
<1> QED
    BY <1>3, <1>4, Expr, PointerCalls, ConcatenatedCalls DEF Covers, ids, DumpOffsetOfExprData

(* The handler does not look at the designators.                            *)
LEMMA DesignatedInitExpr ==
    ASSUME NEW d, IsDescription(d), \A i \in DOMAIN d.parts : d.parts[i].is \cap DesignatorKinds # {}
    PROVE  Covers(VisitDesignatedInitExprChildren(d), DumpDesignatedInitExprData(d))
<1>1. \A i \in DOMAIN d.parts : dumpDesignator(d.parts[i]) = {}
    BY DEF dumpDesignator
<1>2. DumpDesignatedInitExprData(d) = DumpExprData(d)
    BY <1>1 DEF DumpDesignatedInitExprData
<1> QED
    BY <1>2, Expr DEF VisitDesignatedInitExprChildren

(* Statements write few ids: most handlers only have to return.             *)
LEMMA OrdinaryStatements ==
    ASSUME NEW d, IsDescription(d)
    PROVE  /\ IsCalls(VisitDeclStmtChildren(d))
           /\ IsCalls(VisitIfStmtChildren(d))
           /\ IsCalls(VisitForStmtChildren(d))
           /\ IsCalls(VisitWhileStmtChildren(d))
           /\ IsCalls(VisitDoStmtChildren(d))
           /\ IsCalls(VisitCXXForRangeStmtChildren(d))
           /\ IsCalls(VisitCXXCatchStmtChildren(d))
           /\ IsCalls(VisitCXXTryStmtChildren(d))
           /\ IsCalls(VisitCaseStmtChildren(d))
           /\ IsCalls(VisitDefaultStmtChildren(d))
           /\ IsCalls(VisitCapturedStmtChildren(d))
<1>1. IsCalls(VisitDeclStmtChildren(d)) /\ IsCalls(VisitCXXTryStmtChildren(d))
    BY LoopLists, PointerCalls, ConcatenatedCalls
       DEF ListGetters, VisitDeclStmtChildren, VisitCXXTryStmtChildren
<1>2. /\ IsCalls(VisitIfStmtChildren(d))
      /\ IsCalls(VisitForStmtChildren(d))
      /\ IsCalls(VisitWhileStmtChildren(d))
      /\ IsCalls(VisitDoStmtChildren(d))
      /\ IsCalls(VisitCXXForRangeStmtChildren(d))
    BY PointerCalls, ConcatenatedCalls
       DEF VisitIfStmtChildren, VisitForStmtChildren, VisitWhileStmtChildren, VisitDoStmtChildren,
           VisitCXXForRangeStmtChildren
<1>3. /\ IsCalls(VisitCXXCatchStmtChildren(d))
      /\ IsCalls(VisitCaseStmtChildren(d))
      /\ IsCalls(VisitDefaultStmtChildren(d))
      /\ IsCalls(VisitCapturedStmtChildren(d))
    BY PointerCalls, ConcatenatedCalls
       DEF VisitCXXCatchStmtChildren, VisitCaseStmtChildren, VisitDefaultStmtChildren,
           VisitCapturedStmtChildren
<1> QED
    BY <1>1, <1>2, <1>3

LEMMA ReferringStatements ==
    ASSUME NEW d, IsDescription(d)
    PROVE  /\ Covers(VisitGotoStmtChildren(d), DumpGotoStmtData(d))
           /\ Covers(VisitLabelStmtChildren(d), DumpLabelStmtData(d))
           /\ Covers(VisitAttributedStmtChildren(d), DumpAttributedStmtData(d))
<1>1. Covers(VisitGotoStmtChildren(d), DumpGotoStmtData(d))
    BY PointerCalls DEF Covers, ids, VisitGotoStmtChildren, DumpGotoStmtData, DumpStmtData
<1>2. Covers(VisitLabelStmtChildren(d), DumpLabelStmtData(d))
    BY PointerCalls, ConcatenatedCalls
       DEF Covers, ids, VisitLabelStmtChildren, DumpLabelStmtData, DumpStmtData
<1>3. Covers(VisitAttributedStmtChildren(d), DumpAttributedStmtData(d))
    BY LoopLists, PointerCalls, ConcatenatedCalls
       DEF Covers, ListGetters, VisitAttributedStmtChildren, DumpAttributedStmtData, DumpStmtData
<1> QED
    BY <1>1, <1>2, <1>3

-----------------------------------------------------------------------------

(* Types and attributes.                                                    *)
LEMMA Type ==
    ASSUME NEW d
    PROVE  Covers(VisitTypeChildren(d), DumpTypeData(d))
BY PointerCalls DEF Covers, ids, VisitTypeChildren, DumpTypeData

LEMMA FunctionType ==
    ASSUME NEW d, IsDescription(d)
    PROVE  Covers(VisitFunctionTypeChildren(d), DumpFunctionTypeData(d))
BY Type, PointerCalls, ConcatenatedCalls
   DEF Covers, ids, VisitFunctionTypeChildren, DumpFunctionTypeData

LEMMA FunctionProtoType ==
    ASSUME NEW d, IsDescription(d)
    PROVE  Covers(VisitFunctionProtoTypeChildren(d), DumpFunctionProtoTypeData(d))
BY FunctionType, PointerCalls, LoopLists, ConcatenatedCalls
   DEF Covers, ids, WhenIds, ListGetters, VisitFunctionProtoTypeChildren, DumpFunctionProtoTypeData

LEMMA TagType ==
    ASSUME NEW d, IsDescription(d)
    PROVE  Covers(VisitTagTypeChildren(d), DumpTagTypeData(d))
BY Type, PointerCalls, ConcatenatedCalls DEF Covers, ids, VisitTagTypeChildren, DumpTagTypeData

LEMMA ArrayType ==
    ASSUME NEW d, IsDescription(d)
    PROVE  Covers(VisitArrayTypeChildren(d), DumpArrayTypeData(d))
BY Type, PointerCalls, ConcatenatedCalls DEF Covers, ids, VisitArrayTypeChildren, DumpArrayTypeData

LEMMA VariableSizeArrayType ==
    ASSUME NEW d, IsDescription(d)
    PROVE  Covers(visitArrayTypeWithSizeExpr(d), dumpVariableSizeArrayTypeData(d))
BY ArrayType, PointerCalls, ConcatenatedCalls
   DEF Covers, ids, visitArrayTypeWithSizeExpr, dumpVariableSizeArrayTypeData

LEMMA TypeWithDecl ==
    ASSUME NEW d, IsDescription(d)
    PROVE  Covers(visitTypeWithDecl(d), DumpTemplateTypeParmTypeData(d))
BY Type, PointerCalls, ConcatenatedCalls
   DEF Covers, ids, visitTypeWithDecl, DumpTemplateTypeParmTypeData

LEMMA TypeWithUnderlyingExpr ==
    ASSUME NEW d, IsDescription(d)
    PROVE  Covers(visitTypeWithUnderlyingExpr(d), dumpExprTypeData(d))
BY Type, PointerCalls, ConcatenatedCalls
   DEF Covers, ids, visitTypeWithUnderlyingExpr, dumpExprTypeData

LEMMA PointerType ==
    ASSUME NEW d, IsDescription(d)
    PROVE  Covers(VisitPointerTypeChildren(d), DumpPointerTypeData(d))
BY Type, PointerCalls, ConcatenatedCalls
   DEF Covers, ids, VisitPointerTypeChildren, DumpPointerTypeData

LEMMA ElaboratedType ==
    ASSUME NEW d, IsDescription(d)
    PROVE  Covers(VisitElaboratedTypeChildren(d), DumpElaboratedTypeData(d))
BY Type, PointerCalls, ConcatenatedCalls
   DEF Covers, ids, VisitElaboratedTypeChildren, DumpElaboratedTypeData

LEMMA SubstTemplateTypeParmType ==
    ASSUME NEW d, IsDescription(d)
    PROVE  Covers(VisitSubstTemplateTypeParmTypeChildren(d), DumpSubstTemplateTypeParmTypeData(d))
BY Type, PointerCalls, ConcatenatedCalls
   DEF Covers, ids, VisitSubstTemplateTypeParmTypeChildren, DumpSubstTemplateTypeParmTypeData

LEMMA TypedefType ==
    ASSUME NEW d, IsDescription(d)
    PROVE  Covers(VisitTypedefTypeChildren(d), DumpTypedefTypeData(d))
BY Type, PointerCalls, ConcatenatedCalls
   DEF Covers, ids, VisitTypedefTypeChildren, DumpTypedefTypeData

LEMMA AdjustedType ==
    ASSUME NEW d, IsDescription(d)
    PROVE  Covers(VisitAdjustedTypeChildren(d), DumpAdjustedTypeData(d))
BY Type, PointerCalls, ConcatenatedCalls
   DEF Covers, ids, VisitAdjustedTypeChildren, DumpAdjustedTypeData

LEMMA AutoType ==
    ASSUME NEW d, IsDescription(d)
    PROVE  Covers(VisitAutoTypeChildren(d), DumpAutoTypeData(d))
BY Type, PointerCalls, ConcatenatedCalls DEF Covers, ids, VisitAutoTypeChildren, DumpAutoTypeData

LEMMA PackExpansionType ==
    ASSUME NEW d, IsDescription(d)
    PROVE  Covers(VisitPackExpansionTypeChildren(d), DumpPackExpansionTypeData(d))
BY Type, PointerCalls, ConcatenatedCalls
   DEF Covers, ids, VisitPackExpansionTypeChildren, DumpPackExpansionTypeData

LEMMA AttributedType ==
    ASSUME NEW d, IsDescription(d)
    PROVE  Covers(VisitAttributedTypeChildren(d), DumpAttributedTypeData(d))
BY Type, PointerCalls, ConcatenatedCalls
   DEF Covers, ids, VisitAttributedTypeChildren, DumpAttributedTypeData

LEMMA UnaryTransformType ==
    ASSUME NEW d, IsDescription(d)
    PROVE  Covers(VisitUnaryTransformTypeChildren(d), DumpUnaryTransformTypeData(d))
BY Type, PointerCalls, ConcatenatedCalls
   DEF Covers, ids, VisitUnaryTransformTypeChildren, DumpUnaryTransformTypeData

LEMMA ComplexType ==
    ASSUME NEW d, IsDescription(d)
    PROVE  Covers(VisitComplexTypeChildren(d), DumpComplexTypeData(d))
BY Type, PointerCalls, ConcatenatedCalls
   DEF Covers, ids, VisitComplexTypeChildren, DumpComplexTypeData

LEMMA DecayedType ==
    ASSUME NEW d, IsDescription(d)
    PROVE  Covers(VisitDecayedTypeChildren(d), DumpDecayedTypeData(d))
BY AdjustedType, PointerCalls, ConcatenatedCalls
   DEF Covers, ids, VisitDecayedTypeChildren, DumpDecayedTypeData

LEMMA TemplateSpecializationType ==
    ASSUME NEW d, IsDescription(d), MadeByClang(d)
    PROVE  Covers(VisitTemplateSpecializationTypeChildren(d), DumpTemplateSpecializationTypeData(d))
<1>1. Covers(visitArgumentsExpanded(d.args), dumpArguments(d.args))
    BY ExpandedArguments DEF IsDescription, MadeByClang
<1> QED
    BY <1>1, Type, PointerCalls, WhenCalls, ConcatenatedCalls
       DEF Covers, ids, WhenIds,
           VisitTemplateSpecializationTypeChildren, DumpTemplateSpecializationTypeData

(* A reference to a reference mentions a type that another one leads to.    *)
LEMMA ReferenceType ==
    ASSUME NEW d, IsDescription(d)
    PROVE  LET covered == Covered(VisitReferenceTypeChildren(d))
               written == DumpReferenceTypeData(d)
           IN  /\ IsCalls(VisitReferenceTypeChildren(d))
               /\ d.one["singleStepDesugar"] \in covered
               /\ IF "innerReference" \in d.is
                  THEN /\ d.one["pointeeTypeAsWritten"] \in covered
                       /\ written \subseteq covered \cup {d.one["pointeeType"]}
                  ELSE written \subseteq covered
<1>1. CASE "innerReference" \in d.is
    BY <1>1, Type, PointerCalls, ConcatenatedCalls
       DEF Covers, ids, VisitReferenceTypeChildren, DumpReferenceTypeData, DumpTypeData
<1>2. CASE ~ ("innerReference" \in d.is)
    BY <1>2, Type, PointerCalls, ConcatenatedCalls
       DEF Covers, ids, VisitReferenceTypeChildren, DumpReferenceTypeData, DumpTypeData
<1> QED
    BY <1>1, <1>2

(* The desugared type of a qualified type is left to its unqualified type.  *)
LEMMA QualType ==
    ASSUME NEW d, IsDescription(d)
    PROVE  /\ IsCalls(visitQualTypeChildren(d))
           /\ d.one["typePtr"] \in Covered(visitQualTypeChildren(d))
           /\ dumpQualTypeData(d)
                \subseteq Covered(visitQualTypeChildren(d)) \cup {d.one["singleStepDesugar"]}
BY PointerCalls, ConcatenatedCalls DEF ids, visitQualTypeChildren, dumpQualTypeData, DumpTypeData

LEMMA Attr ==
    ASSUME NEW d, NEW class
    PROVE  Covers(visitAttrChildren(class, d), dumpAttrData(class, d))
BY PointerCalls, NoCalls
   DEF Covers, ids, visitAttrChildren, dumpAttrData, VisitAlignedAttrChildren, DumpAlignedAttrData

(* The dispatch tables: declarations.                                       *)
LEMMA DeclDispatch ==
    ASSUME NEW d, NEW class, class = d.class, IsDescription(d), MadeByClang(d), NoPack(d),
           ~ (class \in DeclsWithoutVisitor),
           class \in DeclsWithoutAttr => d.each["attr"] = <<>>
    PROVE  Covers(visitDeclChildren(class, d), dumpDeclData(class, d))
<1> USE DEF visitDeclChildren, DECL_CHILDREN_VISITORS, dumpDeclData, DECL_DATA_DUMPERS
<1>1. CASE class = "CXXConstructorDecl"
    BY <1>1, CXXConstructorDecl
<1>2. CASE class = "CXXConversionDecl"
    BY <1>2, CXXConversionDecl
<1>3. CASE class \in {"CXXDestructorDecl", "CXXMethodDecl"}
    BY <1>3, CXXMethodDecl
<1>4. CASE class = "EnumDecl"
    BY <1>4, EnumDecl
<1>5. CASE class = "RecordDecl"
    BY <1>5, RecordDecl
<1>6. CASE class = "CXXRecordDecl"
    BY <1>6, CXXRecordDecl
<1>7. CASE class = "ClassTemplateSpecializationDecl"
    BY <1>7, ClassTemplateSpecializationDecl
<1>8. CASE class = "ClassTemplatePartialSpecializationDecl"
    BY <1>8, ClassTemplateSpecializationDecl DEF DumpClassTemplatePartialSpecializationDeclData
<1>9. CASE class = "FunctionDecl"
    BY <1>9, FunctionDecl
<1>10. CASE class \in {"VarDecl", "VarTemplateSpecializationDecl"}
    BY <1>10, VarDecl
<1>11. CASE class = "ParmVarDecl"
    BY <1>11, VarDecl DEF DumpParmVarDeclData
<1>12. CASE class = "TypeDecl"
    BY <1>12, TypeDecl
<1>13. CASE class = "FieldDecl"
    BY <1>13, FieldDecl
<1>14. CASE class \in {"ClassTemplateDecl", "FunctionTemplateDecl", "TypeAliasTemplateDecl",
            "VarTemplateDecl"}
    BY <1>14, TemplateDecl
<1>15. CASE class = "TemplateTemplateParmDecl"
    BY <1>15, TemplateTemplateParmDecl
<1>16. CASE class = "TemplateTypeParmDecl"
    BY <1>16, TemplateTypeParmDecl
<1>17. CASE class = "EnumConstantDecl"
    BY <1>17, EnumConstantDecl
<1>18. CASE class \in {"TypeAliasDecl", "TypedefDecl"}
    BY <1>18, TypedefNameDecl
<1>19. CASE class = "UsingDirectiveDecl"
    BY <1>19, UsingDirectiveDecl
<1>20. CASE class = "NamespaceDecl"
    BY <1>20, NamespaceDecl
<1>21. CASE class = "FriendDecl"
    BY <1>21, FriendDecl
<1>22. CASE class = "NamespaceAliasDecl"
    BY <1>22, NamespaceAliasDecl
<1>23. CASE class = "LinkageSpecDecl"
    BY <1>23, DeclWithoutAttr DEF DeclsWithoutAttr, MadeByClang
<1>24. CASE class = "StaticAssertDecl"
    BY <1>24, DeclWithoutAttr DEF DeclsWithoutAttr
<1>25. CASE class = "NonTypeTemplateParmDecl"
    BY <1>25, NonTypeTemplateParmDecl
<1>26. CASE class = "UsingDecl"
    BY <1>26, UsingDecl
<1>27. CASE class \in {"ObjCImplementationDecl", "UsingShadowDecl", "LabelDecl"}
    BY <1>27, NamedDecl DEF VisitNamedDeclChildren
<1>28. CASE class = "AccessSpecDecl"
    BY <1>28, Decl DEF DumpAccessSpecDeclData
<1>29. CASE ~ (class \in DOMAIN DECL_CHILDREN_VISITORS(d) \cup DOMAIN DECL_DATA_DUMPERS(d))
    BY <1>29, Decl
<1> QED
    BY <1>1, <1>2, <1>3, <1>4, <1>5, <1>6, <1>7, <1>8, <1>9, <1>10, <1>11, <1>12, <1>13, <1>14,
       <1>15, <1>16, <1>17, <1>18, <1>19, <1>20, <1>21, <1>22, <1>23, <1>24, <1>25, <1>26,
       <1>27, <1>28, <1>29 DEF DeclsWithoutVisitor

LEMMA InjectedClassNameType ==
    ASSUME NEW d
    PROVE  Covers(visitTypeWithDecl(d), DumpTypeData(d))
BY Type, PointerCalls, ConcatenatedCalls DEF Covers, visitTypeWithDecl

(* Statements.                                                              *)
LEMMA StmtDispatch ==
    ASSUME NEW d, NEW class, IsDescription(d), ~ (class \in AsmStmts)
    PROVE  Covers(visitStmtChildren(class, d), dumpStmtData(class, d))
<1> USE DEF visitStmtChildren, STMT_CHILDREN_VISITORS, dumpStmtData, STMT_DATA_DUMPERS
<1>1. CASE class = "DeclStmt"
    BY <1>1, OrdinaryStatements DEF DumpStmtData, Covers
<1>2. CASE class = "IfStmt"
    BY <1>2, OrdinaryStatements DEF DumpStmtData, Covers
<1>3. CASE class = "ForStmt"
    BY <1>3, OrdinaryStatements DEF DumpStmtData, Covers
<1>4. CASE class = "WhileStmt"
    BY <1>4, OrdinaryStatements DEF DumpStmtData, Covers
<1>5. CASE class = "DoStmt"
    BY <1>5, OrdinaryStatements DEF DumpStmtData, Covers
<1>6. CASE class = "CXXForRangeStmt"
    BY <1>6, OrdinaryStatements DEF DumpStmtData, Covers
<1>7. CASE class = "CXXCatchStmt"
    BY <1>7, OrdinaryStatements DEF DumpStmtData, Covers
<1>8. CASE class = "CXXTryStmt"
    BY <1>8, OrdinaryStatements DEF DumpStmtData, Covers
<1>9. CASE class = "CaseStmt"
    BY <1>9, OrdinaryStatements DEF DumpStmtData, Covers
<1>10. CASE class = "DefaultStmt"
    BY <1>10, OrdinaryStatements DEF DumpStmtData, Covers
<1>11. CASE class = "GotoStmt"
    BY <1>11, ReferringStatements
<1>12. CASE class = "LabelStmt"
    BY <1>12, ReferringStatements
<1>13. CASE class = "AttributedStmt"
    BY <1>13, ReferringStatements
<1>14. CASE class = "CapturedStmt"
    BY <1>14, OrdinaryStatements DEF DumpStmtData, Covers
<1>15. CASE ~ (class \in DOMAIN STMT_CHILDREN_VISITORS(d) \cup DOMAIN STMT_DATA_DUMPERS(d))
    BY <1>15, SubStatements DEF DumpStmtData, Covers
<1> QED
    BY <1>1, <1>2, <1>3, <1>4, <1>5, <1>6, <1>7, <1>8, <1>9, <1>10, <1>11, <1>12, <1>13, <1>14,
       <1>15 DEF AsmStmts

(* Expressions.                                                             *)
LEMMA ExprDispatch ==
    ASSUME NEW d, NEW class, class = d.class, IsDescription(d), MadeByClang(d), NoPack(d),
           ~ (class \in CastsWithoutVisitor),
           class = "OffsetOfExpr" => ~ ("qualified" \in d.is)
    PROVE  Covers(visitExprChildren(class, d), dumpExprData(class, d))
<1> USE DEF visitExprChildren, EXPR_CHILDREN_VISITORS, dumpExprData, EXPR_DATA_DUMPERS, ValueExprs
<1>1. CASE class = "InitListExpr"
    BY <1>1, InitListExpr
<1>2. CASE class = "DeclRefExpr"
    BY <1>2, DeclRefExpr
<1>3. CASE class = "DependentScopeDeclRefExpr"
    BY <1>3, DependentScopeDeclRefExpr
<1>4. CASE class = "OffsetOfExpr"
    BY <1>4, OffsetOfExpr
<1>5. CASE class = "MemberExpr"
    BY <1>5, MemberExpr
<1>6. CASE class = "MaterializeTemporaryExpr"
    BY <1>6, MaterializeTemporaryExpr
<1>7. CASE class \in {"UnresolvedLookupExpr", "UnresolvedMemberExpr"}
    BY <1>7, OverloadExpr
<1>8. CASE class \in {"CallExpr", "CXXOperatorCallExpr", "UserDefinedLiteral"}
    BY <1>8, CallExpr
<1>9. CASE class = "CXXMemberCallExpr"
    BY <1>9, CXXMemberCallExpr
<1>10. CASE class = "CXXTypeidExpr"
    BY <1>10, CXXTypeidExpr
<1>11. CASE class = "CStyleCastExpr"
    BY <1>11, ExplicitCastExpr
<1>12. CASE class \in {"CXXConstCastExpr", "CXXReinterpretCastExpr", "CXXStaticCastExpr"}
    BY <1>12, ExplicitCastExpr DEF DumpCXXNamedCastExprData
<1>13. CASE class = "OpaqueValueExpr"
    BY <1>13, OpaqueValueExpr
<1>14. CASE class = "CXXNewExpr"
    BY <1>14, CXXNewExpr
<1>15. CASE class = "CXXDeleteExpr"
    BY <1>15, CXXDeleteExpr
<1>16. CASE class = "LambdaExpr"
    BY <1>16, LambdaExpr
<1>17. CASE class = "SizeOfPackExpr"
    BY <1>17, SizeOfPackExpr
<1>18. CASE class = "UnaryExprOrTypeTraitExpr"
    BY <1>18, UnaryExprOrTypeTraitExpr
<1>19. CASE class = "DesignatedInitExpr"
    BY <1>19, DesignatedInitExpr DEF MadeByClang
<1>20. CASE class = "CXXConstructExpr"
    BY <1>20, CXXConstructExpr
<1>21. CASE class = "CXXTemporaryObjectExpr"
    BY <1>21, CXXConstructExpr DEF VisitCXXTemporaryObjectExprChildren
<1>22. CASE class = "CXXDependentScopeMemberExpr"
    BY <1>22, CXXDependentScopeMemberExpr
<1>23. CASE class = "CXXPseudoDestructorExpr"
    BY <1>23, CXXPseudoDestructorExpr
<1>24. CASE class = "MSPropertyRefExpr"
    BY <1>24, MSPropertyRefExpr
<1>25. CASE class \in {"CastExpr", "CXXFunctionalCastExpr"}
    BY <1>25, Expr DEF DumpCastExprData
<1>26. CASE ~ (class \in DOMAIN EXPR_CHILDREN_VISITORS(d) \cup DOMAIN EXPR_DATA_DUMPERS(d))
    BY <1>26, Expr DEF DumpValueExprData
<1> QED
    BY <1>1, <1>2, <1>3, <1>4, <1>5, <1>6, <1>7, <1>8, <1>9, <1>10, <1>11, <1>12, <1>13, <1>14,
       <1>15, <1>16, <1>17, <1>18, <1>19, <1>20, <1>21, <1>22, <1>23, <1>24, <1>25, <1>26
    DEF CastsWithoutVisitor

(* Types, references left aside.                                            *)
LEMMA TypeDispatch ==
    ASSUME NEW d, NEW class, IsDescription(d), MadeByClang(d),
           class = "TemplateSpecializationType" \/ NoPack(d),
           ~ (class \in {"LValueReferenceType", "RValueReferenceType"})
    PROVE  Covers(visitTypeChildren(class, d), dumpTypeData(class, d))
<1> USE DEF visitTypeChildren, TYPE_CHILDREN_VISITORS, dumpTypeData, TYPE_DATA_DUMPERS
<1>1. CASE class = "FunctionProtoType"
    BY <1>1, FunctionProtoType
<1>2. CASE class = "FunctionNoProtoType"
    BY <1>2, FunctionType
<1>3. CASE class = "ConstantArrayType"
    BY <1>3, ArrayType DEF DumpConstantArrayTypeData
<1>4. CASE class \in {"DependentSizedArrayType", "VariableArrayType"}
    BY <1>4, VariableSizeArrayType
<1>5. CASE class = "IncompleteArrayType"
    BY <1>5, ArrayType
<1>6. CASE class = "PointerType"
    BY <1>6, PointerType
<1>7. CASE class \in {"EnumType", "RecordType"}
    BY <1>7, TagType
<1>8. CASE class = "ElaboratedType"
    BY <1>8, ElaboratedType
<1>9. CASE class = "InjectedClassNameType"
    BY <1>9, InjectedClassNameType
<1>10. CASE class = "TemplateTypeParmType"
    BY <1>10, TypeWithDecl
<1>11. CASE class = "SubstTemplateTypeParmType"
    BY <1>11, SubstTemplateTypeParmType
<1>12. CASE class = "TemplateSpecializationType"
    BY <1>12, TemplateSpecializationType
<1>13. CASE class = "TypedefType"
    BY <1>13, TypedefType
<1>14. CASE class = "DecayedType"
    BY <1>14, DecayedType
<1>15. CASE class \in {"DecltypeType", "TypeOfExprType"}
    BY <1>15, TypeWithUnderlyingExpr
<1>16. CASE class = "AutoType"
    BY <1>16, AutoType
<1>17. CASE class = "PackExpansionType"
    BY <1>17, PackExpansionType
<1>18. CASE class = "AttributedType"
    BY <1>18, AttributedType
<1>19. CASE class = "UnaryTransformType"
    BY <1>19, UnaryTransformType
<1>20. CASE class = "ComplexType"
    BY <1>20, ComplexType
<1>21. CASE class = "BuiltinType"
    BY <1>21, Type
<1>22. CASE ~ (class \in DOMAIN TYPE_CHILDREN_VISITORS(d) \cup DOMAIN TYPE_DATA_DUMPERS(d))
    BY <1>22, Type
<1> QED
    BY <1>1, <1>2, <1>3, <1>4, <1>5, <1>6, <1>7, <1>8, <1>9, <1>10, <1>11, <1>12, <1>13, <1>14,
       <1>15, <1>16, <1>17, <1>18, <1>19, <1>20, <1>21, <1>22

-----------------------------------------------------------------------------

(* A node of any kind.                                                      *)
LEMMA ReferenceDispatch ==
    ASSUME NEW d, NEW class \in {"LValueReferenceType", "RValueReferenceType"}
    PROVE  /\ visitTypeChildren(class, d) = VisitReferenceTypeChildren(d)
           /\ dumpTypeData(class, d) = DumpReferenceTypeData(d)
BY DEF visitTypeChildren, TYPE_CHILDREN_VISITORS, dumpTypeData, TYPE_DATA_DUMPERS

(* The desugared type is written for every type, and visited with it.       *)
LEMMA DesugaredWritten ==
    ASSUME NEW d, NEW class
    PROVE  d.one["singleStepDesugar"] \in dumpTypeData(class, d)
<1> DEFINE desugared == d.one["singleStepDesugar"]
<1>1. desugared \in DumpTypeData(d)
    BY DEF DumpTypeData, ids
<1> HIDE DEF desugared
<1>2. /\ desugared \in DumpFunctionTypeData(d)
      /\ desugared \in DumpArrayTypeData(d)
      /\ desugared \in DumpAdjustedTypeData(d)
    BY <1>1 DEF DumpFunctionTypeData, DumpArrayTypeData, DumpAdjustedTypeData
<1>3. \A f \in DOMAIN TYPE_DATA_DUMPERS(d) : desugared \in TYPE_DATA_DUMPERS(d)[f]
    BY <1>1, <1>2
       DEF TYPE_DATA_DUMPERS, DumpPointerTypeData, DumpFunctionProtoTypeData,
           DumpConstantArrayTypeData, dumpVariableSizeArrayTypeData, DumpTagTypeData,
           DumpElaboratedTypeData, DumpTemplateTypeParmTypeData,
           DumpTemplateSpecializationTypeData, DumpTypedefTypeData, DumpDecayedTypeData,
           dumpExprTypeData, DumpAutoTypeData, DumpReferenceTypeData, DumpPackExpansionTypeData,
           DumpUnaryTransformTypeData, DumpAttributedTypeData, DumpSubstTemplateTypeParmTypeData,
           DumpComplexTypeData
<1> QED
    BY <1>1, <1>3 DEF dumpTypeData, desugared

(* What its dumper writes without its handler having covered it.            *)
Indirect(d) ==
    (IF d.kind = "QualType" THEN {d.one["singleStepDesugar"]} ELSE {})
        \cup (IF d.kind = "Type" /\ "innerReference" \in d.is THEN {d.one["pointeeType"]} ELSE {})

LEMMA OfType ==
    ASSUME NEW d, IsDescription(d), Supported(d), MadeByClang(d), d.kind = "Type"
    PROVE  /\ IsCalls(visitChildren(d))
           /\ dumpData(d) \subseteq Covered(visitChildren(d)) \cup Indirect(d)
           /\ d.one["singleStepDesugar"] \in Covered(visitChildren(d))
           /\ \/ dumpData(d) \subseteq Covered(visitChildren(d))
              \/ d.one["pointeeTypeAsWritten"] \in Covered(visitChildren(d))
<1>1. visitChildren(d) = visitTypeChildren(d.class, d) /\ dumpData(d) = dumpTypeData(d.class, d)
    BY DEF visitChildren, dumpData
<1>2. CASE d.class \in {"LValueReferenceType", "RValueReferenceType"}
    BY <1>1, <1>2, ReferenceDispatch, ReferenceType DEF Indirect
<1>3. CASE ~ (d.class \in {"LValueReferenceType", "RValueReferenceType"})
    <2>1. d.class = "TemplateSpecializationType" \/ NoPack(d)
        BY DEF Supported, NoPack
    <2>2. Covers(visitTypeChildren(d.class, d), dumpTypeData(d.class, d))
        BY <1>3, <2>1, TypeDispatch
    <2> QED
        BY <1>1, <2>2, DesugaredWritten DEF Covers
<1> QED
    BY <1>2, <1>3

LEMMA OfNode ==
    ASSUME NEW d, IsDescription(d), Supported(d), MadeByClang(d)
    PROVE  /\ IsCalls(visitChildren(d))
           /\ dumpData(d) \subseteq Covered(visitChildren(d)) \cup Indirect(d)
<1>1. CASE d.kind = "Decl"
    <2>1. NoPack(d) /\ ~ (d.class \in DeclsWithoutVisitor)
          /\ (d.class \in DeclsWithoutAttr => d.each["attr"] = <<>>)
        BY <1>1 DEF Supported, NoPack
    <2>2. visitChildren(d) = visitDeclChildren(d.class, d) /\ dumpData(d) = dumpDeclData(d.class, d)
        BY <1>1 DEF visitChildren, dumpData
    <2> QED
        BY <2>1, <2>2, DeclDispatch DEF Covers
<1>2. CASE d.kind = "Stmt"
    <2>1. ~ (d.class \in AsmStmts)
        BY <1>2 DEF Supported
    <2>2. visitChildren(d) = visitStmtChildren(d.class, d) /\ dumpData(d) = dumpStmtData(d.class, d)
        BY <1>2 DEF visitChildren, dumpData
    <2> QED
        BY <2>1, <2>2, StmtDispatch DEF Covers
<1>3. CASE d.kind = "Expr"
    <2>1. NoPack(d) /\ ~ (d.class \in CastsWithoutVisitor)
          /\ (d.class = "OffsetOfExpr" => ~ ("qualified" \in d.is))
        BY <1>3 DEF Supported, NoPack
    <2>2. visitChildren(d) = visitExprChildren(d.class, d) /\ dumpData(d) = dumpExprData(d.class, d)
        BY <1>3 DEF visitChildren, dumpData
    <2> QED
        BY <2>1, <2>2, ExprDispatch DEF Covers
<1>4. CASE d.kind = "Type"
    BY <1>4, OfType
<1>5. CASE d.kind = "QualType"
    <2>1. visitChildren(d) = visitQualTypeChildren(d) /\ dumpData(d) = dumpQualTypeData(d)
        BY <1>5 DEF visitChildren, dumpData
    <2> QED
        BY <1>5, <2>1, QualType DEF Indirect
<1>6. CASE d.kind = "Attr"
    <2>1. visitChildren(d) = visitAttrChildren(d.class, d) /\ dumpData(d) = dumpAttrData(d.class, d)
        BY <1>6 DEF visitChildren, dumpData
    <2> QED
        BY <2>1, Attr DEF Covers
<1> QED
    BY <1>1, <1>2, <1>3, <1>4, <1>5, <1>6 DEF IsDescription, Kinds

LEMMA OfQualType ==
    ASSUME NEW d, IsDescription(d), d.kind = "QualType"
    PROVE  d.one["typePtr"] \in Covered(visitChildren(d))
<1>1. visitChildren(d) = visitQualTypeChildren(d)
    BY DEF visitChildren
<1> QED
    BY <1>1, QualType

-----------------------------------------------------------------------------

(* A graph whose nodes run the class handlers.                              *)
LEMMA VisitsIds ==
    ASSUME NEW a \in AST, NEW n \in Nodes
    PROVE  /\ a.visit[n] \in Seq(Visits)
           /\ \A w \in Covered(a.visit[n]) : w \in Ids \/ (w \in notDumped /\ Throws(a.visit[n]))
<1>1. a.visit[n] \in Seq(Visits)
    BY DEF AST
<1>2. \A i \in DOMAIN a.visit[n] : a.visit[n][i] \in Visits
    BY <1>1
<1>3. \A i \in DOMAIN a.visit[n] : a.visit[n][i].to \in Ids
    BY <1>2 DEF Visits
<1> QED
    BY <1>1, <1>3 DEF Covered, Ids

LEMMA ClosedSetHoldsCovered ==
    ASSUME NEW a \in AST, NEW S \in SUBSET Nodes, ClosedUnderDirectVisits(a, S), NEW n \in S,
           NEW w \in Covered(a.visit[n]), w \in Ids
    PROVE  w \in S \cup {Null}
<1>1. ~ (w \in notDumped)
    BY NotAnIdAssumption
<1>2. CASE w = Null
    BY <1>2
<1>3. CASE w # Null
    <2>1. PICK i \in DOMAIN a.visit[n] : a.visit[n][i].op \in DirectVisits /\ a.visit[n][i].to = w
        BY <1>1, <1>3 DEF Covered
    <2> QED
        BY <2>1 DEF ClosedUnderDirectVisits
<1> QED
    BY <1>2, <1>3

LEMMA ClassGraphClosed ==
    ASSUME NEW a \in AST, NEW describe, IsClassGraph(a, describe)
    PROVE  ReferencesVisited(a)
<1> SUFFICES ASSUME NEW n \in Nodes, NEW S \in SUBSET Nodes, n \in S,
                    ClosedUnderDirectVisits(a, S), NEW w \in a.data[n]
             PROVE  w \in S \cup {Null}
    BY DEF ReferencesVisited
<1> DEFINE d == describe[n]
<1>1. /\ IsDescription(d) /\ Supported(d) /\ MadeByClang(d) /\ DesugaredAlike(describe, n)
      /\ InnerReferenceReached(a, d)
      /\ a.visit[n] = visitChildren(d) /\ a.data[n] = dumpData(d) \ notDumped
    BY DEF IsClassGraph, RunsHandlers
<1>2. w \in Ids
    BY DEF AST
<1>3. w \in Covered(a.visit[n]) \/ w \in Indirect(d)
    BY <1>1, OfNode
<1>4. CASE w \in Covered(a.visit[n])
    BY <1>2, <1>4, ClosedSetHoldsCovered
<1>5. CASE d.kind = "QualType" /\ w = d.one["singleStepDesugar"]
    <2> DEFINE type == d.one["typePtr"]
    <2>1. /\ type \in Nodes /\ describe[type].kind = "Type"
          /\ describe[type].one["singleStepDesugar"] = w
        BY <1>1, <1>5 DEF DesugaredAlike
    <2>2. type \in Covered(a.visit[n])
        BY <1>1, <1>5, OfQualType
    <2>3. type \in S
        BY <2>1, <2>2, ClosedSetHoldsCovered, NullAssumption DEF Ids
    <2>4. /\ IsDescription(describe[type]) /\ Supported(describe[type])
          /\ MadeByClang(describe[type])
          /\ a.visit[type] = visitChildren(describe[type])
        BY <2>1 DEF IsClassGraph, RunsHandlers
    <2>5. w \in Covered(a.visit[type])
        BY <2>1, <2>4, OfType
    <2> QED
        BY <1>2, <2>3, <2>5, ClosedSetHoldsCovered
<1>6. CASE d.kind = "Type" /\ "innerReference" \in d.is /\ w = d.one["pointeeType"]
    <2> DEFINE from == d.one["pointeeTypeAsWritten"]
    <2>1. Reaches(a, from, w)
        BY <1>1, <1>6 DEF InnerReferenceReached
    <2>2. \/ w \in Covered(a.visit[n])
          \/ from \in Covered(a.visit[n])
        BY <1>1, <1>6, OfType
    <2>3. CASE from \in Covered(a.visit[n])
        <3>1. from \in S
            BY <2>1, <2>3, ClosedSetHoldsCovered, NullAssumption DEF Reaches, Ids
        <3> QED
            BY <2>1, <3>1 DEF Reaches
    <2> QED
        BY <1>4, <2>2, <2>3
<1> QED
    BY <1>3, <1>4, <1>5, <1>6 DEF Indirect

(* A data dumper that throws has a children handler that throws.            *)
LEMMA DataThrowsLate ==
    ASSUME NEW a \in AST, NEW describe, IsClassGraph(a, describe), NEW n \in a.dataThrows
    PROVE  Throws(a.visit[n])
<1> DEFINE d == describe[n]
<1>0. n \in Nodes
    BY DEF AST
<1>1. /\ IsDescription(d) /\ Supported(d) /\ MadeByClang(d) /\ DesugaredAlike(describe, n)
      /\ InnerReferenceReached(a, d)
      /\ a.visit[n] = visitChildren(d) /\ notDumped \subseteq dumpData(d)
    BY <1>0 DEF IsClassGraph, RunsHandlers
<1>2. Indirect(d) \subseteq Ids
    BY <1>1 DEF Indirect, DesugaredAlike, InnerReferenceReached, Reaches
<1>3. notDumped \subseteq Covered(a.visit[n]) \cup Indirect(d) /\ notDumped # {}
    BY <1>1, OfNode DEF notDumped
<1>4. notDumped \cap Ids = {}
    BY NotAnIdAssumption
<1> QED
    BY <1>0, <1>2, <1>3, <1>4, VisitsIds

-----------------------------------------------------------------------------

(* The graph closure of the header, for every translation unit whose nodes  *)
(* run the class handlers: whatever the handlers are called on, the ids     *)
(* that a data dumper writes are reached by the direct visits of the        *)
(* children handler of the same class, so every id in the output has its    *)
(* records between two calls of the consumer.                               *)
THEOREM ClassGraphClosure ==
    ASSUME \A a \in ASTs : \E describe : IsClassGraph(a, describe)
    PROVE  Spec => []GraphClosure
<1>1. \A a \in ASTs : ReferencesVisited(a)
    BY ClassGraphClosed, ASTsAssumption
<1> QED
    BY <1>1, GraphClosureHolds

(* The calls a frame has behind it returned, and none of them throws.       *)
PassedCalls(f) == \A j \in 1..(f.pc - 1) : ast.visit[f.node][j].op # "throw"

PassedInv == \A i \in DOMAIN callStack : PassedCalls(callStack[i])

LEMMA PassedOne ==
    ASSUME NEW f \in Frames, PassedCalls(f), ast.visit[f.node][f.pc].op # "throw",
           NEW g, g.node = f.node, g.pc = f.pc + 1
    PROVE  PassedCalls(g)
<1>1. f.pc \in Nat
    BY FrameTypes
<1>2. \A j \in 1..(g.pc - 1) : j \in 1..(f.pc - 1) \/ j = f.pc
    BY <1>1
<1> QED
    BY <1>2 DEF PassedCalls

LEMMA EnterPasses ==
    ASSUME IInv, PassedInv, NEW n \in Ids, Enter(n)
    PROVE  PassedInv'
<1> DEFINE f == [node |-> n, pc |-> 1, children |-> <<>>]
           len == Len(callStack)
<1>1. ast' = ast /\ callStack' = Append(callStack, f) /\ n \in Nodes
    BY DEF Enter, alreadyDumped, Ids, input
<1>2. f \in Frames /\ callStack \in Seq(Frames)
    BY <1>1, EmptySeq DEF Frames, IInv, Types
<1>3. f.pc - 1 = 0
    OBVIOUS
<1> HIDE DEF f
<1>4. /\ DOMAIN callStack = 1..len /\ len \in Nat
      /\ DOMAIN callStack' = 1..(len + 1)
      /\ \A i \in 1..len : callStack'[i] = callStack[i]
      /\ callStack'[len + 1] = f
    BY <1>1, <1>2, AppendProperties, LenProperties
<1>5. \A j \in 1..(f.pc - 1) : FALSE
    BY <1>3
<1>6. \A i \in 1..(len + 1) : i \in 1..len \/ i = len + 1
    BY <1>4
<1> HIDE DEF len
<1> QED
    BY <1>1, <1>4, <1>5, <1>6 DEF PassedInv, PassedCalls

(* The innermost frame goes on after a call that does not throw.            *)
LEMMA ReturnPasses ==
    ASSUME IInv, PassedInv, InHandler, Current.op # "throw", NEW g,
           g.node = Top.node, g.pc = Top.pc + 1, Return(g), g \in Frames, ast' = ast
    PROVE  PassedInv'
<1> DEFINE len == Len(callStack)
<1>1. Busy /\ Top \in Frames /\ Current = ast.visit[Top.node][Top.pc]
    BY CurrentCall
<1>2. len \in Nat /\ len > 0 /\ Top = callStack[len] /\ DOMAIN callStack = 1..len
    BY <1>1, TopFrame DEF IInv, Top
<1>3. /\ DOMAIN callStack' = 1..len
      /\ \A i \in 1..len : callStack'[i] = IF i = len THEN g ELSE callStack[i]
    <2>1. callStack \in Seq(Frames) /\ callStack' = [callStack EXCEPT ![len] = g]
        BY DEF IInv, Types, Return
    <2> QED
        BY <1>2, <2>1, ExceptSeq
<1>4. PassedCalls(Top)
    BY <1>2 DEF PassedInv
<1>5. PassedCalls(g)
    BY <1>1, <1>4, PassedOne
<1> HIDE DEF len
<1> QED
    BY <1>2, <1>3, <1>5 DEF PassedInv, PassedCalls

(* The caller of the innermost frame goes on after the call it waited for.  *)
LEMMA FinishPasses ==
    ASSUME IInv, ListInv, PassedInv, Finish
    PROVE  PassedInv'
<1> DEFINE len == Len(callStack)
<1>1. Busy /\ callStack' = Pop /\ ast' = ast
    BY DEF Finish, HandlerDone, input
<1>2. /\ len \in Nat /\ len > 0 /\ DOMAIN callStack = 1..len
      /\ \A i \in 1..len : callStack[i] \in Frames
    BY <1>1, TopFrame DEF IInv, Types
<1>3. /\ DOMAIN callStack' = 1..(len - 1)
      /\ \A i \in 1..(len - 1) : callStack'[i].node = callStack[i].node
      /\ \A i \in 1..(len - 1) :
            callStack'[i] = IF i = len - 1
                            THEN Returned(callStack[i],
                                          ast.visit[callStack[i].node][callStack[i].pc])
                            ELSE callStack[i]
    BY <1>1, PoppedStack DEF IInv
<1>4. ASSUME NEW i \in 1..(len - 1) PROVE PassedCalls(callStack'[i])
    <2>1. callStack[i] \in Frames /\ PassedCalls(callStack[i]) /\ Allowed(i)
        BY <1>2 DEF PassedInv, ListInv, CallInv
    <2>2. CASE i = len - 1
        <3> DEFINE g == Returned(callStack[i], ast.visit[callStack[i].node][callStack[i].pc])
        <3>1. g.node = callStack[i].node /\ g.pc = callStack[i].pc + 1
            BY <2>1 DEF Returned, Frames
        <3>2. callStack'[i] = g
            BY <1>3, <2>2
        <3> HIDE DEF g
        <3>3. PassedCalls(g)
            BY <2>1, <3>1, PassedOne DEF Allowed, CallAt
        <3> QED
            BY <3>2, <3>3
    <2>3. CASE i # len - 1
        BY <1>3, <2>1, <2>3
    <2> QED
        BY <2>2, <2>3
<1> HIDE DEF len
<1> QED
    BY <1>1, <1>3, <1>4 DEF PassedInv, PassedCalls

LEMMA NextPassed == IInv /\ ListInv /\ PassedInv /\ [Next]_vars => PassedInv'
<1> SUFFICES ASSUME IInv, ListInv, PassedInv, [Next]_vars PROVE PassedInv'
    OBVIOUS
<1>1. ASSUME NEW n \in ast.roots, VisitTop(n) PROVE PassedInv'
    <2>1. n \in Ids /\ Enter(n)
        BY <1>1 DEF IInv, Types, AST, VisitTop
    <2> QED
        BY <2>1, EnterPasses
<1>2. CASE UNCHANGED vars
    BY <1>2 DEF vars, PassedInv, PassedCalls
<1>3. CASE AddChild \/ DirectVisit
    <2>1. InHandler /\ Enter(Current.to)
        BY <1>3 DEF AddChild, DirectVisit
    <2> QED
        BY <2>1, CurrentCall, EnterPasses
<1>4. CASE SuppressChild
    <2> DEFINE g == [Top EXCEPT !.pc = @ + 1]
    <2>1. InHandler /\ Current.op = "addChild" /\ Return(g) /\ ast' = ast
        BY <1>4 DEF SuppressChild, input
    <2>2. g \in Frames /\ g.node = Top.node
        BY <2>1, CurrentCall, SkippedFrame DEF DirectVisits
    <2>3. g.pc = Top.pc + 1
        BY <2>1, CurrentCall DEF Frames
    <2> HIDE DEF g
    <2> QED
        BY <2>1, <2>2, <2>3, ReturnPasses
<1>5. CASE AddChildAgain \/ DirectVisitAgain
    <2> DEFINE g == Returned(Top, Current)
    <2>1. InHandler /\ Return(g) /\ alreadyDumped(Current.to) /\ Current.op # "throw" /\ ast' = ast
        BY <1>5 DEF AddChildAgain, DirectVisitAgain, DirectVisits, input
    <2>2. WaitingInv(Top)
        BY <2>1, CurrentCall DEF WaitingInv, alreadyDumped, Known
    <2>3. g \in Frames /\ g.node = Top.node
        BY <2>1, <2>2, CurrentCall, ReturnedFrame
    <2>4. g.pc = Top.pc + 1
        BY <2>1, CurrentCall DEF Returned, Frames
    <2> HIDE DEF g
    <2> QED
        BY <2>1, <2>3, <2>4, ReturnPasses
<1>6. CASE Finish
    BY <1>6, FinishPasses
<1>7. CASE HandlerThrows \/ DataThrows
    <2>1. callStack' = <<>>
        BY <1>7 DEF HandlerThrows, DataThrows, Unwind
    <2> QED
        BY <2>1, EmptySeq DEF PassedInv
<1> QED
    BY <1>1, <1>2, <1>3, <1>4, <1>5, <1>6, <1>7 DEF Next, Step, VisitTopAgain, Stopped

LEMMA PassedInductive == Spec => []PassedInv
<1>1. Init => PassedInv
    BY EmptySeq DEF Init, PassedInv
<1>2. IInv /\ ListInv /\ PassedInv /\ [Next]_vars => PassedInv'
    BY NextPassed
<1> QED
    BY <1>1, <1>2, Inductive, ListsInductive, PTL DEF Spec

(* A handler that is done made all of its calls.                            *)
LEMMA DonePassed ==
    ASSUME IInv, PassedInv, HandlerDone
    PROVE  ~ Throws(ast.visit[Top.node])
<1>1. Busy /\ Top.pc > Len(ast.visit[Top.node])
    BY DEF HandlerDone, Handler
<1>2. /\ Len(callStack) \in DOMAIN callStack /\ Top = callStack[Len(callStack)]
      /\ Top \in Frames /\ FrameInv(Top) /\ ast \in AST
    BY <1>1, TopFrame DEF IInv, StackInv, Types, Top
<1>3. DOMAIN ast.visit[Top.node] = 1..(Top.pc - 1)
    <2>1. /\ Len(ast.visit[Top.node]) \in Nat /\ Top.pc \in Nat
          /\ DOMAIN ast.visit[Top.node] = 1..Len(ast.visit[Top.node])
        BY <1>2, HandlerTypes, FrameTypes
    <2> QED
        BY <1>1, <1>2, <2>1 DEF FrameInv
<1>4. PassedCalls(Top)
    BY <1>2 DEF PassedInv
<1> QED
    BY <1>3, <1>4 DEF PassedCalls, Throws

(* The two records of a node are written together.                          *)
RecordsTogether == DOMAIN visitedChildren = emitted

LEMMA NextTogether ==
    ASSUME \A a \in ASTs : \E describe : IsClassGraph(a, describe),
           IInv, PassedInv, ast \in ASTs, RecordsTogether, [Next]_vars
    PROVE  RecordsTogether'
<1>1. CASE Finish
    <2>1. Busy /\ WriteChildren /\ emitted' = emitted \cup {Top.node}
        BY <1>1 DEF Finish, HandlerDone
    <2> QED
        BY <2>1, ChildrenWritten DEF RecordsTogether, IInv
<1>2. ~ DataThrows
    <2> SUFFICES ASSUME DataThrows PROVE FALSE
        OBVIOUS
    <2>1. HandlerDone /\ Top.node \in ast.dataThrows
        BY DEF DataThrows
    <2>2. ~ Throws(ast.visit[Top.node])
        BY <2>1, DonePassed
    <2>3. PICK describe : IsClassGraph(ast, describe)
        OBVIOUS
    <2>4. Throws(ast.visit[Top.node])
        BY <2>1, <2>3, DataThrowsLate, ASTsAssumption
    <2> QED
        BY <2>2, <2>4
<1>3. CASE ~ Finish
    <2>1. UNCHANGED stream
        BY <1>2, <1>3 DEF Next, vars, VisitTop, VisitTopAgain, Enter, Step, SuppressChild,
               AddChild, AddChildAgain, DirectVisit, DirectVisitAgain, HandlerThrows,
               Stopped, stream
    <2> QED
        BY <2>1 DEF RecordsTogether, stream
<1> QED
    BY <1>1, <1>3

(* On the nodes that Clang makes, a data dumper refuses nothing that the    *)
(* children handler of its class does not refuse, and the handler is called *)
(* first: an exception never cuts a data record short after its header      *)
(* (visitChildrenAndData()).  The three refusals that no handler has are    *)
(* left out by MadeByClang.                                                 *)
THEOREM NoTruncatedRecordHolds ==
    ASSUME \A a \in ASTs : \E describe : IsClassGraph(a, describe)
    PROVE  Spec => []NoTruncatedRecord
<1>1. Init => RecordsTogether
    BY DEF Init, RecordsTogether
<1>2. IInv /\ PassedInv /\ ast \in ASTs /\ RecordsTogether /\ [Next]_vars => RecordsTogether'
    BY NextTogether
<1>3. RecordsTogether => NoTruncatedRecord
    BY DEF RecordsTogether, NoTruncatedRecord
<1> QED
    BY <1>1, <1>2, <1>3, Inductive, PassedInductive, GraphFixed, PTL DEF Spec

(* Of such graphs the reader of the output gets what NodeStream promises.   *)
THEOREM ClassGraphStream ==
    ASSUME \A a \in ASTs : \E describe : IsClassGraph(a, describe)
    PROVE  Spec => ImplementsNodeStream
<1>1. \A a \in ASTs : ReferencesVisited(a)
    BY ClassGraphClosed, ASTsAssumption
<1> QED
    BY <1>1, NodeStreamImplemented

-----------------------------------------------------------------------------

(* The units of the consumer: the graph of every group runs the class       *)
(* handlers, on the descriptions that the nodes have by then.  What one     *)
(* node leaves another one to visit is the same in all groups, for Clang    *)
(* does not change a type it has made.                                      *)
ReachesThroughout(u, from, to) ==
    /\ from \in Nodes
    /\ to \in Ids
    /\ \A S \in SUBSET Nodes :
            from \in S /\ (\A m \in S : AlwaysVisited(u, m) \subseteq S) => to \in S \cup {Null}

DesugaredThroughout(u, describe, d) ==
    d.kind = "QualType" =>
        LET type == d.one["typePtr"]
            desugared == d.one["singleStepDesugar"]
        IN  /\ type \in Nodes
            /\ desugared \in Ids
            /\ \A g \in DOMAIN u.groups :
                    /\ describe[g][type].kind = "Type"
                    /\ describe[g][type].one["singleStepDesugar"] = desugared

IsClassUnit(u, describe) ==
    \A g \in DOMAIN u.groups : \A n \in Nodes :
        LET d == describe[g][n]
        IN  /\ IsDescription(d)
            /\ Supported(d)
            /\ MadeByClang(d)
            /\ RunsHandlers(u.groups[g].ast, n, d)
            /\ DesugaredThroughout(u, describe, d)
            /\ d.kind = "Type" /\ "innerReference" \in d.is =>
                    ReachesThroughout(u, d.one["pointeeTypeAsWritten"], d.one["pointeeType"])

LEMMA ClassUnitClosed ==
    ASSUME NEW u \in Units, NEW describe, IsClassUnit(u, describe)
    PROVE  ReferencesVisitedThroughout(u)
<1> SUFFICES ASSUME NEW g \in DOMAIN u.groups, NEW n \in Nodes, NEW S \in SUBSET Nodes, n \in S,
                    \A k \in DOMAIN u.groups[g].ast.visit[n] :
                        u.groups[g].ast.visit[n][k].op \in DirectVisits =>
                            u.groups[g].ast.visit[n][k].to \in S \cup {Null},
                    \A m \in S : AlwaysVisited(u, m) \subseteq S,
                    NEW w \in u.groups[g].ast.data[n]
             PROVE  w \in S \cup {Null}
    BY DEF ReferencesVisitedThroughout
<1> DEFINE a == u.groups[g].ast
           d == describe[g][n]
<1>1. \A k \in DOMAIN u.groups : u.groups[k].ast \in AST
    <2>1. {u.groups[k].ast : k \in DOMAIN u.groups} \subseteq ASTs
        BY UnitsAssumption
    <2> QED
        BY <2>1, ASTsAssumption
<1>2. /\ IsDescription(d) /\ Supported(d) /\ MadeByClang(d) /\ DesugaredThroughout(u, describe, d)
      /\ d.kind = "Type" /\ "innerReference" \in d.is =>
                    ReachesThroughout(u, d.one["pointeeTypeAsWritten"], d.one["pointeeType"])
      /\ a.visit[n] = visitChildren(d) /\ a.data[n] = dumpData(d) \ notDumped
    BY DEF IsClassUnit, RunsHandlers
<1>3. w \in Ids /\ ~ (w \in notDumped)
    BY <1>1, NotAnIdAssumption DEF AST
<1>4. \A x \in Covered(a.visit[n]) \cap Ids : x \in S \cup {Null}
    BY NotAnIdAssumption DEF Covered
<1>5. w \in Covered(a.visit[n]) \/ w \in Indirect(d)
    BY <1>2, OfNode
<1>6. CASE w \in Covered(a.visit[n])
    BY <1>3, <1>4, <1>6
<1>7. CASE d.kind = "QualType" /\ w = d.one["singleStepDesugar"] /\ w # Null
    <2> DEFINE type == d.one["typePtr"]
    <2>1. /\ type \in Nodes
          /\ \A k \in DOMAIN u.groups : /\ describe[k][type].kind = "Type"
                                        /\ describe[k][type].one["singleStepDesugar"] = w
        BY <1>2, <1>7 DEF DesugaredThroughout
    <2>2. type \in Covered(a.visit[n])
        BY <1>2, <1>7, OfQualType
    <2>3. type \in S
        BY <1>4, <2>1, <2>2, NullAssumption DEF Ids
    <2>4. ASSUME NEW k \in DOMAIN u.groups
          PROVE  \E i \in 1..Len(u.groups[k].ast.visit[type]) :
                    /\ u.groups[k].ast.visit[type][i].op \in DirectVisits
                    /\ u.groups[k].ast.visit[type][i].to = w
        <3> DEFINE calls == u.groups[k].ast.visit[type]
        <3>1. /\ IsDescription(describe[k][type]) /\ Supported(describe[k][type])
              /\ MadeByClang(describe[k][type])
              /\ calls = visitChildren(describe[k][type])
            BY <2>1 DEF IsClassUnit, RunsHandlers
        <3>2. w \in Covered(calls)
            BY <2>1, <3>1, OfType
        <3>3. calls \in Seq(Visits)
            BY <1>1, <2>1 DEF AST
        <3>4. DOMAIN calls = 1..Len(calls)
            BY <3>3, LenProperties
        <3> HIDE DEF calls
        <3>5. \E i \in 1..Len(calls) : calls[i].op \in DirectVisits /\ calls[i].to = w
            BY <1>3, <1>7, <3>2, <3>4 DEF Covered
        <3> QED
            BY <3>5 DEF calls
    <2>5. w \in AlwaysVisited(u, type)
        BY <1>3, <1>7, <2>4 DEF AlwaysVisited, Ids
    <2> QED
        BY <2>3, <2>5
<1>8. CASE d.kind = "Type" /\ "innerReference" \in d.is /\ w = d.one["pointeeType"]
    <2> DEFINE from == d.one["pointeeTypeAsWritten"]
    <2>1. ReachesThroughout(u, from, w)
        BY <1>2, <1>8
    <2>2. \/ w \in Covered(a.visit[n])
          \/ from \in Covered(a.visit[n])
        BY <1>2, <1>8, OfType
    <2>3. CASE from \in Covered(a.visit[n])
        <3>1. from \in S
            BY <1>4, <2>1, <2>3, NullAssumption DEF ReachesThroughout, Ids
        <3> QED
            BY <2>1, <3>1 DEF ReachesThroughout
    <2> QED
        BY <1>6, <2>2, <2>3
<1> QED
    BY <1>5, <1>6, <1>7, <1>8 DEF Indirect

(* Everything together: the consumer, the traversal and the handlers of the *)
(* classes write a closed stream, between any two calls of the dumper,      *)
(* although the parser goes on changing nodes that are written already.     *)
THEOREM ClassUnitClosure ==
    ASSUME \A u \in Units : \E describe : IsClassUnit(u, describe)
    PROVE  ConsumerSpec => []RecordsClosed
<1>1. \A u \in Units : ReferencesVisitedThroughout(u)
    BY ClassUnitClosed
<1> QED
    BY <1>1, RecordsClosedHolds

=============================================================================
