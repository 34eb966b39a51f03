------------------------- MODULE MyASTConsumer_proofs -------------------------
(***************************************************************************)
(* Proofs about the consumer, for every unit, graph and threshold.         *)
(*                                                                         *)
(* A step of the consumer is a step of the traversal core, leaves the core *)
(* alone, or replaces the graph while no call is in progress.  The core's  *)
(* invariants IInv, LevelInv and ListInv survive all three (CoreKept), for *)
(* they speak of the graph on behalf of the stack only.  What was true of  *)
(* a node when it was written is kept as a statement about the graph of    *)
(* that moment, WrittenAst(n) (PastInv).                                   *)
(***************************************************************************)
EXTENDS MyASTConsumer, ChildrenLists_proofs

Core == IInv /\ LevelInv /\ ListInv

(* Where the consumer is while the dumper runs, and after it threw.         *)
Inside ==
    /\ handling.group <= Len(unit.groups)
    /\ handling.loop = "traverse"
    /\ handling.decl <= Len(Group)
    /\ D # Null

HandlingInv ==
    /\ unit \in Units
    /\ handling \in Handling
    /\ handling.group <= Len(unit.groups) => ast = unit.groups[handling.group].ast
    /\ Busy \/ thrown => Inside
    /\ Busy => status = "parsing"

ErrorsInv ==
    /\ status \in {"parsing", "finished", "exited"}
    /\ errors \in Seq(Ids)
    /\ status = "parsing" => errors = <<>>

(* The outermost frame of a call is no system-header node.                  *)
RootInv == Busy => ~ ast.isSystemHeader[callStack[1].node]

(* A written node made its direct visits and listed its children in the     *)
(* graph of its moment.                                                     *)
PastVisits(n) ==
    \A k \in 1..Len(WrittenAst(n).visit[n]) :
        WrittenAst(n).visit[n][k].op \in DirectVisits => WrittenAst(n).visit[n][k].to \in Known

PastList(n) ==
    \E past \in BOOLEAN : ListedByAll(visitedChildren[n], WrittenAst(n).visit[n], past)

PastInv ==
    /\ dumpedIn \in [emitted -> DOMAIN unit.groups]
    /\ \A n \in emitted : PastVisits(n) /\ PastList(n)

(* The visitor is past the k-th meeting in the i-th declaration.            *)
Passed(h, i, k) == i < h.decl \/ (i = h.decl /\ k < h.meeting)

MeetingDone(m, known) == userLocated(m.at) => m.visit \in known

TraversalInv ==
    handling.group <= Len(unit.groups) /\ handling.loop = "traverse" =>
        \A i \in 1..Len(Group) : \A k \in 1..Len(Traversal(Group[i])) :
            Passed(handling, i, k) => MeetingDone(Traversal(Group[i])[k], Known)

NamesInv == topLevelNodes \subseteq Nodes /\ \A n \in topLevelNodes : userLocated(n)

CInv ==
    /\ Core
    /\ HandlingInv
    /\ ErrorsInv
    /\ NamesInv

-----------------------------------------------------------------------------

LEMMA UnitTypes ==
    ASSUME unit \in Units
    PROVE  /\ unit \in Unit
           /\ Len(unit.groups) \in Nat /\ Len(unit.groups) > 0
           /\ DOMAIN unit.groups = 1..Len(unit.groups)
           /\ \A g \in 1..Len(unit.groups) :
                /\ unit.groups[g] \in Groups
                /\ unit.groups[g].decls \in Seq(Ids)
                /\ unit.groups[g].ast \in ASTs
                /\ unit.groups[g].ast \in AST
                /\ unit.groups[g].traversal \in [Nodes -> Seq(Meetings)]
<1>1. unit \in Unit
    BY UnitsAssumption
<1>2. unit.groups \in Seq(Groups) /\ unit.groups # <<>>
    BY <1>1 DEF Unit
<1>3. Len(unit.groups) \in Nat /\ Len(unit.groups) > 0 /\ DOMAIN unit.groups = 1..Len(unit.groups)
    BY <1>2, EmptySeq, LenProperties
<1>4. ASSUME NEW g \in 1..Len(unit.groups)
      PROVE  unit.groups[g] \in Groups /\ unit.groups[g].ast \in ASTs
    <2>1. unit.groups[g] \in Groups
        BY <1>2, <1>4, ElementOfSeq
    <2>2. unit.groups[g].ast \in {unit.groups[h].ast : h \in DOMAIN unit.groups}
        BY <1>3
    <2>3. unit.groups[g].ast
            \in UNION {{u.groups[h].ast : h \in DOMAIN u.groups} : u \in Units}
        BY <2>2
    <2> QED
        BY <2>1, <2>3, UnitsAssumption
<1> QED
    BY <1>1, <1>3, <1>4, ASTsAssumption DEF Groups

(* The declaration at which a loop of the consumer is.                      *)
LEMMA GroupTypes ==
    ASSUME unit \in Units, handling \in Handling, handling.group <= Len(unit.groups)
    PROVE  /\ handling.group \in 1..Len(unit.groups)
           /\ Group \in Seq(Ids)
           /\ Len(Group) \in Nat
           /\ DOMAIN Group = 1..Len(Group)
           /\ \A i \in 1..Len(Group) :
                /\ Group[i] \in Ids
                /\ Traversal(Group[i]) \in Seq(Meetings)
                /\ Len(Traversal(Group[i])) \in Nat
                /\ \A k \in 1..Len(Traversal(Group[i])) : Traversal(Group[i])[k] \in Meetings
<1>1. handling.group \in Nat /\ handling.group > 0
    BY DEF Handling
<1>2. handling.group \in 1..Len(unit.groups)
    BY <1>1, UnitTypes
<1>3. Group \in Seq(Ids) /\ unit.groups[handling.group].traversal \in [Nodes -> Seq(Meetings)]
    BY <1>2, UnitTypes DEF Group
<1>4. Len(Group) \in Nat /\ DOMAIN Group = 1..Len(Group)
    BY <1>3, LenProperties
<1>5. ASSUME NEW i \in 1..Len(Group)
      PROVE  /\ Group[i] \in Ids
             /\ Traversal(Group[i]) \in Seq(Meetings)
             /\ Len(Traversal(Group[i])) \in Nat
             /\ \A k \in 1..Len(Traversal(Group[i])) : Traversal(Group[i])[k] \in Meetings
    <2>1. Group[i] \in Ids
        BY <1>3, <1>5, ElementOfSeq
    <2>2. Traversal(Group[i]) \in Seq(Meetings)
        <3>1. <<>> \in Seq(Meetings)
            BY EmptySeq
        <3> QED
            BY <1>3, <2>1, <3>1 DEF Traversal, Ids
    <2> QED
        BY <2>1, <2>2, LenProperties, ElementOfSeq
<1> QED
    BY <1>2, <1>3, <1>4, <1>5

(* What the visitor is at while it traverses a declaration.                 *)
LEMMA MeetingTypes ==
    ASSUME unit \in Units, handling \in Handling, AtMeeting
    PROVE  /\ handling.group <= Len(unit.groups) /\ handling.group \in 1..Len(unit.groups)
           /\ handling.decl \in 1..Len(Group)
           /\ handling.meeting \in 1..Len(Traversal(D))
           /\ D = Group[handling.decl] /\ D \in Nodes
           /\ Meeting \in Meetings
           /\ Meeting.at \in Nodes /\ Meeting.visit \in Ids
           /\ Inside
<1>1. /\ handling.group <= Len(unit.groups) /\ handling.loop = "traverse"
      /\ handling.decl <= Len(Group) /\ handling.meeting <= Len(Traversal(D))
    BY DEF AtMeeting, AtDecl, Handed
<1>2. handling.decl \in 1..Len(Group)
    BY <1>1, GroupTypes DEF Handling
<1>3. Traversal(D) \in Seq(Meetings) /\ Len(Traversal(D)) \in Nat /\ D \in Ids
    BY <1>1, <1>2, GroupTypes DEF D
<1>4. handling.meeting \in 1..Len(Traversal(D))
    BY <1>1, <1>3 DEF Handling
<1>5. Meeting \in Meetings
    BY <1>1, <1>2, <1>4, GroupTypes DEF D, Meeting
<1>6. D # Null
    <2> SUFFICES ASSUME D = Null PROVE FALSE
        OBVIOUS
    <2>1. Traversal(D) = <<>>
        BY DEF Traversal
    <2> QED
        BY <1>4, <2>1, EmptySeq
<1> QED
    BY <1>1, <1>2, <1>3, <1>4, <1>5, <1>6, GroupTypes DEF Meetings, Inside, D, Ids

-----------------------------------------------------------------------------

(* The core over a step of the consumer.                                    *)
LEMMA GraphChange ==
    ASSUME Core, ~ Busy, NEW a \in AST, GraphBecomes(a)
    PROVE  Core'
<1>1. /\ ast' = a /\ systemHeaderThreshold' = systemHeaderThreshold /\ seen' = seen
      /\ currentSystemHeaderLevel' = currentSystemHeaderLevel
      /\ callStack' = callStack /\ visitedChildren' = visitedChildren
      /\ emitted' = emitted /\ thrown' = thrown
    BY DEF GraphBecomes, stream
<1>2. callStack = <<>> /\ DOMAIN callStack = {} /\ Len(callStack) = 0
    BY EmptySeq DEF Busy
<1>3. IInv'
    <2>1. Types'
        BY <1>1 DEF Core, IInv, Types
    <2>2. SerializedOnce'
        BY <1>1 DEF Core, IInv, SerializedOnce, OnStack
    <2>3. StackInv'
        BY <1>1, <1>2 DEF StackInv
    <2>4. WrittenInv'
        BY <1>1 DEF Core, IInv, WrittenInv, AllKnown, Known
    <2> QED
        BY <1>1, <2>1, <2>2, <2>3, <2>4 DEF Core, IInv
<1>4. LevelInv'
    <2>1. Depth(Len(callStack)) = Cardinality({}) /\ Depth(Len(callStack))' = Cardinality({})
        <3>1. \A j \in 1..0 : FALSE
            OBVIOUS
        <3>2. {j \in 1..0 : ast.isSystemHeader[callStack[j].node]} = {}
            BY <3>1
        <3>3. {j \in 1..0 : ast'.isSystemHeader[callStack'[j].node]} = {}
            BY <3>1
        <3> QED
            BY <1>1, <1>2, <3>2, <3>3 DEF Depth
    <2> QED
        BY <1>1, <2>1 DEF Core, LevelInv, LevelBalanced
<1>5. ListInv'
    BY <1>1, <1>2 DEF ListInv, CallInv, ChildrenDecidedByDepth
<1> QED
    BY <1>3, <1>4, <1>5 DEF Core

LEMMA CoreVisit ==
    ASSUME Core, NEW n \in Ids, VisitTop(n)
    PROVE  Core'
<1>1. ~ thrown /\ ~ Busy /\ Enter(n) /\ IInv /\ LevelInv /\ ListInv
    BY DEF VisitTop, Core
<1>2. IInv'
    BY <1>1, EnterStep
<1>3. LevelInv'
    BY <1>1, EnterLevel
<1>4. ListInv'
    BY <1>1, <1>2, EnterLists
<1> QED
    BY <1>2, <1>3, <1>4 DEF Core

LEMMA CoreStep ==
    ASSUME Core, Step \/ UNCHANGED vars
    PROVE  Core'
<1>1. [Next]_vars /\ IInv /\ LevelInv /\ ListInv
    BY DEF Next, Core
<1>2. IInv'
    BY <1>1, NextIInv
<1>3. LevelInv'
    BY <1>1, NextLevel
<1>4. ListInv'
    BY <1>1, <1>2, NextLists
<1> QED
    BY <1>2, <1>3, <1>4 DEF Core

(* The graph the next group is handed over with.                            *)
LEMMA NextGraph ==
    ASSUME Core, HandlingInv, NextTopLevelDecl
    PROVE  /\ ~ Busy /\ ~ thrown
           /\ ast' \in AST /\ GraphBecomes(ast')
           /\ handling.group \in 1..Len(unit.groups)
           /\ handling' = NewGroup(handling.group + 1)
           /\ handling' \in Handling
           /\ handling'.group = handling.group + 1
           /\ handling.group < Len(unit.groups)
                => ast' = unit.groups[handling.group + 1].ast
           /\ UNCHANGED <<unit, topLevelNodes, errors, status, dumpedIn>>
<1>1. /\ ~ Busy /\ ~ thrown /\ handling.group <= Len(unit.groups)
      /\ handling' = NewGroup(handling.group + 1)
      /\ ast' = IF handling.group < Len(unit.groups)
                THEN unit.groups[handling.group + 1].ast ELSE ast
      /\ UNCHANGED <<unit, topLevelNodes, errors, status, dumpedIn>>
    BY DEF NextTopLevelDecl, LoopDone, Handed, GraphBecomes
<1>2. handling.group \in 1..Len(unit.groups)
    BY <1>1, GroupTypes DEF HandlingInv
<1>3. ast' \in AST
    <2>1. CASE handling.group < Len(unit.groups)
        <3>1. handling.group + 1 \in 1..Len(unit.groups)
            BY <1>2, <2>1, UnitTypes DEF HandlingInv
        <3> QED
            BY <1>1, <2>1, <3>1, UnitTypes DEF HandlingInv
    <2>2. CASE ~ (handling.group < Len(unit.groups))
        BY <1>1, <2>2 DEF Core, IInv, Types
    <2> QED
        BY <2>1, <2>2
<1>4. GraphBecomes(ast')
    BY DEF NextTopLevelDecl, GraphBecomes
<1>5. handling' \in Handling /\ handling'.group = handling.group + 1
    BY <1>1, <1>2 DEF NewGroup, Handling, Loops
<1> QED
    BY <1>1, <1>2, <1>3, <1>4, <1>5

LEMMA CoreKept == Core /\ HandlingInv /\ [ConsumerNext]_allVars => Core'
<1> SUFFICES ASSUME Core, HandlingInv, [ConsumerNext]_allVars PROVE Core'
    OBVIOUS
<1>1. CASE UNCHANGED vars
    BY <1>1, CoreStep
<1>2. CASE VisitUserNode
    <2>1. Meeting.visit \in Ids
        BY <1>2, MeetingTypes DEF VisitUserNode, HandlingInv
    <2>2. VisitTop(Meeting.visit) \/ UNCHANGED vars
        BY <1>2 DEF VisitUserNode, VisitTopAgain
    <2> QED
        BY <1>1, <2>1, <2>2, CoreVisit
<1>3. CASE NextTopLevelDecl
    BY <1>3, NextGraph, GraphChange
<1>4. CASE DumperStep
    BY <1>4, CoreStep DEF DumperStep
<1> QED
    BY <1>1, <1>2, <1>3, <1>4
       DEF ConsumerNext, UnitStep, HandleTopLevelDecl, NameTopLevelNode, StartTraversal,
           SkipSystemNode, NextDecl, EndOfTranslationUnit, dumpFatalError, UnitDone, allVars

-----------------------------------------------------------------------------

LEMMA InitConsumer == ConsumerInit => CInv /\ RootInv
<1> SUFFICES ASSUME ConsumerInit PROVE CInv /\ RootInv
    OBVIOUS
<1>1. /\ Init /\ unit \in Units /\ ast = unit.groups[1].ast /\ handling = NewGroup(1)
      /\ topLevelNodes = {} /\ errors = <<>> /\ status = "parsing" /\ dumpedIn = <<>>
    BY DEF ConsumerInit
<1>2. Core
    BY <1>1, InitIInv, InitLevel, InitLists DEF Core
<1>3. ~ Busy /\ ~ thrown
    BY <1>1 DEF Init, Busy
<1>4. handling \in Handling /\ handling.group = 1
    BY <1>1 DEF NewGroup, Handling, Loops
<1>5. HandlingInv
    BY <1>1, <1>3, <1>4 DEF HandlingInv
<1>6. ErrorsInv
    BY <1>1, EmptySeq DEF ErrorsInv
<1>7. NamesInv
    BY <1>1 DEF NamesInv
<1> QED
    BY <1>2, <1>3, <1>5, <1>6, <1>7 DEF CInv, RootInv

(* The consumer's own positions, which stay what they are while it calls    *)
(* the dumper.                                                              *)
LEMMA NextHandling == Core /\ HandlingInv /\ [ConsumerNext]_allVars => HandlingInv'
<1> SUFFICES ASSUME Core, HandlingInv, [ConsumerNext]_allVars PROVE HandlingInv'
    OBVIOUS
<1> USE DEF HandlingInv
<1>0. /\ handling.group \in Nat \ {0} /\ handling.loop \in Loops
      /\ handling.decl \in Nat \ {0} /\ handling.meeting \in Nat \ {0}
    BY DEF Handling
<1>1. ASSUME ~ Busy, ~ thrown, UNCHANGED <<vars, unit, status>>, handling' \in Handling,
             handling'.group = handling.group
      PROVE  HandlingInv'
    BY <1>1 DEF vars, Busy
<1>2. CASE NameTopLevelNode
    <2>1. handling' \in Handling /\ handling'.group = handling.group
        BY <1>0, <1>2 DEF NameTopLevelNode, Handling
    <2> QED
        BY <1>1, <1>2, <2>1 DEF NameTopLevelNode, AtDecl, Handed
<1>3. CASE StartTraversal
    <2>1. handling' \in Handling /\ handling'.group = handling.group
        <3>1. handling' = [handling EXCEPT !.loop = "traverse", !.decl = 1]
            BY <1>3 DEF StartTraversal
        <3>2. handling' = [group |-> handling.group, loop |-> "traverse", decl |-> 1,
                           meeting |-> handling.meeting]
            BY <3>1 DEF Handling
        <3> QED
            BY <1>0, <3>2 DEF Handling, Loops
    <2> QED
        BY <1>1, <1>3, <2>1 DEF StartTraversal, LoopDone, Handed
<1>4. CASE VisitUserNode
    <2>1. /\ AtMeeting /\ UNCHANGED <<unit, status>> /\ ast' = ast
          /\ handling' = [handling EXCEPT !.meeting = @ + 1]
        BY <1>4 DEF VisitUserNode, VisitTop, VisitTopAgain, Enter, input, vars
    <2>2. /\ handling' \in Handling /\ handling'.group = handling.group
          /\ handling'.loop = handling.loop /\ handling'.decl = handling.decl
        BY <1>0, <2>1 DEF Handling
    <2>3. Inside /\ status = "parsing"
        BY <2>1, MeetingTypes DEF AtMeeting, AtDecl, Handed
    <2>4. Inside'
        BY <2>1, <2>2, <2>3 DEF Inside, Group, D
    <2> QED
        BY <2>1, <2>2, <2>3, <2>4
<1>5. CASE SkipSystemNode
    <2>1. handling' \in Handling /\ handling'.group = handling.group
        BY <1>0, <1>5 DEF SkipSystemNode, Handling
    <2> QED
        BY <1>1, <1>5, <2>1 DEF SkipSystemNode, AtMeeting, AtDecl, Handed
<1>6. CASE NextDecl
    <2>1. handling' \in Handling /\ handling'.group = handling.group
        <3>1. handling' = [handling EXCEPT !.decl = handling.decl + 1, !.meeting = 1]
            BY <1>6 DEF NextDecl
        <3>2. handling' = [group |-> handling.group, loop |-> handling.loop,
                           decl |-> handling.decl + 1, meeting |-> 1]
            BY <3>1 DEF Handling
        <3>3. handling.decl + 1 \in Nat \ {0}
            BY <1>0
        <3> QED
            BY <1>0, <3>2, <3>3 DEF Handling, Loops
    <2> QED
        BY <1>1, <1>6, <2>1 DEF NextDecl, AtDecl, Handed
<1>7. CASE NextTopLevelDecl
    <2>1. /\ ~ Busy /\ ~ thrown /\ handling' \in Handling
          /\ handling'.group = handling.group + 1 /\ handling.group \in 1..Len(unit.groups)
          /\ handling.group < Len(unit.groups) => ast' = unit.groups[handling.group + 1].ast
          /\ unit' = unit /\ callStack' = callStack /\ thrown' = thrown
        BY <1>7, NextGraph DEF GraphBecomes
    <2>2. Len(unit.groups) \in Nat
        BY UnitTypes
    <2>3. handling'.group <= Len(unit'.groups) => ast' = unit'.groups[handling'.group].ast
        BY <2>1, <2>2
    <2> QED
        BY <2>1, <2>3 DEF Busy
<1>8. CASE EndOfTranslationUnit
    <2>1. /\ ~ Busy /\ ~ thrown /\ UNCHANGED <<vars, unit, handling>>
        BY <1>8 DEF EndOfTranslationUnit
    <2> QED
        BY <2>1 DEF vars, Busy
<1>9. CASE dumpFatalError
    <2>1. /\ thrown /\ ~ Busy /\ UNCHANGED <<vars, unit, handling>>
        BY <1>9 DEF dumpFatalError, Core, IInv, Busy
    <2> QED
        BY <2>1 DEF vars, Busy, Inside, Group, D
<1>10. CASE DumperStep
    <2>1. Step /\ UNCHANGED <<unit, handling, status>>
        BY <1>10 DEF DumperStep
    <2>2. Busy
        BY <2>1 DEF Step, SuppressChild, AddChild, AddChildAgain, DirectVisit,
                    DirectVisitAgain, Finish, HandlerThrows, DataThrows, InHandler, HandlerDone
    <2>3. ast' = ast
        BY <2>1, Writes DEF Core, Next
    <2> QED
        BY <2>1, <2>2, <2>3 DEF Inside, Group, D
<1>11. CASE UNCHANGED allVars
    BY <1>11 DEF allVars, vars, consumerVars, Busy, Inside, Group, D
<1> QED
    BY <1>2, <1>3, <1>4, <1>5, <1>6, <1>7, <1>8, <1>9, <1>10, <1>11
       DEF ConsumerNext, UnitStep, HandleTopLevelDecl, UnitDone

(* The declaration an exception is about.                                   *)
LEMMA InsideDecl ==
    ASSUME HandlingInv, Inside
    PROVE  D \in Ids /\ D \in DeclsOf(handling.group)
<1>1. handling.decl \in 1..Len(Group) /\ D = Group[handling.decl]
    BY GroupTypes DEF HandlingInv, Handling, Inside, D
<1>2. D \in Ids /\ handling.decl \in DOMAIN Group /\ D # Null
    BY <1>1, GroupTypes DEF HandlingInv, Inside
<1> QED
    BY <1>1, <1>2 DEF DeclsOf, Group

LEMMA NextErrors == Core /\ HandlingInv /\ ErrorsInv /\ [ConsumerNext]_allVars => ErrorsInv'
<1> SUFFICES ASSUME Core, HandlingInv, ErrorsInv, [ConsumerNext]_allVars PROVE ErrorsInv'
    OBVIOUS
<1>1. CASE UNCHANGED <<errors, status>>
    BY <1>1 DEF ErrorsInv
<1>2. CASE EndOfTranslationUnit
    BY <1>2 DEF EndOfTranslationUnit, ErrorsInv
<1>3. CASE dumpFatalError
    <2>1. thrown /\ errors' = Append(errors, D) /\ status' = "exited"
        BY <1>3 DEF dumpFatalError
    <2>2. D \in Ids
        BY <2>1, InsideDecl DEF HandlingInv
    <2> QED
        BY <2>1, <2>2, AppendProperties DEF ErrorsInv
<1> QED
    BY <1>1, <1>2, <1>3
       DEF ConsumerNext, UnitStep, HandleTopLevelDecl, NameTopLevelNode, StartTraversal,
           VisitUserNode, SkipSystemNode, NextDecl, NextTopLevelDecl, DumperStep, UnitDone,
           allVars, consumerVars

LEMMA NextNames == HandlingInv /\ NamesInv /\ [ConsumerNext]_allVars => NamesInv'
<1> SUFFICES ASSUME HandlingInv, NamesInv, [ConsumerNext]_allVars PROVE NamesInv'
    OBVIOUS
<1>1. CASE NameTopLevelNode
    <2>1. /\ topLevelNodes' = topLevelNodes \cup {n \in {D} \ {Null} : userLocated(n)}
          /\ unit' = unit /\ AtDecl("names")
        BY <1>1 DEF NameTopLevelNode
    <2>2. handling.group <= Len(unit.groups) /\ handling.decl <= Len(Group)
        BY <2>1 DEF AtDecl, Handed
    <2>3. handling.decl \in 1..Len(Group)
        BY <2>2, GroupTypes DEF HandlingInv, Handling
    <2>4. D \in Ids
        BY <2>2, <2>3, GroupTypes DEF HandlingInv, D
    <2> QED
        BY <2>1, <2>4 DEF NamesInv, userLocated, Ids
<1>2. CASE UNCHANGED <<unit, topLevelNodes>>
    BY <1>2 DEF NamesInv, userLocated
<1> QED
    BY <1>1, <1>2
       DEF ConsumerNext, UnitStep, HandleTopLevelDecl, StartTraversal, VisitUserNode,
           SkipSystemNode, NextDecl, NextTopLevelDecl, EndOfTranslationUnit, dumpFatalError,
           DumperStep, UnitDone, allVars, consumerVars

LEMMA NextCInv == CInv /\ [ConsumerNext]_allVars => CInv'
    BY CoreKept, NextHandling, NextErrors, NextNames DEF CInv

(* The invariant of the unit, whatever its groups and graphs.               *)
THEOREM ConsumerInductive == ConsumerSpec => []CInv
<1>1. ConsumerInit => CInv
    BY InitConsumer
<1>2. CInv /\ [ConsumerNext]_allVars => CInv'
    BY NextCInv
<1> QED
    BY <1>1, <1>2, PTL DEF ConsumerSpec

-----------------------------------------------------------------------------

(* What a step writes is written in the group at hand, from its graph.      *)
LEMMA Moments ==
    ASSUME CInv, PastInv, [ConsumerNext]_allVars
    PROVE  /\ unit' = unit /\ seen \subseteq seen'
           /\ dumpedIn' \in [emitted' -> DOMAIN unit.groups]
           /\ \A n \in emitted :
                /\ n \in emitted' /\ dumpedIn'[n] = dumpedIn[n]
                /\ visitedChildren'[n] = visitedChildren[n]
           /\ \A n \in emitted' \ emitted :
                /\ Step /\ Finish /\ n = Top.node /\ dumpedIn'[n] = handling.group
                /\ ast = unit.groups[handling.group].ast
                /\ visitedChildren'[n] = Top.children
<1>1. /\ IInv /\ unit \in Units /\ emitted \subseteq DOMAIN visitedChildren
      /\ dumpedIn \in [emitted -> DOMAIN unit.groups]
    BY DEF CInv, Core, HandlingInv, IInv, PastInv
<1>2. CASE DumperStep
    <2>1. /\ Step /\ [Next]_vars /\ unit' = unit
          /\ dumpedIn' = [n \in emitted' |->
                            IF n \in emitted THEN dumpedIn[n] ELSE handling.group]
        BY <1>2 DEF DumperStep, Next
    <2>2. Busy
        BY <2>1 DEF Step, SuppressChild, AddChild, AddChildAgain, DirectVisit,
                    DirectVisitAgain, Finish, HandlerThrows, DataThrows, InHandler, HandlerDone
    <2>3. /\ handling.group \in DOMAIN unit.groups
          /\ ast = unit.groups[handling.group].ast
        BY <2>2, UnitTypes, GroupTypes DEF CInv, HandlingInv, Inside
    <2>4. /\ seen \subseteq seen' /\ emitted \subseteq emitted'
          /\ \A n \in emitted : visitedChildren'[n] = visitedChildren[n]
        BY <1>1, <2>1, Writes, FrozenRecords
    <2>5. ASSUME NEW n \in emitted' \ emitted
          PROVE  Finish /\ n = Top.node /\ visitedChildren'[n] = Top.children
        <3>1. Finish
            BY <1>1, <2>1, <2>5, Writes
        <3>2. Busy /\ WriteChildren /\ emitted' = emitted \cup {Top.node}
            BY <3>1 DEF Finish, HandlerDone
        <3>3. n = Top.node
            BY <2>5, <3>2
        <3> QED
            BY <1>1, <3>1, <3>2, <3>3, ChildrenWritten DEF IInv
    <2>6. dumpedIn' \in [emitted' -> DOMAIN unit.groups]
        BY <1>1, <2>1, <2>3
    <2>7. \A n \in emitted : dumpedIn'[n] = dumpedIn[n]
        BY <2>1, <2>4
    <2>8. \A n \in emitted' \ emitted : dumpedIn'[n] = handling.group
        BY <2>1
    <2> QED
        BY <2>1, <2>3, <2>4, <2>5, <2>6, <2>7, <2>8
<1>3. CASE ~ DumperStep
    <2>1. UNCHANGED <<unit, dumpedIn, emitted, visitedChildren>> /\ seen \subseteq seen'
        BY <1>3
           DEF ConsumerNext, UnitStep, HandleTopLevelDecl, NameTopLevelNode, StartTraversal,
               VisitUserNode, SkipSystemNode, NextDecl, NextTopLevelDecl, GraphBecomes,
               EndOfTranslationUnit, dumpFatalError, UnitDone, allVars, consumerVars, vars,
               stream, VisitTop, VisitTopAgain, Enter
    <2> QED
        BY <1>1, <2>1
<1> QED
    BY <1>2, <1>3

LEMMA NextPast == CInv /\ PastInv /\ [ConsumerNext]_allVars => PastInv'
<1> SUFFICES ASSUME CInv, PastInv, [ConsumerNext]_allVars PROVE PastInv'
    OBVIOUS
<1>1. /\ IInv /\ ListInv /\ dumpedIn \in [emitted -> DOMAIN unit.groups]
      /\ unit' = unit /\ Known \subseteq Known'
    BY Moments DEF CInv, Core, PastInv, Known
<1>2. ASSUME NEW n \in emitted
      PROVE  PastVisits(n)' /\ PastList(n)'
    <2>1. WrittenAst(n)' = WrittenAst(n)
        BY <1>1, <1>2, Moments DEF WrittenAst
    <2>2. PastVisits(n) /\ PastList(n) /\ visitedChildren'[n] = visitedChildren[n]
        BY <1>2, Moments DEF PastInv
    <2>3. PastVisits(n)'
        BY <1>1, <2>1, <2>2 DEF PastVisits
    <2>4. PastList(n)'
        BY <2>1, <2>2 DEF PastList
    <2> QED
        BY <2>3, <2>4
<1>3. ASSUME NEW n \in emitted' \ emitted
      PROVE  PastVisits(n)' /\ PastList(n)'
    <2>1. /\ Finish /\ n = Top.node /\ dumpedIn'[n] = handling.group
          /\ ast = unit.groups[handling.group].ast /\ visitedChildren'[n] = Top.children
        BY <1>3, Moments
    <2>2. WrittenAst(n)' = ast
        BY <1>1, <2>1 DEF WrittenAst
    <2>3. HandlerDone /\ Busy /\ Top.pc > Len(ast.visit[n])
        BY <2>1 DEF Finish, HandlerDone, Handler
    <2>4. PastList(n)'
        <3>1. \E past \in BOOLEAN : ListedByAll(Top.children, ast.visit[n], past)
            BY <1>1, <2>1, <2>3, ListComplete
        <3> QED
            BY <2>1, <2>2, <3>1 DEF PastList
    <2>5. PastVisits(n)'
        <3>1. Top \in Frames /\ FrameInv(Top) /\ ast \in AST
            BY <1>1, <2>3, TopFrame DEF IInv, StackInv, Types, Top
        <3>2. Len(ast.visit[n]) \in Nat /\ Top.pc \in Nat
            BY <2>1, <3>1, HandlerTypes, FrameTypes
        <3>3. Top.pc - 1 = Len(ast.visit[n])
            <4>1. Top.pc <= Len(ast.visit[n]) + 1
                BY <2>1, <3>1 DEF FrameInv
            <4> QED
                BY <2>3, <3>2, <4>1
        <3>4. VisitsMade(n, Len(ast.visit[n]))
            BY <2>1, <3>1, <3>3 DEF FrameInv
        <3> QED
            BY <1>1, <2>2, <3>4 DEF PastVisits, VisitsMade
    <2> QED
        BY <2>4, <2>5
<1> QED
    BY <1>1, <1>2, <1>3, Moments DEF PastInv

LEMMA PastInductive == ConsumerSpec => []PastInv
<1>1. ConsumerInit => PastInv
    BY DEF ConsumerInit, Init, PastInv
<1>2. CInv /\ PastInv /\ [ConsumerNext]_allVars => PastInv'
    BY NextPast
<1> QED
    BY <1>1, <1>2, ConsumerInductive, PTL DEF ConsumerSpec

(* Type correctness of the consumer and of the dumper under it.             *)
THEOREM ConsumerTypeCorrect == ConsumerSpec => []ConsumerTypeOK
<1>1. CInv /\ PastInv => ConsumerTypeOK
    BY UnitTypes DEF CInv, Core, IInv, Types, LevelInv, TypeOK, HandlingInv, ErrorsInv,
                     NamesInv, PastInv, ConsumerTypeOK
<1> QED
    BY <1>1, ConsumerInductive, PastInductive, PTL

(* The list of children and the data of a node come from one moment,        *)
(* whatever the parser does to the node later (HandleTopLevelDecl).         *)
THEOREM RecordsAreSnapshotsHolds == ConsumerSpec => []RecordsAreSnapshots
<1>1. PastInv => RecordsAreSnapshots
    BY DEF PastInv, PastList, RecordsAreSnapshots
<1> QED
    BY <1>1, PastInductive, PTL

-----------------------------------------------------------------------------

(* Between two calls every seen node is written.                            *)
LEMMA Idle ==
    ASSUME IInv, ~ Busy, ~ thrown
    PROVE  Known = emitted \cup {Null} /\ DOMAIN visitedChildren = emitted
<1>1. OnStack = {}
    BY EmptySeq DEF OnStack, Busy
<1> QED
    BY <1>1 DEF IInv, SerializedOnce, Known

(* The stream is closed although nodes change after they are written, for   *)
(* units where a data record mentions only what the node's own visits at    *)
(* that moment, and visits made at all times, lead to.                      *)
THEOREM RecordsClosedHolds ==
    ASSUME \A u \in Units : ReferencesVisitedThroughout(u)
    PROVE  ConsumerSpec => []RecordsClosed
<1>1. CInv /\ PastInv => RecordsClosed
    <2> SUFFICES ASSUME CInv, PastInv, ~ Busy, ~ thrown, NEW n \in emitted
                 PROVE  Mentions(n) \subseteq emitted \cup {Null}
        BY DEF RecordsClosed
    <2> DEFINE a == unit.groups[dumpedIn[n]].ast
    <2>1. /\ IInv /\ Types /\ unit \in Units /\ ReferencesVisitedThroughout(unit)
          /\ Known = emitted \cup {Null} /\ emitted \in SUBSET Nodes
        BY Idle DEF CInv, Core, HandlingInv, IInv, Types
    <2>2. \A m \in emitted : dumpedIn[m] \in DOMAIN unit.groups /\ PastVisits(m) /\ m \in Nodes
        BY <2>1 DEF PastInv
    <2>3. ASSUME NEW m \in emitted
          PROVE  DOMAIN WrittenAst(m).visit[m] = 1..Len(WrittenAst(m).visit[m])
        <3>1. WrittenAst(m) \in AST
            BY <2>1, <2>2, UnitTypes DEF WrittenAst
        <3>2. WrittenAst(m).visit[m] \in Seq(Visits)
            BY <2>2, <3>1 DEF AST
        <3> QED
            BY <3>2, LenProperties
    <2>4. \A k \in DOMAIN a.visit[n] :
                a.visit[n][k].op \in DirectVisits => a.visit[n][k].to \in emitted \cup {Null}
        BY <2>1, <2>2, <2>3 DEF PastVisits, WrittenAst
    <2>5. ASSUME NEW m \in emitted, NEW x \in AlwaysVisited(unit, m)
          PROVE  x \in emitted
        <3>1. /\ x \in Nodes
              /\ \E k \in 1..Len(WrittenAst(m).visit[m]) :
                    /\ WrittenAst(m).visit[m][k].op \in DirectVisits
                    /\ WrittenAst(m).visit[m][k].to = x
            BY <2>2 DEF AlwaysVisited, WrittenAst
        <3>2. x \in Known
            BY <2>2, <3>1 DEF PastVisits
        <3> QED
            BY <2>1, <3>1, <3>2, NullAssumption
    <2>6. \A m \in emitted : AlwaysVisited(unit, m) \subseteq emitted
        BY <2>5
    <2>7. a.data[n] \subseteq emitted \cup {Null}
        BY <2>1, <2>2, <2>4, <2>6 DEF ReferencesVisitedThroughout
    <2>8. \A i \in DOMAIN visitedChildren[n] : visitedChildren[n][i] \in emitted \cup {Null}
        BY <2>1 DEF IInv, WrittenInv, AllKnown
    <2> QED
        BY <2>7, <2>8 DEF Mentions, WrittenAst
<1> QED
    BY <1>1, ConsumerInductive, PastInductive, PTL

-----------------------------------------------------------------------------

NextLoop == handling.loop = "names" => handling.meeting = 1

LEMMA NextTraversal ==
    CInv /\ PastInv /\ NextLoop /\ TraversalInv /\ [ConsumerNext]_allVars
        => NextLoop' /\ TraversalInv'
<1> SUFFICES ASSUME CInv, PastInv, NextLoop, TraversalInv, [ConsumerNext]_allVars
             PROVE  NextLoop' /\ TraversalInv'
    OBVIOUS
<1>1. /\ unit \in Units /\ handling \in Handling /\ unit' = unit /\ Known \subseteq Known'
      /\ handling.decl \in Nat \ {0} /\ handling.meeting \in Nat \ {0}
    BY Moments DEF CInv, HandlingInv, Handling, Known
<1>2. \A m : MeetingDone(m, Known) => MeetingDone(m, Known')
    BY <1>1 DEF MeetingDone
<1>3. ASSUME handling'.group = handling.group, handling'.loop = "traverse",
             handling.group <= Len(unit.groups) =>
                \A i \in 1..Len(Group) : \A k \in 1..Len(Traversal(Group[i])) :
                    Passed(handling', i, k) => MeetingDone(Traversal(Group[i])[k], Known')
      PROVE  NextLoop' /\ TraversalInv'
    <2>1. Group' = Group /\ \A d : Traversal(d)' = Traversal(d)
        BY <1>1, <1>3 DEF Group, Traversal
    <2>2. \A m : MeetingDone(m, Known)' <=> MeetingDone(m, Known')
        BY <1>1 DEF MeetingDone, userLocated
    <2> QED
        BY <1>1, <1>3, <2>1, <2>2 DEF TraversalInv, NextLoop
<1>4. ASSUME handling'.loop = "names", handling'.meeting = 1
      PROVE  NextLoop' /\ TraversalInv'
    BY <1>4 DEF TraversalInv, NextLoop
<1>5. CASE NameTopLevelNode
    <2>1. handling' = [handling EXCEPT !.decl = @ + 1] /\ handling.loop = "names"
        BY <1>5 DEF NameTopLevelNode, AtDecl
    <2>2. handling'.loop = "names" /\ handling'.meeting = 1
        BY <1>1, <2>1 DEF NextLoop, Handling
    <2> QED
        BY <2>2, <1>4
<1>6. CASE StartTraversal
    <2>1. /\ handling' = [handling EXCEPT !.loop = "traverse", !.decl = 1]
          /\ handling.loop = "names"
        BY <1>6 DEF StartTraversal, LoopDone
    <2>2. handling' = [group |-> handling.group, loop |-> "traverse", decl |-> 1,
                       meeting |-> 1]
        BY <1>1, <2>1 DEF NextLoop, Handling
    <2>3. \A i, k \in Nat \ {0} : ~ Passed(handling', i, k)
        BY <2>2 DEF Passed
    <2>4. handling.group <= Len(unit.groups) => \A i \in 1..Len(Group) :
                i \in Nat \ {0} /\ \A k \in 1..Len(Traversal(Group[i])) : k \in Nat \ {0}
        BY <1>1, GroupTypes
    <2> QED
        BY <1>3, <2>2, <2>3, <2>4
<1>7. CASE VisitUserNode \/ SkipSystemNode
    <2>1. AtMeeting /\ handling' = [handling EXCEPT !.meeting = @ + 1]
        BY <1>7 DEF VisitUserNode, SkipSystemNode
    <2>2. /\ handling'.group = handling.group /\ handling'.loop = "traverse"
          /\ handling'.decl = handling.decl /\ handling'.meeting = handling.meeting + 1
          /\ handling.loop = "traverse" /\ handling.group <= Len(unit.groups)
        BY <1>1, <2>1 DEF Handling, AtMeeting, AtDecl, Handed
    <2>3. MeetingDone(Meeting, Known')
        <3>1. CASE SkipSystemNode
            BY <3>1 DEF SkipSystemNode, MeetingDone
        <3>2. CASE VisitUserNode
            <4>1. VisitTop(Meeting.visit) \/ VisitTopAgain(Meeting.visit)
                BY <3>2 DEF VisitUserNode
            <4>2. Meeting.visit \in Known'
                BY <1>1, <4>1 DEF VisitTop, Enter, VisitTopAgain, alreadyDumped, Known
            <4> QED
                BY <4>2 DEF MeetingDone
        <3> QED
            BY <1>7, <3>1, <3>2
    <2>4. ASSUME NEW i \in 1..Len(Group), NEW k \in 1..Len(Traversal(Group[i])),
                 Passed(handling', i, k)
          PROVE  MeetingDone(Traversal(Group[i])[k], Known')
        <3>1. i \in Nat /\ k \in Nat
            BY <1>1, <2>2, GroupTypes
        <3>2. Passed(handling, i, k) \/ (i = handling.decl /\ k = handling.meeting)
            BY <1>1, <2>2, <2>4, <3>1 DEF Passed
        <3>3. CASE Passed(handling, i, k)
            BY <1>2, <2>2, <3>3 DEF TraversalInv
        <3>4. CASE i = handling.decl /\ k = handling.meeting
            BY <2>3, <3>4 DEF Meeting, D
        <3> QED
            BY <3>2, <3>3, <3>4
    <2> QED
        BY <1>3, <2>2, <2>4
<1>8. CASE NextDecl
    <2>1. /\ handling.loop = "traverse" /\ handling.group <= Len(unit.groups)
          /\ handling.decl <= Len(Group) /\ handling.meeting > Len(Traversal(D))
          /\ handling' = [handling EXCEPT !.decl = handling.decl + 1, !.meeting = 1]
        BY <1>8 DEF NextDecl, AtDecl, Handed
    <2>2. handling' = [group |-> handling.group, loop |-> "traverse",
                       decl |-> handling.decl + 1, meeting |-> 1]
        BY <1>1, <2>1 DEF Handling
    <2>3. ASSUME NEW i \in 1..Len(Group), NEW k \in 1..Len(Traversal(Group[i])),
                 Passed(handling', i, k)
          PROVE  MeetingDone(Traversal(Group[i])[k], Known')
        <3>1. i \in Nat /\ k \in Nat \ {0} /\ Len(Traversal(Group[i])) \in Nat
            BY <1>1, <2>1, GroupTypes
        <3>2. i < handling.decl + 1
            BY <2>2, <2>3, <3>1 DEF Passed
        <3>3. i = handling.decl => k < handling.meeting
            BY <1>1, <2>1, <3>1 DEF D
        <3>4. Passed(handling, i, k)
            BY <1>1, <3>1, <3>2, <3>3 DEF Passed
        <3> QED
            BY <1>2, <2>1, <3>4 DEF TraversalInv
    <2> QED
        BY <1>3, <2>2, <2>3
<1>9. CASE NextTopLevelDecl
    <2>1. handling' = NewGroup(handling.group + 1)
        BY <1>9 DEF NextTopLevelDecl
    <2>2. handling'.loop = "names" /\ handling'.meeting = 1
        BY <2>1 DEF NewGroup
    <2> QED
        BY <1>4, <2>2
<1>10. CASE handling' = handling
    <2>1. CASE handling.loop = "traverse"
        BY <1>2, <1>3, <1>10, <2>1 DEF TraversalInv
    <2>2. CASE handling.loop # "traverse"
        BY <1>1, <1>4, <1>10, <2>2 DEF NextLoop, Handling, Loops
    <2> QED
        BY <2>1, <2>2
<1> QED
    BY <1>5, <1>6, <1>7, <1>8, <1>9, <1>10
       DEF ConsumerNext, UnitStep, HandleTopLevelDecl, EndOfTranslationUnit, dumpFatalError,
           DumperStep, UnitDone, allVars, consumerVars

(* All user nodes of a group are written when the parser goes on.           *)
GroupDumped(g, written) ==
    \A m \in Met(g) : MeetingDone(m, written \cup {Null})

GroupsInv == \A g \in GroupsDone : GroupDumped(g, emitted)

LEMMA NextGroups ==
    CInv /\ PastInv /\ TraversalInv /\ GroupsInv /\ [ConsumerNext]_allVars => GroupsInv'
<1> SUFFICES ASSUME CInv, PastInv, TraversalInv, GroupsInv, [ConsumerNext]_allVars
             PROVE  GroupsInv'
    OBVIOUS
<1>1. /\ unit \in Units /\ handling \in Handling /\ unit' = unit /\ emitted \subseteq emitted'
      /\ IInv
    BY Moments DEF CInv, Core, HandlingInv
<1>2. ASSUME \A g \in GroupsDone' : GroupDumped(g, emitted) PROVE GroupsInv'
    <2>1. \A g : Met(g)' = Met(g)
        BY <1>1 DEF Met, DeclsOf
    <2>2. \A m : MeetingDone(m, emitted \cup {Null}) => MeetingDone(m, emitted \cup {Null})'
        BY <1>1 DEF MeetingDone, userLocated
    <2> QED
        BY <1>2, <2>1, <2>2 DEF GroupsInv, GroupDumped
<1>3. CASE handling'.group = handling.group
    <2>1. GroupsDone' = GroupsDone
        BY <1>1, <1>3 DEF GroupsDone
    <2> QED
        BY <1>2, <2>1 DEF GroupsInv
<1>4. CASE NextTopLevelDecl
    <2>1. /\ ~ Busy /\ ~ thrown /\ handling.group \in 1..Len(unit.groups)
          /\ handling.group <= Len(unit.groups)
          /\ handling'.group = handling.group + 1 /\ LoopDone("traverse")
        BY <1>4, NextGraph DEF CInv, NextTopLevelDecl, LoopDone, Handed
    <2>2. Known = emitted \cup {Null}
        BY <1>1, <2>1, Idle
    <2>3. ASSUME NEW m \in Met(handling.group)
          PROVE  MeetingDone(m, emitted \cup {Null})
        <3>1. PICK d \in DeclsOf(handling.group) \ unit.implicit :
                    \E k \in DOMAIN unit.groups[handling.group].traversal[d] :
                        m = unit.groups[handling.group].traversal[d][k]
            BY <2>3 DEF Met
        <3>2. PICK i \in DOMAIN Group : d = Group[i]
            BY <3>1 DEF DeclsOf, Group
        <3>3. i \in 1..Len(Group) /\ d # Null
            BY <1>1, <2>1, <3>1, <3>2, GroupTypes DEF DeclsOf
        <3>4. Traversal(d) = unit.groups[handling.group].traversal[d]
            BY <3>1, <3>3 DEF Traversal
        <3>5. PICK k \in DOMAIN Traversal(d) : m = Traversal(d)[k]
            BY <3>1, <3>4
        <3>6. k \in 1..Len(Traversal(Group[i]))
            BY <1>1, <2>1, <3>2, <3>3, <3>5, GroupTypes, LenProperties
        <3>7. i < handling.decl
            <4>1. Len(Group) \in Nat /\ handling.decl \in Nat /\ handling.decl > Len(Group)
                BY <1>1, <2>1, GroupTypes DEF LoopDone, Handling
            <4> QED
                BY <3>3, <4>1
        <3>8. MeetingDone(Traversal(Group[i])[k], Known)
            BY <2>1, <3>3, <3>6, <3>7 DEF TraversalInv, Passed, LoopDone
        <3> QED
            BY <2>2, <3>2, <3>5, <3>8
    <2>4. \A g \in GroupsDone' : g \in GroupsDone \/ g = handling.group
        BY <1>1, <2>1, UnitTypes DEF GroupsDone
    <2>5. \A g \in GroupsDone' : GroupDumped(g, emitted)
        BY <2>3, <2>4 DEF GroupDumped, GroupsInv
    <2> QED
        BY <1>2, <2>5
<1>5. handling'.group = handling.group \/ NextTopLevelDecl
    BY <1>1
       DEF ConsumerNext, UnitStep, HandleTopLevelDecl, NameTopLevelNode, StartTraversal,
           VisitUserNode, SkipSystemNode, NextDecl, EndOfTranslationUnit, dumpFatalError,
           DumperStep, UnitDone, allVars, consumerVars, Handling
<1> QED
    BY <1>3, <1>4, <1>5

LEMMA InitGroups == ConsumerInit => NextLoop /\ TraversalInv /\ GroupsInv
<1> SUFFICES ASSUME ConsumerInit PROVE NextLoop /\ TraversalInv /\ GroupsInv
    OBVIOUS
<1>1. handling.group = 1 /\ handling.loop = "names" /\ handling.meeting = 1 /\ unit \in Units
    BY DEF ConsumerInit, NewGroup
<1>2. GroupsDone = {}
    BY <1>1, UnitTypes DEF GroupsDone
<1> QED
    BY <1>1, <1>2 DEF NextLoop, TraversalInv, GroupsInv

LEMMA GroupsInductive == ConsumerSpec => [](NextLoop /\ TraversalInv /\ GroupsInv)
<1>1. CInv /\ PastInv /\ NextLoop /\ TraversalInv /\ GroupsInv /\ [ConsumerNext]_allVars
        => (NextLoop /\ TraversalInv /\ GroupsInv)'
    BY NextTraversal, NextGroups
<1> QED
    BY <1>1, InitGroups, ConsumerInductive, PastInductive, PTL DEF ConsumerSpec

(* The roots that were named have their records once their group has been   *)
(* handled, and so has every user node the visitor met in it, for the       *)
(* visitor calls VisitDecl() at each declaration it traverses.              *)
THEOREM TopLevelNodesDumpedHolds ==
    ASSUME \A u \in Units : VisitorMeetsDecls(u)
    PROVE  ConsumerSpec => []TopLevelNodesDumped
<1>1. CInv /\ GroupsInv => TopLevelNodesDumped
    <2> SUFFICES ASSUME CInv, GroupsInv, NEW g \in GroupsDone
                 PROVE  /\ \A d \in DeclsOf(g) \cap topLevelNodes : d \in emitted
                        /\ \A m \in Met(g) : userLocated(m.at) => m.visit \in emitted \cup {Null}
        BY DEF TopLevelNodesDumped
    <2>1. /\ unit \in Units /\ VisitorMeetsDecls(unit) /\ g \in DOMAIN unit.groups
          /\ topLevelNodes \subseteq Nodes /\ \A n \in topLevelNodes : userLocated(n)
        BY DEF CInv, HandlingInv, NamesInv, GroupsDone
    <2>2. \A m \in Met(g) : userLocated(m.at) => m.visit \in emitted \cup {Null}
        BY DEF GroupsInv, GroupDumped, MeetingDone
    <2>3. ASSUME NEW d \in DeclsOf(g) \cap topLevelNodes
          PROVE  d \in emitted
        <3>1. PICK i \in DOMAIN unit.groups[g].decls : d = unit.groups[g].decls[i]
            BY <2>3 DEF DeclsOf
        <3>2. d # Null /\ d \in Nodes /\ userLocated(d)
            BY <2>1, <2>3 DEF DeclsOf
        <3>3. d \notin unit.implicit
            BY <2>1, <3>1, UnitsAssumption
        <3>4. PICK k \in DOMAIN unit.groups[g].traversal[d] :
                    unit.groups[g].traversal[d][k] = [at |-> d, visit |-> d]
            BY <2>1, <3>1, <3>2 DEF VisitorMeetsDecls
        <3>5. [at |-> d, visit |-> d] \in Met(g)
            BY <2>3, <3>3, <3>4 DEF Met
        <3>6. [at |-> d, visit |-> d].at = d /\ [at |-> d, visit |-> d].visit = d
            OBVIOUS
        <3> QED
            BY <2>2, <3>2, <3>5, <3>6
    <2> QED
        BY <2>2, <2>3
<1> QED
    BY <1>1, ConsumerInductive, GroupsInductive, PTL

-----------------------------------------------------------------------------

(* The dumper keeps the outermost node of a call until the call returns.    *)
LEMMA RootKept ==
    ASSUME IInv, Step
    PROVE  /\ Busy
           /\ Busy' => callStack'[1].node = callStack[1].node
           /\ ~ Busy' /\ ~ thrown' => Finish /\ Len(callStack) = 1
<1>1. Busy
    BY DEF Step, SuppressChild, AddChild, AddChildAgain, DirectVisit, DirectVisitAgain,
           Finish, HandlerThrows, DataThrows, InHandler, HandlerDone
<1>2. /\ Len(callStack) \in Nat /\ Len(callStack) > 0 /\ callStack \in Seq(Frames)
      /\ Top = callStack[Len(callStack)] /\ 1 \in 1..Len(callStack)
    BY <1>1, TopFrame DEF IInv, Types, Top
<1>3. CASE SuppressChild \/ AddChildAgain \/ DirectVisitAgain
    <2>1. callStack' # <<>>
        BY <1>3, SuppressStep, AgainStep
    <2>2. PICK g : g.node = Top.node /\ Return(g) /\ g \in Frames
        <3>1. CASE SuppressChild
            <4>1. InHandler /\ Current.op = "addChild" /\ Return([Top EXCEPT !.pc = @ + 1])
                BY <3>1 DEF SuppressChild
            <4>2. [Top EXCEPT !.pc = @ + 1] \in Frames /\ [Top EXCEPT !.pc = @ + 1].node = Top.node
                BY <4>1, CurrentCall, SkippedFrame DEF DirectVisits
            <4> QED
                BY <4>1, <4>2
        <3>2. CASE AddChildAgain \/ DirectVisitAgain
            <4>1. InHandler /\ Return(Returned(Top, Current)) /\ alreadyDumped(Current.to)
                BY <3>2 DEF AddChildAgain, DirectVisitAgain
            <4>2. WaitingInv(Top)
                BY <4>1, CurrentCall DEF WaitingInv, alreadyDumped, Known
            <4>3. Returned(Top, Current) \in Frames /\ Returned(Top, Current).node = Top.node
                BY <4>1, <4>2, CurrentCall, ReturnedFrame
            <4> QED
                BY <4>1, <4>3
        <3> QED
            BY <1>3, <3>1, <3>2
    <2>3. callStack'[1] = IF 1 = Len(callStack) THEN g ELSE callStack[1]
        <3>1. Len(callStack) \in 1..Len(callStack)
            BY <1>2
        <3> QED
            BY <1>2, <2>2, <3>1, ExceptSeq DEF Return
    <2> QED
        BY <1>1, <1>2, <2>1, <2>2, <2>3 DEF Busy
<1>4. CASE AddChild \/ DirectVisit
    <2>1. InHandler /\ Enter(Current.to)
        BY <1>4 DEF AddChild, DirectVisit
    <2> DEFINE f == [node |-> Current.to, pc |-> 1, children |-> <<>>]
    <2>2. callStack' = Append(callStack, f) /\ f \in Frames
        BY <2>1, CurrentCall, EmptySeq DEF Enter, alreadyDumped, Ids, Frames
    <2> HIDE DEF f
    <2>3. callStack'[1] = callStack[1] /\ Len(callStack') = Len(callStack) + 1
        BY <1>2, <2>2, AppendProperties
    <2>4. callStack' # <<>>
        BY <1>2, <2>3, EmptySeq
    <2> QED
        BY <1>1, <2>3, <2>4 DEF Busy
<1>5. CASE Finish
    <2>1. /\ callStack' \in Seq(Frames) /\ Len(callStack') = Len(callStack) - 1
          /\ \A i \in 1..(Len(callStack) - 1) : callStack'[i].node = callStack[i].node
        BY <1>1, <1>5, PoppedStack DEF Finish, IInv
    <2>2. Busy' => 1 \in 1..(Len(callStack) - 1)
        BY <1>2, <2>1, EmptySeq DEF Busy
    <2>3. ~ Busy' => Len(callStack) = 1
        BY <1>2, <2>1, EmptySeq DEF Busy
    <2> QED
        BY <1>1, <1>5, <2>1, <2>2, <2>3
<1>6. CASE HandlerThrows \/ DataThrows
    BY <1>1, <1>6 DEF HandlerThrows, DataThrows, Unwind, Busy
<1> QED
    BY <1>3, <1>4, <1>5, <1>6 DEF Step

(* A call of the consumer begins at a node that is not in a system header.  *)
LEMMA UserRoot ==
    ASSUME HandlingInv, AtMeeting, userLocated(Meeting.at), Meeting.visit # Null
    PROVE  Meeting.visit \in Nodes /\ ~ ast.isSystemHeader[Meeting.visit]
<1> DEFINE group == unit.groups[handling.group]
<1>1. /\ unit \in Units /\ handling.group \in DOMAIN unit.groups /\ ast = group.ast
      /\ D \in Nodes /\ handling.meeting \in 1..Len(Traversal(D))
      /\ Meeting.visit \in Nodes
    BY MeetingTypes, UnitTypes DEF HandlingInv, Ids
<1>2. Traversal(D) = group.traversal[D]
    <2>1. CASE D \in unit.implicit
        <3>1. Traversal(D) = <<>>
            BY <2>1 DEF Traversal
        <3> QED
            BY <1>1, <3>1, EmptySeq
    <2>2. CASE D \notin unit.implicit
        BY <1>1, <2>2, NullAssumption DEF Traversal
    <2> QED
        BY <2>1, <2>2
<1>3. group.traversal[D] \in Seq(Meetings)
    BY <1>1, UnitTypes
<1>4. handling.meeting \in DOMAIN group.traversal[D]
    BY <1>1, <1>2, <1>3, LenProperties
<1>5. Meeting.visit \in {Meeting.at, Null} \/ unit.location[Meeting.visit] = "invalid"
    <2>1. \A n \in Nodes : \A i \in DOMAIN group.traversal[n] :
                \/ group.traversal[n][i].visit \in {group.traversal[n][i].at, Null}
                \/ unit.location[group.traversal[n][i].visit] = "invalid"
        BY <1>1, UnitsAssumption
    <2>2. Meeting = group.traversal[D][handling.meeting]
        BY <1>2 DEF Meeting
    <2> HIDE DEF group
    <2> QED
        BY <1>1, <1>4, <2>1, <2>2
<1>6. unit.location[Meeting.visit] # "system"
    BY <1>5 DEF userLocated
<1> QED
    BY <1>1, <1>6, UnitsAssumption

LEMMA NextRoot == CInv /\ RootInv /\ [ConsumerNext]_allVars => RootInv'
<1> SUFFICES ASSUME CInv, RootInv, [ConsumerNext]_allVars, Busy'
             PROVE  ~ ast'.isSystemHeader[callStack'[1].node]
    BY DEF RootInv
<1>1. IInv /\ HandlingInv
    BY DEF CInv, Core
<1>2. CASE UNCHANGED vars
    BY <1>2 DEF vars, RootInv, Busy
<1>3. CASE VisitUserNode
    <2>1. CASE VisitTopAgain(Meeting.visit)
        BY <1>2, <2>1 DEF VisitTopAgain
    <2>2. CASE VisitTop(Meeting.visit)
        <3> DEFINE f == [node |-> Meeting.visit, pc |-> 1, children |-> <<>>]
        <3>1. /\ callStack = <<>> /\ callStack' = Append(callStack, f) /\ ast' = ast
              /\ Meeting.visit # Null
            BY <2>2 DEF VisitTop, Enter, alreadyDumped, Busy, input
        <3>2. callStack'[1].node = Meeting.visit
            <4>1. callStack' = <<f>> /\ f.node = Meeting.visit
                BY <3>1
            <4> HIDE DEF f
            <4> QED
                BY <4>1
        <3> QED
            BY <1>1, <1>3, <3>1, <3>2, UserRoot DEF VisitUserNode
    <2> QED
        BY <1>3, <2>1, <2>2 DEF VisitUserNode
<1>4. CASE NextTopLevelDecl
    BY <1>4 DEF NextTopLevelDecl, LoopDone, Handed, GraphBecomes, Busy
<1>5. CASE DumperStep
    <2>1. Step /\ ast' = ast
        BY <1>1, <1>5, Writes DEF DumperStep, Next
    <2> QED
        BY <1>1, <2>1, RootKept DEF RootInv
<1> QED
    BY <1>2, <1>3, <1>4, <1>5
       DEF ConsumerNext, UnitStep, HandleTopLevelDecl, NameTopLevelNode, StartTraversal,
           SkipSystemNode, NextDecl, EndOfTranslationUnit, dumpFatalError, UnitDone, allVars

LEMMA RootInductive == ConsumerSpec => []RootInv
<1>1. ConsumerInit => RootInv
    BY InitConsumer
<1>2. CInv /\ RootInv /\ [ConsumerNext]_allVars => RootInv'
    BY NextRoot
<1> QED
    BY <1>1, <1>2, ConsumerInductive, PTL DEF ConsumerSpec

(* A node the consumer hands over lists all its children, whatever the      *)
(* threshold and whatever was visited before it.                            *)
THEOREM ConsumerNodesCompleteHolds == ConsumerSpec => ConsumerNodesComplete
<1> DEFINE Complete ==
        Len(callStack) = 1 /\ callStack' = <<>> /\ ~ thrown' =>
            LET n == callStack[1].node
            IN  ListedByAll(visitedChildren'[n], ast.visit[n], FALSE)
<1>1. CInv /\ RootInv /\ [ConsumerNext]_allVars => Complete
    <2> SUFFICES ASSUME CInv, RootInv, [ConsumerNext]_allVars,
                        Len(callStack) = 1, callStack' = <<>>, ~ thrown'
                 PROVE  ListedByAll(visitedChildren'[callStack[1].node],
                                    ast.visit[callStack[1].node], FALSE)
        OBVIOUS
    <2>1. IInv /\ LevelInv /\ ListInv
        BY DEF CInv, Core
    <2>2. Busy
        BY EmptySeq DEF Busy
    <2>3. DumperStep
        <3>1. callStack' # callStack
            BY <2>2 DEF Busy
        <3> QED
            BY <2>2, <3>1
               DEF ConsumerNext, UnitStep, HandleTopLevelDecl, NameTopLevelNode,
                   StartTraversal, VisitUserNode, VisitTop, VisitTopAgain, SkipSystemNode,
                   NextDecl, NextTopLevelDecl, LoopDone, Handed, EndOfTranslationUnit,
                   dumpFatalError, UnitDone, allVars, vars, AtMeeting, AtDecl
    <2>4. Finish
        BY <2>1, <2>3, RootKept DEF DumperStep, Busy
    <2>5. /\ HandlerDone /\ Top = callStack[1] /\ visitedChildren'[Top.node] = Top.children
          /\ Top.pc > Len(ast.visit[Top.node])
        BY <2>1, <2>2, <2>4, ChildrenWritten DEF Finish, HandlerDone, Handler, IInv, Top
    <2>6. Top \in Frames /\ FrameInv(Top) /\ ast \in AST /\ 1 \in 1..Len(callStack)
        BY <2>1, <2>2, TopFrame DEF IInv, StackInv, Types, Top
    <2>7. Top.pc - 1 = Len(ast.visit[Top.node])
        <3>1. Len(ast.visit[Top.node]) \in Nat /\ Top.pc \in Nat
            BY <2>6, HandlerTypes, FrameTypes
        <3> QED
            BY <2>5, <2>6, <3>1 DEF FrameInv
    <2>8. Decided(1)
        BY <2>1, <2>6, ListInvOfFrames DEF ListInv
    <2>9. Past(1) = FALSE
        <3>1. ~ ast.isSystemHeader[callStack[1].node]
            BY <2>2 DEF RootInv
        <3>2. {j \in 1..1 : ast.isSystemHeader[callStack[j].node]} = {}
            <4>1. \A j \in 1..1 : j = 1
                OBVIOUS
            <4> QED
                BY <3>1, <4>1
        <3>3. Depth(1) = 0
            BY <3>2, FS_EmptySet DEF Depth
        <3>4. systemHeaderThreshold \in Int
            BY <2>1, ThresholdsAssumption DEF IInv, Types
        <3> QED
            BY <3>3, <3>4 DEF Past, PastThreshold
    <2> QED
        BY <2>5, <2>7, <2>8, <2>9 DEF Decided, ListedByAll
<1>2. CInv /\ RootInv /\ [ConsumerNext]_allVars => [Complete]_allVars
    BY <1>1
<1> QED
    BY <1>2, ConsumerInductive, RootInductive, PTL DEF ConsumerSpec, ConsumerNodesComplete

(* An exception ends the process with one ERROR line, about the declaration *)
(* being traversed, and nothing else is written (dumpFatalError).           *)
THEOREM FatalErrorIsLastHolds == ConsumerSpec => FatalErrorIsLast
<1> DEFINE Last ==
        /\ thrown => UNCHANGED <<stream, topLevelNodes>>
        /\ errors' # errors => /\ status' = "exited"
                               /\ errors = <<>>
                               /\ errors'[1] \in DeclsOf(handling.group)
        /\ status # "parsing" => UNCHANGED allVars
<1>1. CInv /\ [ConsumerNext]_allVars => Last
    <2> SUFFICES ASSUME CInv, [ConsumerNext]_allVars PROVE Last
        OBVIOUS
    <2>1. IInv /\ HandlingInv /\ ErrorsInv
        BY DEF CInv, Core
    <2>2. CASE UNCHANGED allVars
        BY <2>2 DEF allVars, vars, consumerVars, stream
    <2>3. CASE HandleTopLevelDecl
        <3>1. status = "parsing" /\ ~ thrown /\ errors' = errors
            BY <2>3
               DEF HandleTopLevelDecl, NameTopLevelNode, StartTraversal, VisitUserNode,
                   SkipSystemNode, NextDecl, NextTopLevelDecl, AtMeeting, AtDecl, LoopDone,
                   Handed
        <3> QED
            BY <3>1
    <2>4. CASE EndOfTranslationUnit
        BY <2>4 DEF EndOfTranslationUnit
    <2>5. CASE dumpFatalError
        <3>1. /\ thrown /\ status = "parsing" /\ errors' = Append(errors, D)
              /\ status' = "exited" /\ UNCHANGED <<stream, topLevelNodes>>
            BY <2>5 DEF dumpFatalError, vars, stream
        <3>2. errors = <<>>
            BY <2>1, <3>1 DEF ErrorsInv
        <3>3. D \in DeclsOf(handling.group)
            BY <2>1, <3>1, InsideDecl DEF HandlingInv
        <3>4. errors'[1] = D
            BY <3>1, <3>2
        <3> QED
            BY <3>1, <3>2, <3>3, <3>4
    <2>6. CASE DumperStep
        <3>1. Step /\ errors' = errors
            BY <2>6 DEF DumperStep
        <3>2. Busy
            BY <2>1, <3>1, RootKept
        <3> QED
            BY <2>1, <3>1, <3>2 DEF IInv, HandlingInv, Busy
    <2> QED
        BY <2>2, <2>3, <2>4, <2>5, <2>6 DEF ConsumerNext, UnitStep, UnitDone
<1>2. CInv /\ [ConsumerNext]_allVars => [Last]_allVars
    BY <1>1
<1> QED
    BY <1>2, ConsumerInductive, PTL DEF ConsumerSpec, FatalErrorIsLast

=============================================================================
