--------------------------- MODULE MyASTConsumer ---------------------------
(***************************************************************************)
(* The consumer of one translation unit (ClangAst.cpp): Clang's parser     *)
(* calls HandleTopLevelDecl() with each group of declarations it parsed.   *)
(* A first loop writes the ids of the group's user declarations as         *)
(* <Top Level Nodes>; a second one lets a RecursiveASTVisitor traverse     *)
(* them, and every Decl and Stmt it meets that is located in user code is  *)
(* handed to the dumper of ClangAstDumper.                                 *)
(*                                                                         *)
(* The parser and RecursiveASTVisitor are Clang's: the groups of a unit    *)
(* and the order in which the visitor meets its nodes are data here.  So   *)
(* is the graph each group is handed over with, for the parser goes on     *)
(* with nodes it has handed over before: it completes an enum, redeclares  *)
(* a function, or instantiates the body of a template's specialization     *)
(* and hands the function over at the end of the unit, when its records    *)
(* have long been written.                                                 *)
(***************************************************************************)
EXTENDS ClangAstDumper

CONSTANTS Units   \* the translation units, see Unit

(* Traversal of a node: RecursiveASTVisitor calls Visit*() at a node, and   *)
(* the override hands a pointer to the dumper: the node for VisitDecl() and *)
(* VisitStmt(), the integer type of an EnumDecl, possibly null, for         *)
(* VisitEnumDecl(), which comes after VisitDecl() at the same node.         *)
Meetings == [at : Nodes, visit : Ids]

(* decls      the declarations of the group, some of them null              *)
(* ast        the graph as it is when the parser hands the group over       *)
(* traversal  what the visitor meets below each node then                   *)
Groups == [decls : Seq(Ids), ast : AST, traversal : [Nodes -> Seq(Meetings)]]

(* location   where the spelling of a node begins: in user code, in a       *)
(*            system header, or nowhere (an invalid location)               *)
(* implicit   declarations the visitor skips (shouldVisitImplicitCode())    *)
Unit == [groups : Seq(Groups) \ {<<>>},
         location : [Nodes -> {"user", "system", "invalid"}],
         implicit : SUBSET Nodes]

(* clava::isSystemHeader() reads the same location; the pointer handed over *)
(* is the node itself or a type, which has no location; and the parser      *)
(* hands over no implicit declaration.                                      *)
ASSUME UnitsAssumption ==
    /\ Units \subseteq Unit
    /\ UNION {{u.groups[g].ast : g \in DOMAIN u.groups} : u \in Units} \subseteq ASTs
    /\ \A u \in Units : \A g \in DOMAIN u.groups :
        LET group == u.groups[g]
        IN  /\ \A n \in Nodes : group.ast.isSystemHeader[n] => u.location[n] = "system"
            /\ \A n \in Nodes : \A i \in DOMAIN group.traversal[n] :
                    LET m == group.traversal[n][i]
                    IN  m.visit \in {m.at, Null} \/ u.location[m.visit] = "invalid"
            /\ \A i \in DOMAIN group.decls : group.decls[i] \notin u.implicit

VARIABLES
    unit,           \* the translation unit
    handling,       \* where HandleTopLevelDecl() is
    topLevelNodes,  \* ids written as <Top Level Nodes>
    errors,         \* ERROR lines, by the declaration they are about
    status,         \* "parsing", "finished", or "exited" by dumpFatalError()
    dumpedIn        \* history: the group during which a node was written

consumerVars == <<unit, handling, topLevelNodes, errors, status, dumpedIn>>
allVars == <<vars, consumerVars>>

Loops == {"names", "traverse"}

(* group: the group handed over; loop, decl: which loop is at which         *)
(* declaration of it; meeting: how far the visitor is in that declaration.  *)
Handling == [group : Nat \ {0}, loop : Loops, decl : Nat \ {0}, meeting : Nat \ {0}]

NewGroup(g) == [group |-> g, loop |-> "names", decl |-> 1, meeting |-> 1]

ConsumerInit ==
    /\ unit \in Units
    /\ ast = unit.groups[1].ast
    /\ Init
    /\ handling = NewGroup(1)
    /\ topLevelNodes = {}
    /\ errors = <<>>
    /\ status = "parsing"
    /\ dumpedIn = <<>>

userLocated(n) == unit.location[n] = "user"

Handed == status = "parsing" /\ ~ Busy /\ ~ thrown /\ handling.group <= Len(unit.groups)
Group == unit.groups[handling.group].decls
AtDecl(loop) == Handed /\ handling.loop = loop /\ handling.decl <= Len(Group)
LoopDone(loop) == Handed /\ handling.loop = loop /\ handling.decl > Len(Group)
D == Group[handling.decl]

(* TraverseDecl(): nothing is met in a null or implicit declaration.        *)
Traversal(d) == IF d = Null \/ d \in unit.implicit THEN <<>> ELSE unit.groups[handling.group].traversal[d]

-----------------------------------------------------------------------------

(* Mutant: declarations of system headers are named as well.                *)
NameAnyNode ==
    /\ AtDecl("names")
    /\ topLevelNodes' = topLevelNodes \cup ({D} \ {Null})
    /\ handling' = [handling EXCEPT !.decl = @ + 1]
    /\ UNCHANGED <<vars, unit, errors, status, dumpedIn>>

(* One turn of the first loop of HandleTopLevelDecl().                      *)
NameTopLevelNode ==
    /\ AtDecl("names")
    /\ topLevelNodes' = topLevelNodes \cup {n \in {D} \ {Null} : userLocated(n)}
    /\ handling' = [handling EXCEPT !.decl = @ + 1]
    /\ UNCHANGED <<vars, unit, errors, status, dumpedIn>>

StartTraversal ==
    /\ LoopDone("names")
    /\ handling' = [handling EXCEPT !.loop = "traverse", !.decl = 1]
    /\ UNCHANGED <<vars, unit, topLevelNodes, errors, status, dumpedIn>>

Meeting == Traversal(D)[handling.meeting]
AtMeeting == AtDecl("traverse") /\ handling.meeting <= Len(Traversal(D))

(* VisitDecl(), VisitStmt() or VisitEnumDecl() at a node of user code.      *)
VisitUserNode ==
    /\ AtMeeting
    /\ userLocated(Meeting.at)
    /\ VisitTop(Meeting.visit) \/ VisitTopAgain(Meeting.visit)
    /\ handling' = [handling EXCEPT !.meeting = @ + 1]
    /\ UNCHANGED <<unit, topLevelNodes, errors, status, dumpedIn>>

(* Mutant: the visitor stays at a node of a system header.                  *)
StopAtSystemNode ==
    /\ AtMeeting
    /\ ~ userLocated(Meeting.at)
    /\ UNCHANGED allVars

SkipSystemNode ==
    /\ AtMeeting
    /\ ~ userLocated(Meeting.at)
    /\ handling' = [handling EXCEPT !.meeting = @ + 1]
    /\ UNCHANGED <<vars, unit, topLevelNodes, errors, status, dumpedIn>>

NextDecl ==
    /\ AtDecl("traverse")
    /\ handling.meeting > Len(Traversal(D))
    /\ handling' = [handling EXCEPT !.decl = @ + 1, !.meeting = 1]
    /\ UNCHANGED <<vars, unit, topLevelNodes, errors, status, dumpedIn>>

(* The dumper while the graph under it becomes a.                           *)
GraphBecomes(a) ==
    /\ ast' = a
    /\ UNCHANGED <<systemHeaderThreshold, seen, currentSystemHeaderLevel, callStack,
                   stream, thrown>>

(* Mutant: the marks of a group are dropped with it.                        *)
NextTopLevelDeclForgetful ==
    /\ LoopDone("traverse")
    /\ handling' = NewGroup(handling.group + 1)
    /\ ast' = IF handling.group < Len(unit.groups)
              THEN unit.groups[handling.group + 1].ast
              ELSE ast
    /\ seen' = {}
    /\ UNCHANGED <<systemHeaderThreshold, currentSystemHeaderLevel, callStack, stream,
                   thrown, unit, topLevelNodes, errors, status, dumpedIn>>

(* HandleTopLevelDecl() returns; the parser goes on to the next group, and  *)
(* the nodes of the earlier ones are no longer what they were.              *)
NextTopLevelDecl ==
    /\ LoopDone("traverse")
    /\ handling' = NewGroup(handling.group + 1)
    /\ GraphBecomes(IF handling.group < Len(unit.groups)
                    THEN unit.groups[handling.group + 1].ast
                    ELSE ast)
    /\ UNCHANGED <<unit, topLevelNodes, errors, status, dumpedIn>>

EndOfTranslationUnit ==
    /\ status = "parsing" /\ ~ Busy /\ ~ thrown
    /\ handling.group > Len(unit.groups)
    /\ status' = "finished"
    /\ UNCHANGED <<vars, unit, handling, topLevelNodes, errors, dumpedIn>>

(* Mutant: the error is reported, and the process goes on.                  *)
dumpError ==
    /\ status = "parsing" /\ thrown
    /\ errors' = Append(errors, D)
    /\ UNCHANGED <<vars, unit, handling, topLevelNodes, status, dumpedIn>>

(* The catch clauses of the second loop: the exception that left the dumper *)
(* becomes an ERROR line and the process exits.                             *)
dumpFatalError ==
    /\ status = "parsing" /\ thrown
    /\ errors' = Append(errors, D)
    /\ status' = "exited"
    /\ UNCHANGED <<vars, unit, handling, topLevelNodes, dumpedIn>>

(* The dumper runs inside a call of the consumer.                           *)
DumperStep ==
    /\ Step
    /\ dumpedIn' = [n \in emitted' |->
                        IF n \in emitted THEN dumpedIn[n] ELSE handling.group]
    /\ UNCHANGED <<unit, handling, topLevelNodes, errors, status>>

HandleTopLevelDecl ==
    \/ NameTopLevelNode
    \/ StartTraversal
    \/ VisitUserNode
    \/ SkipSystemNode
    \/ NextDecl
    \/ NextTopLevelDecl

UnitStep ==
    \/ HandleTopLevelDecl
    \/ EndOfTranslationUnit
    \/ dumpFatalError
    \/ DumperStep

UnitDone == status # "parsing" /\ UNCHANGED allVars

ConsumerNext == UnitStep \/ UnitDone

(* The frontend action runs on one thread to the end of the unit.           *)
ConsumerSpec == ConsumerInit /\ [][ConsumerNext]_allVars /\ WF_allVars(UnitStep)

-----------------------------------------------------------------------------

ConsumerTypeOK ==
    /\ TypeOK
    /\ unit \in Unit
    /\ handling \in Handling
    /\ topLevelNodes \subseteq Nodes
    /\ errors \in Seq(Ids)
    /\ status \in {"parsing", "finished", "exited"}
    /\ dumpedIn \in [emitted -> DOMAIN unit.groups]

(* The user nodes the visitor has met so far, and the user declarations of  *)
(* the groups handled so far.                                               *)
GroupsDone == {g \in DOMAIN unit.groups : g < handling.group}

DeclsOf(g) == {unit.groups[g].decls[i] : i \in DOMAIN unit.groups[g].decls} \ {Null}

Met(g) ==
    UNION {{unit.groups[g].traversal[d][i] : i \in DOMAIN unit.groups[g].traversal[d]} :
            d \in DeclsOf(g) \ unit.implicit}

(* Every id written as a top-level node has its records once its group has  *)
(* been handled, and so has every user node met in the group: the reader    *)
(* finds the roots of the tree it rebuilds, across groups that share nodes. *)
TopLevelNodesDumped ==
    status # "exited" =>
        \A g \in GroupsDone :
            /\ \A d \in DeclsOf(g) \cap topLevelNodes : d \in emitted
            /\ \A m \in Met(g) : userLocated(m.at) => m.visit \in emitted \cup {Null}

(* A node first reached by a call of the consumer is user code and is       *)
(* visited at level zero, so it lists all its children whatever the         *)
(* threshold and whatever system headers were visited before it.            *)
ConsumerNodesComplete ==
    [][Len(callStack) = 1 /\ callStack' = <<>> /\ ~ thrown' =>
          LET n == callStack[1].node
          IN  ListedByAll(visitedChildren'[n], ast.visit[n], FALSE)]_allVars

(* The graph as it was when a node was written, and the ids its records     *)
(* mention: the graph of today says something else of it.                   *)
WrittenAst(n) == unit.groups[dumpedIn[n]].ast

Mentions(n) ==
    WrittenAst(n).data[n] \cup {visitedChildren[n][i] : i \in DOMAIN visitedChildren[n]}

(* The stream is closed although the graph changes under it: an id that was *)
(* mentioned before the parser went on has its records all the same, and a  *)
(* node visited then mentions nothing of what it became later.              *)
RecordsClosed ==
    ~ Busy /\ ~ thrown => \A n \in emitted : Mentions(n) \subseteq emitted \cup {Null}

(* The records of a node are a picture of one moment: the list of children  *)
(* was taken from the same graph as the data record, whatever calls, groups *)
(* and changes came between its first visit and now.                        *)
RecordsAreSnapshots ==
    \A n \in emitted :
        \E past \in BOOLEAN : ListedByAll(visitedChildren[n], WrittenAst(n).visit[n], past)

(* An exception ends the process with exactly one ERROR line, about the     *)
(* declaration being traversed, and nothing else is written.                *)
FatalErrorIsLast ==
    [][/\ thrown => UNCHANGED <<stream, topLevelNodes>>
       /\ errors' # errors => /\ status' = "exited"
                              /\ errors = <<>>
                              /\ errors'[1] \in DeclsOf(handling.group)
       /\ status # "parsing" => UNCHANGED allVars]_allVars

(* The action ends, and it ends as finished exactly when nothing was thrown.*)
UnitEnds == <>(status # "parsing" /\ (status = "exited" <=> thrown))

-----------------------------------------------------------------------------

(* RecursiveASTVisitor calls VisitDecl() at the declaration it traverses.   *)
VisitorMeetsDecls(u) ==
    \A g \in DOMAIN u.groups : \A i \in DOMAIN u.groups[g].decls :
        LET d == u.groups[g].decls[i]
        IN  d # Null =>
                \E k \in DOMAIN u.groups[g].traversal[d] :
                    u.groups[g].traversal[d][k] = [at |-> d, visit |-> d]

(* The ids a data dumper may write for the stream to be closed although     *)
(* nodes change: those of every set of nodes that contains the node, is     *)
(* closed under its own direct visits now, and under the direct visits that *)
(* the other nodes make in all groups, as those of a QualType do.           *)
AlwaysVisited(u, m) ==
    {n \in Nodes : \A g \in DOMAIN u.groups :
        LET calls == u.groups[g].ast.visit[m]
        IN  \E k \in 1..Len(calls) : calls[k].op \in DirectVisits /\ calls[k].to = n}

ReferencesVisitedThroughout(u) ==
    \A g \in DOMAIN u.groups : \A n \in Nodes : \A S \in SUBSET Nodes :
        LET a == u.groups[g].ast
        IN  /\ n \in S
            /\ \A k \in DOMAIN a.visit[n] :
                    a.visit[n][k].op \in DirectVisits => a.visit[n][k].to \in S \cup {Null}
            /\ \A m \in S : AlwaysVisited(u, m) \subseteq S
            => a.data[n] \subseteq S \cup {Null}

=============================================================================
