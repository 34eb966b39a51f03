--------------------------- MODULE ClangAstDumper ---------------------------
(***************************************************************************)
(* The traversal core of the dumper: ClangAstDumper walks a graph of Clang *)
(* nodes (Decl, Stmt, Type, Attr) depth first and writes, for each node,   *)
(* three records to stderr: the ids of its structural children             *)
(* (<Visited Children>), its data record, which quotes the ids of other    *)
(* nodes, and its <Id to Class Map> entry.                                 *)
(*                                                                         *)
(* What a handler does to a node is data of the model: ast.visit[n] is the *)
(* sequence of calls the children handler of n makes, ast.data[n] the ids  *)
(* its data dumper writes.  The modules *Handlers give them class by       *)
(* class; this module says what the traversal makes of any of them.        *)
(***************************************************************************)
EXTENDS Calls, Integers, Sequences, FiniteSets

CONSTANTS
    ASTs,        \* the graphs to dump, see AST below
    Thresholds   \* the values given to -system-header-threshold

(* visit           the calls made by the children handler of a node         *)
(* data            the ids written by the data dumper of a node             *)
(* isSystemHeader  the Decls and Stmts located in a system header; Types    *)
(*                 and Attrs never count, their Visit leaves the level alone*)
(* dataThrows      the nodes whose data dumper throws                       *)
(* roots           the pointers RecursiveASTVisitor hands to the dumper     *)
AST == [visit : [Nodes -> Seq(Visits)],
        data : [Nodes -> SUBSET Ids],
        isSystemHeader : [Nodes -> BOOLEAN],
        dataThrows : SUBSET Nodes,
        roots : SUBSET Ids]

ASSUME ThresholdsAssumption == Thresholds \subseteq Int
ASSUME ASTsAssumption == ASTs \subseteq AST

VARIABLES
    ast,                       \* the graph; the dumper never changes it
    systemHeaderThreshold,     \* constructor argument, never changed
    seen,                      \* seenDecls, seenStmts, seenTypes, seenAttrs
    currentSystemHeaderLevel,  \* system-header nodes being visited
    callStack,                 \* the nodes being visited, outermost first
    visitedChildren,           \* <Visited Children> records, by node
    emitted,                   \* nodes with data and <Id to Class Map> records
    thrown                     \* an exception has left the dumper

input == <<ast, systemHeaderThreshold>>
stream == <<visitedChildren, emitted>>
vars == <<ast, systemHeaderThreshold, seen, currentSystemHeaderLevel,
          callStack, visitedChildren, emitted, thrown>>

(* An activation of visitChildrenAndData(): the node, the position in its   *)
(* handler, and the local vector of children ids.                           *)
Frames == [node : Nodes, pc : Nat \ {0}, children : Seq(Ids)]

Busy == callStack # <<>>
Top == callStack[Len(callStack)]
Handler == ast.visit[Top.node]
Current == Handler[Top.pc]
InHandler == Busy /\ Top.pc <= Len(Handler)
HandlerDone == Busy /\ Top.pc > Len(Handler)

-----------------------------------------------------------------------------

Init ==
    /\ ast \in ASTs
    /\ systemHeaderThreshold \in Thresholds
    /\ seen = {}
    /\ currentSystemHeaderLevel = 0
    /\ callStack = <<>>
    /\ visitedChildren = <<>>
    /\ emitted = {}
    /\ thrown = FALSE

(* Mutant: the limit is reached one level early, and zero is a limit.       *)
isAtSystemHeaderThreshold == currentSystemHeaderLevel >= systemHeaderThreshold

isPastSystemHeaderThreshold ==
    /\ systemHeaderThreshold > 0
    /\ currentSystemHeaderLevel > systemHeaderThreshold

(* Mutant: only the nodes being visited are remembered.                     *)
beingDumped(n) ==
    n = Null \/ n \in {callStack[i].node : i \in DOMAIN callStack}

(* The null check of Visit*Top and the result of dumpDecl, dumpStmt,        *)
(* dumpType and dumpAttr: nothing is left to do for this pointer.           *)
alreadyDumped(n) == n = Null \/ n \in seen

SystemHeaderLevels(n) == IF ast.isSystemHeader[n] THEN 1 ELSE 0

(* Mutant: VisitX() does not count the node it is at.                       *)
EnterUncounted(n) ==
    /\ ~ alreadyDumped(n)
    /\ seen' = seen \cup {n}
    /\ callStack' = Append(callStack, [node |-> n, pc |-> 1, children |-> <<>>])
    /\ UNCHANGED <<input, currentSystemHeaderLevel, stream, thrown>>

(* dumpX() marks the node before its children are visited, and VisitX()     *)
(* counts it while they are.                                                *)
Enter(n) ==
    /\ ~ alreadyDumped(n)
    /\ seen' = seen \cup {n}
    /\ currentSystemHeaderLevel' = currentSystemHeaderLevel + SystemHeaderLevels(n)
    /\ callStack' = Append(callStack, [node |-> n, pc |-> 1, children |-> <<>>])
    /\ UNCHANGED <<input, stream, thrown>>

(* The frame f once the call it is making has returned: addChildInternal()  *)
(* and VisitAlignedAttrChildren() list the child after visiting it.         *)
Returned(f, call) ==
    [f EXCEPT !.pc = @ + 1,
              !.children = IF call.op \in Listings THEN Append(@, call.to) ELSE @]

Return(f) == callStack' = [callStack EXCEPT ![Len(callStack)] = f]

-----------------------------------------------------------------------------

(* A call of Visit*Top() by the consumer on a node not dumped yet.          *)
VisitTop(n) == ~ Busy /\ ~ thrown /\ Enter(n)

(* The same call on a null pointer or on a dumped node.                     *)
VisitTopAgain(n) == ~ Busy /\ ~ thrown /\ alreadyDumped(n) /\ UNCHANGED vars

(* Mutant: the threshold stops direct visits too.                           *)
SuppressVisit ==
    /\ InHandler /\ Current.op # "throw"
    /\ isPastSystemHeaderThreshold
    /\ Return([Top EXCEPT !.pc = @ + 1])
    /\ UNCHANGED <<input, seen, currentSystemHeaderLevel, stream, thrown>>

(* Mutant: the loop over the children does not advance past a skipped one.  *)
SuppressChildForever ==
    /\ InHandler /\ Current.op = "addChild"
    /\ isPastSystemHeaderThreshold
    /\ UNCHANGED vars

(* addChildInternal() past the threshold: neither visited nor listed.       *)
SuppressChild ==
    /\ InHandler /\ Current.op = "addChild"
    /\ isPastSystemHeaderThreshold
    /\ Return([Top EXCEPT !.pc = @ + 1])
    /\ UNCHANGED <<input, seen, currentSystemHeaderLevel, stream, thrown>>

(* Mutant: the child is visited before the threshold is looked at.          *)
AddChildUnchecked ==
    /\ InHandler /\ Current.op = "addChild"
    /\ Enter(Current.to)

AddChild ==
    /\ InHandler /\ Current.op = "addChild"
    /\ ~ isPastSystemHeaderThreshold
    /\ Enter(Current.to)

(* addChildInternal() lists a null or dumped child all the same.            *)
AddChildAgain ==
    /\ InHandler /\ Current.op = "addChild"
    /\ ~ isPastSystemHeaderThreshold
    /\ alreadyDumped(Current.to)
    /\ Return(Returned(Top, Current))
    /\ UNCHANGED <<input, seen, currentSystemHeaderLevel, stream, thrown>>

DirectVisit ==
    /\ InHandler /\ Current.op \in DirectVisits
    /\ Enter(Current.to)

DirectVisitAgain ==
    /\ InHandler /\ Current.op \in DirectVisits
    /\ alreadyDumped(Current.to)
    /\ Return(Returned(Top, Current))
    /\ UNCHANGED <<input, seen, currentSystemHeaderLevel, stream, thrown>>

WriteChildren ==
    visitedChildren' = [n \in DOMAIN visitedChildren \cup {Top.node} |->
                            IF n = Top.node THEN Top.children ELSE visitedChildren[n]]

(* The stack without its last frame; the caller goes on after its call.     *)
Pop ==
    LET caller == Len(callStack) - 1
        rest == SubSeq(callStack, 1, caller)
    IN  IF caller = 0
        THEN <<>>
        ELSE [rest EXCEPT ![caller] = Returned(@, ast.visit[@.node][@.pc])]

(* Mutant: VisitX() returns early, without lowering the level.              *)
FinishKeepingLevel ==
    /\ HandlerDone
    /\ Top.node \notin ast.dataThrows
    /\ WriteChildren
    /\ emitted' = emitted \cup {Top.node}
    /\ callStack' = Pop
    /\ UNCHANGED <<input, seen, currentSystemHeaderLevel, thrown>>

(* Mutant: the level of a leaf past the threshold is not lowered.           *)
FinishKeepingLeafLevel ==
    /\ HandlerDone
    /\ Top.node \notin ast.dataThrows
    /\ WriteChildren
    /\ emitted' = emitted \cup {Top.node}
    /\ currentSystemHeaderLevel' =
            IF isPastSystemHeaderThreshold
            THEN currentSystemHeaderLevel
            ELSE currentSystemHeaderLevel - SystemHeaderLevels(Top.node)
    /\ callStack' = Pop
    /\ UNCHANGED <<input, seen, thrown>>

(* The end of visitChildrenAndData() and of VisitX().                       *)
Finish ==
    /\ HandlerDone
    /\ Top.node \notin ast.dataThrows
    /\ WriteChildren
    /\ emitted' = emitted \cup {Top.node}
    /\ currentSystemHeaderLevel' = currentSystemHeaderLevel - SystemHeaderLevels(Top.node)
    /\ callStack' = Pop
    /\ UNCHANGED <<input, seen, thrown>>

(* An exception unwinds every frame up to the handler of the consumer; no   *)
(* frame restores the level.                                                *)
Unwind ==
    /\ thrown' = TRUE
    /\ callStack' = <<>>
    /\ UNCHANGED <<input, seen, currentSystemHeaderLevel>>

(* Mutant: an unimplemented case is skipped over with all its callers.      *)
HandlerGivesUp ==
    /\ InHandler /\ Current.op = "throw"
    /\ callStack' = <<>>
    /\ UNCHANGED <<input, seen, currentSystemHeaderLevel, stream, thrown>>

(* A children handler throws: the node gets no record.                      *)
HandlerThrows ==
    /\ InHandler /\ Current.op = "throw"
    /\ Unwind
    /\ UNCHANGED stream

(* The data dumper throws after <Visited Children> was written; the header  *)
(* of the data record is out, <Id to Class Map> is not.                     *)
DataThrows ==
    /\ HandlerDone
    /\ Top.node \in ast.dataThrows
    /\ WriteChildren
    /\ Unwind
    /\ UNCHANGED emitted

(* The thread inside the dumper.                                            *)
Step ==
    \/ SuppressChild
    \/ AddChild
    \/ AddChildAgain
    \/ DirectVisit
    \/ DirectVisitAgain
    \/ Finish
    \/ HandlerThrows
    \/ DataThrows

(* After an exception the dumper is not called again: the consumer exits.   *)
Stopped == thrown /\ UNCHANGED vars

Next ==
    \/ \E n \in ast.roots : VisitTop(n) \/ VisitTopAgain(n)
    \/ Step
    \/ Stopped

Spec == Init /\ [][Next]_vars

(* A call into the dumper runs on one thread that is never suspended for    *)
(* good; nothing forces the consumer to make a call.                        *)
FairSpec == Spec /\ WF_vars(Step)

-----------------------------------------------------------------------------

TypeOK ==
    /\ ast \in AST
    /\ systemHeaderThreshold \in Thresholds
    /\ seen \subseteq Nodes
    /\ currentSystemHeaderLevel \in Nat
    /\ callStack \in Seq(Frames)
    /\ emitted \subseteq Nodes
    /\ DOMAIN visitedChildren \subseteq Nodes
    /\ \A n \in DOMAIN visitedChildren : visitedChildren[n] \in Seq(Ids)
    /\ thrown \in BOOLEAN

OnStack == {callStack[i].node : i \in DOMAIN callStack}

(* The number of system-header nodes among the i outermost frames.          *)
Depth(i) == Cardinality({j \in 1..i : ast.isSystemHeader[callStack[j].node]})

PastThreshold(level) == systemHeaderThreshold > 0 /\ level > systemHeaderThreshold

(* The calls of a handler that list an id, past the threshold or not, and   *)
(* the place in the list that the k-th call has if it lists one.            *)
Lists(call, past) == call.op \in (IF past THEN {"requiredChild"} ELSE Listings)

Place(calls, k, past) == Cardinality({j \in 1..k : Lists(calls[j], past)})

(* children holds what the first k calls list, in their order, and nothing  *)
(* else.                                                                    *)
ListedBy(children, calls, k, past) ==
    /\ Len(children) = Place(calls, k, past)
    /\ \A j \in 1..k :
            Lists(calls[j], past) => children[Place(calls, j, past)] = calls[j].to

ListedByAll(children, calls, past) == ListedBy(children, calls, Len(calls), past)

(* What the records of an emitted node mention.                             *)
Referenced(n) ==
    ast.data[n] \cup {visitedChildren[n][i] : i \in DOMAIN visitedChildren[n]}

(* No node is ever written twice, whatever cycles and sharing the graph     *)
(* has: a node on the stack appears there once and has no record yet, and   *)
(* as long as nothing was thrown the seen sets hold exactly the nodes that  *)
(* are written or about to be (dumpDecl() and its siblings).                *)
SerializedOnce ==
    /\ \A i, j \in DOMAIN callStack :
            callStack[i].node = callStack[j].node => i = j
    /\ OnStack \cap DOMAIN visitedChildren = {}
    /\ ~ thrown => /\ seen = emitted \cup OnStack
                   /\ DOMAIN visitedChildren = emitted

(* currentSystemHeaderLevel counts the system-header nodes being visited,   *)
(* in particular it is back at zero between two calls, whatever the order   *)
(* in which nodes were reached (VisitDecl, VisitStmt, VisitExpr).           *)
LevelBalanced ==
    ~ thrown => currentSystemHeaderLevel = Depth(Len(callStack))

(* "A positive threshold N serializes the node at level N + 1 but           *)
(* suppresses its children. Non-positive values disable structural          *)
(* thresholding" (isPastSystemHeaderThreshold): a handler still running has *)
(* listed no structural child when its node is past the threshold, and      *)
(* every child it came to, in order, otherwise.                             *)
ChildrenDecidedByDepth ==
    \A i \in DOMAIN callStack :
        LET f == callStack[i]
        IN  ListedBy(f.children, ast.visit[f.node], f.pc - 1, PastThreshold(Depth(i)))

(* A written node lists all of its children, in the order of its handler,   *)
(* or only the required ones: the visits made in between, which raise and   *)
(* lower the level, never leave a list cut short.                           *)
AllOrNothing ==
    \A n \in emitted :
        \E past \in BOOLEAN : ListedByAll(visitedChildren[n], ast.visit[n], past)

(* Structural descent stops one level past the threshold, even below direct *)
(* visits that went deeper: a node entered through addChild() has at most   *)
(* threshold system-header ancestors on the stack.                          *)
StructuralDepthBounded ==
    \A i \in 2..Len(callStack) :
        LET caller == callStack[i - 1]
        IN  ast.visit[caller.node][caller.pc].op = "addChild"
                => ~ PastThreshold(Depth(i - 1))

(* "Direct visits serialize referenced dependencies and must preserve graph *)
(* closure" (ClangAstDumper.h): between two calls of the consumer every id  *)
(* that a record mentions has its own records, or is the null sentinel.     *)
GraphClosure ==
    ~ Busy /\ ~ thrown =>
        \A n \in emitted : Referenced(n) \subseteq emitted \cup {Null}

(* A written record is final: no later call withdraws it or writes another  *)
(* list for the same node, and after an exception nothing is written.       *)
RecordsAreFinal ==
    [][/\ emitted \subseteq emitted'
       /\ \A n \in DOMAIN visitedChildren :
              n \in DOMAIN visitedChildren' /\ visitedChildren'[n] = visitedChildren[n]
       /\ thrown => UNCHANGED stream]_vars

(* Every call of the consumer returns or throws, on cyclic graphs too.      *)
CallsReturn == Busy ~> ~ Busy

-----------------------------------------------------------------------------

(* The ids a data dumper may write for graph closure to hold: those of      *)
(* every set of nodes that contains the node and is closed under direct     *)
(* visits.  A type dumped by its QualType, for instance, is visited by the  *)
(* handler of the QualType.                                                 *)
ClosedUnderDirectVisits(a, S) ==
    \A m \in S \cap Nodes : \A k \in DOMAIN a.visit[m] :
        a.visit[m][k].op \in DirectVisits => a.visit[m][k].to \in S \cup {Null}

ReferencesVisited(a) ==
    \A n \in Nodes : \A S \in SUBSET Nodes :
        n \in S /\ ClosedUnderDirectVisits(a, S) => a.data[n] \subseteq S \cup {Null}

-----------------------------------------------------------------------------

Promise == INSTANCE NodeStream WITH
    announced <- seen,
    mentions <- [n \in emitted |-> Referenced(n)],
    busy <- Busy,
    failed <- thrown

(* The dumper implements NodeStream: what a call of the consumer writes is  *)
(* a stream in which every mentioned id gets exactly one final record.      *)
ImplementsNodeStream == Promise!StreamSpec

=============================================================================
