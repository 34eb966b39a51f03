------------------------ MODULE ChildrenLists_proofs ------------------------
(***************************************************************************)
(* Proofs about what the traversal core lists, for every graph and         *)
(* threshold: a list of children depends on the depth of its node alone,   *)
(* and not on the visits made while it is built.                           *)
(*                                                                         *)
(* The argument is that a call which waits for a visit to return was made  *)
(* at the depth its own frame has (CallInv), and that the level is back at *)
(* this depth when it returns (LevelBalanced).                             *)
(***************************************************************************)
EXTENDS ClangAstDumper_proofs

Past(i) == PastThreshold(Depth(i))

CallAt(i) == ast.visit[callStack[i].node][callStack[i].pc]

(* The call that the i-th frame waits for, or is making, was allowed.       *)
Allowed(i) ==
    /\ CallAt(i).op # "throw"
    /\ CallAt(i).op = "addChild" => ~ Past(i)

CallInv == \A i \in 1..(Len(callStack) - 1) : Allowed(i)

ListInv ==
    /\ CallInv
    /\ ChildrenDecidedByDepth

-----------------------------------------------------------------------------

(* Places in a list of children.                                            *)
LEMMA PlaceType ==
    ASSUME NEW calls, NEW past, NEW k \in Nat
    PROVE  /\ IsFiniteSet({j \in 1..k : Lists(calls[j], past)})
           /\ Place(calls, k, past) \in Nat
<1>1. IsFiniteSet(1..k)
    BY FS_Interval
<1>2. IsFiniteSet({j \in 1..k : Lists(calls[j], past)})
    BY <1>1, FS_Subset
<1> QED
    BY <1>2, FS_CardinalityType DEF Place

LEMMA PlaceNext ==
    ASSUME NEW calls, NEW past, NEW k \in Nat
    PROVE  /\ Lists(calls[k + 1], past) =>
                    Place(calls, k + 1, past) = Place(calls, k, past) + 1
           /\ ~ Lists(calls[k + 1], past) =>
                    Place(calls, k + 1, past) = Place(calls, k, past)
<1> DEFINE P(n) == {j \in 1..n : Lists(calls[j], past)}
<1>1. \A j : j \in 1..(k + 1) <=> j \in 1..k \/ j = k + 1
    OBVIOUS
<1>2. k + 1 \notin P(k) /\ IsFiniteSet(P(k)) /\ Place(calls, k, past) \in Nat
    BY PlaceType
<1>3. CASE Lists(calls[k + 1], past)
    <2>1. P(k + 1) = P(k) \cup {k + 1}
        BY <1>1, <1>3
    <2>2. Cardinality(P(k + 1)) = Cardinality(P(k)) + 1
        BY <1>2, <2>1, FS_AddElement
    <2> QED
        BY <1>3, <2>2 DEF Place
<1>4. CASE ~ Lists(calls[k + 1], past)
    <2>1. P(k + 1) = P(k)
        BY <1>1, <1>4
    <2> QED
        BY <1>2, <1>4, <2>1 DEF Place
<1> QED
    BY <1>3, <1>4

LEMMA PlaceBounds ==
    ASSUME NEW calls, NEW past, NEW k \in Nat, NEW j \in 1..k, Lists(calls[j], past)
    PROVE  Place(calls, j, past) \in 1..Place(calls, k, past)
<1> DEFINE P(n) == {i \in 1..n : Lists(calls[i], past)}
<1>1. /\ IsFiniteSet(P(j)) /\ IsFiniteSet(P(k))
      /\ Place(calls, j, past) \in Nat /\ Place(calls, k, past) \in Nat
    BY PlaceType
<1>2. j \in P(j) /\ P(j) \subseteq P(k)
    OBVIOUS
<1>3. Cardinality(P(j)) <= Cardinality(P(k))
    BY <1>1, <1>2, FS_Subset
<1>4. Cardinality(P(j)) # 0
    BY <1>1, <1>2, FS_EmptySet
<1> QED
    BY <1>1, <1>3, <1>4 DEF Place

(* Nothing is listed before the first call.                                 *)
LEMMA ListNothing ==
    ASSUME NEW calls, NEW past
    PROVE  ListedBy(<<>>, calls, 0, past)
<1>1. {j \in 1..0 : Lists(calls[j], past)} = {}
    OBVIOUS
<1>2. Place(calls, 0, past) = 0
    BY <1>1, FS_EmptySet DEF Place
<1> QED
    BY <1>2 DEF ListedBy

LEMMA ListSkip ==
    ASSUME NEW children, NEW calls, NEW past, NEW k \in Nat,
           ListedBy(children, calls, k, past), ~ Lists(calls[k + 1], past)
    PROVE  ListedBy(children, calls, k + 1, past)
<1>1. Place(calls, k + 1, past) = Place(calls, k, past)
    BY PlaceNext, PlaceType
<1>2. \A j \in 1..(k + 1) : Lists(calls[j], past) => j \in 1..k
    OBVIOUS
<1> QED
    BY <1>1, <1>2 DEF ListedBy

LEMMA ListAdd ==
    ASSUME NEW children \in Seq(Ids), NEW calls, NEW past, NEW k \in Nat, NEW id \in Ids,
           ListedBy(children, calls, k, past),
           Lists(calls[k + 1], past), calls[k + 1].to = id
    PROVE  ListedBy(Append(children, id), calls, k + 1, past)
<1> DEFINE c == Append(children, id)
<1>1. /\ Len(c) = Len(children) + 1
      /\ \A i \in 1..Len(children) : c[i] = children[i]
      /\ c[Len(children) + 1] = id
    BY AppendProperties
<1>2. Place(calls, k + 1, past) = Len(children) + 1 /\ Place(calls, k, past) = Len(children)
    BY PlaceNext, PlaceType DEF ListedBy
<1>3. ASSUME NEW j \in 1..(k + 1), Lists(calls[j], past)
      PROVE  c[Place(calls, j, past)] = calls[j].to
    <2> HIDE DEF c
    <2>1. CASE j = k + 1
        BY <1>1, <1>2, <2>1
    <2>2. CASE j # k + 1
        <3>1. j \in 1..k
            BY <2>2
        <3>2. Place(calls, j, past) \in 1..Len(children)
            BY <1>2, <1>3, <3>1, PlaceBounds
        <3> QED
            BY <1>1, <1>3, <3>1, <3>2 DEF ListedBy
    <2> QED
        BY <2>1, <2>2
<1> HIDE DEF c
<1>4. ListedBy(c, calls, k + 1, past)
    BY <1>1, <1>2, <1>3 DEF ListedBy
<1> QED
    BY <1>4 DEF c

-----------------------------------------------------------------------------

(* The depth of a frame is that of the frames up to it.                     *)
LEMMA DepthStable ==
    ASSUME ast' = ast, systemHeaderThreshold' = systemHeaderThreshold, NEW i \in Int,
           \A j \in 1..i : callStack'[j].node = callStack[j].node
    PROVE  Depth(i)' = Depth(i) /\ Past(i)' = Past(i)
<1>1. {j \in 1..i : ast'.isSystemHeader[callStack'[j].node]}
        = {j \in 1..i : ast.isSystemHeader[callStack[j].node]}
    OBVIOUS
<1>2. Depth(i)' = Depth(i)
    BY <1>1 DEF Depth
<1> QED
    BY <1>2 DEF Past, PastThreshold

(* The test of the code is about the depth of the innermost frame.          *)
LEMMA PastTop ==
    ASSUME LevelInv, ~ thrown
    PROVE  isPastSystemHeaderThreshold <=> Past(Len(callStack))
    BY DEF LevelInv, LevelBalanced, isPastSystemHeaderThreshold, Past, PastThreshold

(* A frame whose call returns has listed the call like all calls before.    *)
LEMMA ReturnedLists ==
    ASSUME ast \in AST, NEW f \in Frames, NEW past,
           f.pc <= Len(ast.visit[f.node]),
           ast.visit[f.node][f.pc].op # "throw",
           ast.visit[f.node][f.pc].op = "addChild" => ~ past,
           ListedBy(f.children, ast.visit[f.node], f.pc - 1, past)
    PROVE  LET g == Returned(f, ast.visit[f.node][f.pc])
           IN  ListedBy(g.children, ast.visit[f.node], g.pc - 1, past)
<1> DEFINE call == ast.visit[f.node][f.pc]
           g == Returned(f, call)
<1>1. f.pc \in Nat /\ f.pc > 0 /\ f.node \in Nodes /\ f.children \in Seq(Ids)
    BY FrameTypes
<1>2. f.pc - 1 \in Nat /\ f.pc - 1 + 1 = f.pc
    BY <1>1
<1>3. f.pc \in DOMAIN ast.visit[f.node] /\ call.to \in Ids /\ call \in Visits
    <2>1. f.pc \in 1..Len(ast.visit[f.node])
        BY <1>1, HandlerTypes
    <2> QED
        BY <1>1, <2>1, HandlerTypes, ElementOfSeq
<1>4. /\ g.pc = f.pc + 1
      /\ g.children = IF call.op \in Listings THEN Append(f.children, call.to) ELSE f.children
    BY DEF Returned, Frames
<1>5. Lists(call, past) <=> call.op \in Listings
    BY <1>3 DEF Lists, Listings, Visits
<1>6. ListedBy(g.children, ast.visit[f.node], f.pc, past)
    <2> HIDE DEF g
    <2>1. CASE call.op \in Listings
        <3>1. ListedBy(Append(f.children, call.to), ast.visit[f.node], f.pc - 1 + 1, past)
            BY <1>1, <1>2, <1>3, <1>5, <2>1, ListAdd
        <3> QED
            BY <1>2, <1>4, <2>1, <3>1
    <2>2. CASE call.op \notin Listings
        <3>1. ListedBy(f.children, ast.visit[f.node], f.pc - 1 + 1, past)
            BY <1>1, <1>2, <1>5, <2>2, ListSkip
        <3> QED
            BY <1>2, <1>4, <2>2, <3>1
    <2> QED
        BY <2>1, <2>2
<1>7. g.pc - 1 = f.pc
    BY <1>1, <1>4
<1> QED
    BY <1>6, <1>7

-----------------------------------------------------------------------------

(* What the i-th frame has listed.                                          *)
Decided(i) ==
    ListedBy(callStack[i].children, ast.visit[callStack[i].node], callStack[i].pc - 1, Past(i))

LEMMA ListInvOfFrames ==
    ASSUME IInv
    PROVE  ChildrenDecidedByDepth <=> \A i \in 1..Len(callStack) : Decided(i)
<1>1. DOMAIN callStack = 1..Len(callStack)
    BY LenProperties DEF IInv, Types
<1> QED
    BY <1>1 DEF ChildrenDecidedByDepth, Decided, Past

(* A frame that a step leaves alone, below frames of the same nodes.        *)
LEMMA FrameStable ==
    ASSUME ast' = ast, systemHeaderThreshold' = systemHeaderThreshold, NEW i \in Int,
           \A j \in 1..i : callStack'[j].node = callStack[j].node,
           callStack'[i] = callStack[i]
    PROVE  /\ Allowed(i) => Allowed(i)'
           /\ Decided(i) => Decided(i)'
<1>1. Past(i)' = Past(i)
    BY DepthStable
<1> QED
    BY <1>1 DEF Allowed, CallAt, Decided, ListedBy, Place, Lists

LEMMA EnterLists ==
    ASSUME IInv, IInv', ListInv, NEW n \in Ids, Enter(n), Busy => Allowed(Len(callStack))
    PROVE  ListInv'
<1> DEFINE f == [node |-> n, pc |-> 1, children |-> <<>>]
           len == Len(callStack)
<1>1. /\ ast' = ast /\ systemHeaderThreshold' = systemHeaderThreshold
      /\ visitedChildren' = visitedChildren /\ emitted' = emitted
      /\ callStack' = Append(callStack, f)
      /\ n \in Nodes
    BY DEF Enter, alreadyDumped, Ids, input, stream
<1>2. /\ len \in Nat
      /\ Len(callStack') = len + 1
      /\ \A i \in 1..len : callStack'[i] = callStack[i]
      /\ callStack'[len + 1] = f
    <2>1. f \in Frames /\ callStack \in Seq(Frames)
        BY <1>1, EmptySeq DEF Frames, IInv, Types
    <2> HIDE DEF f
    <2> QED
        BY <1>1, <2>1, AppendProperties, LenProperties
<1>3. ASSUME NEW i \in 1..len
      PROVE  Allowed(i)' /\ Decided(i)'
    <2>1. Allowed(i)
        <3>1. CASE i = len
            <4>1. Busy
                BY <1>2, <3>1, EmptySeq DEF Busy
            <4> QED
                BY <3>1, <4>1
        <3>2. CASE i # len
            BY <1>2, <3>2 DEF ListInv, CallInv
        <3> QED
            BY <3>1, <3>2
    <2>2. Decided(i)
        BY ListInvOfFrames DEF ListInv
    <2>3. i \in Int /\ \A j \in 1..i : callStack'[j].node = callStack[j].node
        BY <1>2
    <2> QED
        BY <1>1, <1>2, <2>1, <2>2, <2>3, FrameStable
<1>4. CallInv'
    BY <1>2, <1>3 DEF CallInv
<1>5. ChildrenDecidedByDepth'
    <2>1. ASSUME NEW i, i = len + 1
          PROVE  Decided(i)'
        <3>1. ListedBy(<<>>, (ast.visit[n])', 0, Past(i)')
            BY ListNothing
        <3>2. callStack'[i] = f
            BY <1>2, <2>1
        <3>3. f.pc - 1 = 0 /\ f.node = n /\ f.children = <<>>
            OBVIOUS
        <3> HIDE DEF f
        <3> QED
            BY <3>1, <3>2, <3>3 DEF Decided
    <2>2. \A i \in 1..Len(callStack') : i \in 1..len \/ i = len + 1
        BY <1>2
    <2>3. \A i \in 1..Len(callStack') : Decided(i)'
        <3> HIDE DEF len, f
        <3> QED
            BY <1>3, <2>1, <2>2
    <2>4. DOMAIN callStack' = 1..Len(callStack')
        BY LenProperties DEF IInv, Types
    <2> QED
        BY <2>3, <2>4 DEF ChildrenDecidedByDepth, Decided, Past
<1> QED
    BY <1>4, <1>5 DEF ListInv

(* The innermost frame goes on with the list g has.                         *)
LEMMA ReturnLists ==
    ASSUME IInv, ListInv, Busy, NEW g \in Frames, g.node = Top.node, Return(g),
           ListedBy(g.children, ast.visit[g.node], g.pc - 1, Past(Len(callStack))),
           UNCHANGED <<input, stream>>
    PROVE  ListInv'
<1> DEFINE len == Len(callStack)
<1>1. /\ ast' = ast /\ systemHeaderThreshold' = systemHeaderThreshold
      /\ visitedChildren' = visitedChildren /\ emitted' = emitted
    BY DEF input, stream
<1>2. len \in Nat /\ len > 0 /\ Top = callStack[len]
    BY TopFrame DEF IInv, Top
<1>3. /\ callStack' \in Seq(Frames)
      /\ Len(callStack') = len
      /\ \A i \in 1..len : callStack'[i] = IF i = len THEN g ELSE callStack[i]
    <2>1. callStack \in Seq(Frames) /\ callStack' = [callStack EXCEPT ![len] = g]
        BY DEF IInv, Types, Return
    <2> QED
        BY <1>2, <2>1, ExceptSeq
<1>4. \A i \in 1..len : callStack'[i].node = callStack[i].node
    BY <1>2, <1>3
<1>5. ASSUME NEW i \in 1..len
      PROVE  Past(i)' = Past(i)
    <2>1. i \in Int /\ \A j \in 1..i : callStack'[j].node = callStack[j].node
        BY <1>2, <1>4
    <2> QED
        BY <1>1, <2>1, DepthStable
<1>6. ASSUME NEW i \in 1..(len - 1)
      PROVE  Allowed(i)'
    <2>1. Allowed(i) /\ i \in 1..len /\ i # len
        BY <1>2 DEF ListInv, CallInv
    <2>2. callStack'[i] = callStack[i]
        BY <1>3, <2>1
    <2> QED
        BY <1>1, <1>5, <2>1, <2>2 DEF Allowed, CallAt
<1>7. ASSUME NEW i \in 1..len
      PROVE  Decided(i)'
    <2>1. ListedBy(callStack'[i].children, ast.visit[callStack'[i].node],
                   callStack'[i].pc - 1, Past(i))
        <3>1. CASE i = len
            BY <1>3, <3>1
        <3>2. CASE i # len
            <4>1. Decided(i) /\ callStack'[i] = callStack[i]
                BY <1>3, <3>2, ListInvOfFrames DEF ListInv
            <4> QED
                BY <4>1 DEF Decided
        <3> QED
            BY <3>1, <3>2
    <2> QED
        BY <1>1, <1>5, <2>1 DEF Decided
<1>8. DOMAIN callStack' = 1..len
    BY <1>3, LenProperties
<1>9. CallInv'
    <2> HIDE DEF len
    <2>1. \A i \in 1..(Len(callStack') - 1) : Allowed(i)'
        BY <1>3, <1>6
    <2> QED
        BY <2>1 DEF CallInv
<1>10. ChildrenDecidedByDepth'
    <2> HIDE DEF len
    <2>1. \A i \in DOMAIN callStack' : Decided(i)'
        BY <1>7, <1>8
    <2> QED
        BY <2>1 DEF ChildrenDecidedByDepth, Decided, Past
<1> QED
    BY <1>9, <1>10 DEF ListInv

(* The list of the innermost frame is written, and its caller lists it.     *)
LEMMA FinishLists ==
    ASSUME IInv, ListInv, Finish
    PROVE  ListInv'
<1> DEFINE n == Top.node
           len == Len(callStack)
<1>1. /\ Busy /\ Top.pc > Len(ast.visit[n])
      /\ WriteChildren /\ callStack' = Pop /\ emitted' = emitted \cup {n}
      /\ ast' = ast /\ systemHeaderThreshold' = systemHeaderThreshold
    BY DEF Finish, HandlerDone, Handler, input
<1>2. /\ len \in Nat /\ len > 0 /\ DOMAIN callStack = 1..len
      /\ Top \in Frames /\ n \in Nodes /\ Top = callStack[len]
      /\ FrameInv(Top) /\ ast \in AST
      /\ \A i \in 1..len : callStack[i] \in Frames
    BY <1>1, TopFrame, FrameTypes DEF IInv, StackInv, Types, Top
<1>3. /\ Len(callStack') = len - 1
      /\ DOMAIN callStack' = 1..(len - 1)
      /\ \A i \in 1..(len - 1) : callStack'[i].node = callStack[i].node
      /\ \A i \in 1..(len - 1) :
            callStack'[i] = IF i = len - 1
                            THEN Returned(callStack[i],
                                          ast.visit[callStack[i].node][callStack[i].pc])
                            ELSE callStack[i]
    BY <1>1, PoppedStack DEF IInv
<1>4. ASSUME NEW i \in 1..(len - 1)
      PROVE  Past(i)' = Past(i)
    <2>1. i \in Int /\ \A j \in 1..i : callStack'[j].node = callStack[j].node
        <3> HIDE DEF len, n
        <3>1. len - 1 \in Int /\ i \in Int /\ i <= len - 1
            BY <1>2
        <3>2. \A j \in 1..i : j \in 1..(len - 1)
            BY <3>1
        <3> QED
            BY <1>3, <3>1, <3>2
    <2> QED
        BY <1>1, <2>1, DepthStable
<1>5. ASSUME NEW i \in 1..(len - 1), i # len - 1
      PROVE  Allowed(i)'
    <2>1. Allowed(i) /\ callStack'[i] = callStack[i]
        BY <1>2, <1>3, <1>5 DEF ListInv, CallInv
    <2> QED
        BY <1>1, <1>4, <2>1 DEF Allowed, CallAt
<1>6. ASSUME NEW i \in 1..(len - 1)
      PROVE  Decided(i)'
    <2>1. /\ Decided(i) /\ Allowed(i) /\ callStack[i] \in Frames /\ WaitingInv(callStack[i])
          /\ i < len
        BY <1>2, ListInvOfFrames DEF ListInv, CallInv, IInv, StackInv
    <2>2. ListedBy(callStack'[i].children, ast.visit[callStack'[i].node],
                   callStack'[i].pc - 1, Past(i))
        <3>1. CASE i = len - 1
            <4> DEFINE g == Returned(callStack[i], ast.visit[callStack[i].node][callStack[i].pc])
            <4>1. ListedBy(g.children, ast.visit[callStack[i].node], g.pc - 1, Past(i))
                BY <1>2, <2>1, ReturnedLists DEF Decided, Allowed, CallAt, WaitingInv
            <4>2. callStack'[i] = g /\ callStack'[i].node = callStack[i].node
                BY <1>3, <3>1
            <4> HIDE DEF g
            <4> QED
                BY <4>1, <4>2
        <3>2. CASE i # len - 1
            <4>1. callStack'[i] = callStack[i]
                BY <1>3, <3>2
            <4> QED
                BY <2>1, <4>1 DEF Decided
        <3> QED
            BY <3>1, <3>2
    <2> QED
        BY <1>1, <1>4, <2>2 DEF Decided
<1>7. CallInv'
    <2> HIDE DEF len
    <2>1. \A i \in 1..(Len(callStack') - 1) : i \in 1..(len - 1) /\ i # len - 1
        BY <1>2, <1>3
    <2>2. \A i \in 1..(Len(callStack') - 1) : Allowed(i)'
        BY <1>5, <2>1
    <2> QED
        BY <2>2 DEF CallInv
<1>8. ChildrenDecidedByDepth'
    <2> HIDE DEF len
    <2>1. \A i \in DOMAIN callStack' : Decided(i)'
        BY <1>3, <1>6
    <2> QED
        BY <2>1 DEF ChildrenDecidedByDepth, Decided, Past
<1> QED
    BY <1>7, <1>8 DEF ListInv

(* A handler that is done has listed all of its calls.                      *)
LEMMA ListComplete ==
    ASSUME IInv, ListInv, HandlerDone
    PROVE  \E past \in BOOLEAN : ListedByAll(Top.children, ast.visit[Top.node], past)
<1>1. Busy /\ Top.pc > Len(ast.visit[Top.node])
    BY DEF HandlerDone, Handler
<1>2. /\ Len(callStack) \in 1..Len(callStack) /\ Top = callStack[Len(callStack)]
      /\ Top \in Frames /\ FrameInv(Top) /\ ast \in AST
    BY <1>1, TopFrame DEF IInv, StackInv, Types, Top
<1>3. Top.pc - 1 = Len(ast.visit[Top.node])
    <2>1. Len(ast.visit[Top.node]) \in Nat /\ Top.pc \in Nat
        BY <1>2, HandlerTypes, FrameTypes
    <2> QED
        BY <1>1, <1>2, <2>1 DEF FrameInv
<1>4. Decided(Len(callStack))
    BY <1>2, ListInvOfFrames DEF ListInv
<1>5. Past(Len(callStack)) \in BOOLEAN
    BY DEF Past, PastThreshold
<1> QED
    BY <1>2, <1>3, <1>4, <1>5 DEF Decided, ListedByAll

(* An exception leaves no frame.                                            *)
LEMMA ThrowLists ==
    ASSUME IInv, ListInv, ~ thrown, HandlerThrows \/ DataThrows
    PROVE  ListInv'
<1>1. callStack' = <<>> /\ emitted' = emitted /\ ast' = ast /\ IInv'
    BY ThrowStep DEF HandlerThrows, DataThrows, Unwind, input
<1>2. DOMAIN callStack' = {} /\ Len(callStack') = 0
    BY <1>1, EmptySeq
<1>3. CallInv'
    BY <1>2 DEF CallInv
<1>4. ChildrenDecidedByDepth'
    BY <1>2 DEF ChildrenDecidedByDepth
<1> QED
    BY <1>3, <1>4 DEF ListInv

LEMMA InitLists == Init => ListInv
<1> SUFFICES ASSUME Init PROVE ListInv
    OBVIOUS
<1>1. callStack = <<>> /\ emitted = {}
    BY DEF Init
<1>2. DOMAIN callStack = {} /\ Len(callStack) = 0
    BY <1>1, EmptySeq
<1> QED
    BY <1>2 DEF ListInv, CallInv, ChildrenDecidedByDepth

(* The call that is made now is allowed, and was decided by the depth.      *)
LEMMA CurrentAllowed ==
    ASSUME IInv, LevelInv, ListInv, InHandler
    PROVE  /\ Current = CallAt(Len(callStack)) /\ Top = callStack[Len(callStack)]
           /\ isPastSystemHeaderThreshold <=> Past(Len(callStack))
           /\ ListedBy(Top.children, ast.visit[Top.node], Top.pc - 1, Past(Len(callStack)))
<1>1. ~ thrown /\ Busy /\ Current = ast.visit[Top.node][Top.pc]
    BY CurrentCall
<1>2. Len(callStack) \in 1..Len(callStack) /\ Top = callStack[Len(callStack)]
    BY <1>1, TopFrame DEF IInv, Top
<1>3. Decided(Len(callStack))
    BY <1>2, ListInvOfFrames DEF ListInv
<1> QED
    BY <1>1, <1>2, <1>3, PastTop DEF CallAt, Decided

LEMMA SuppressLists ==
    ASSUME IInv, LevelInv, ListInv, SuppressChild
    PROVE  ListInv'
<1> DEFINE g == [Top EXCEPT !.pc = @ + 1]
           calls == ast.visit[Top.node]
           past == Past(Len(callStack))
<1>1. InHandler /\ Current.op = "addChild" /\ isPastSystemHeaderThreshold /\ Return(g)
    BY DEF SuppressChild
<1>2. /\ Busy /\ Top \in Frames /\ FrameInv(Top) /\ ast \in AST
      /\ Top.pc <= Len(calls) /\ Current = calls[Top.pc]
    BY <1>1, CurrentCall
<1>3. past /\ ListedBy(Top.children, calls, Top.pc - 1, past)
    BY <1>1, CurrentAllowed
<1>4. Top.pc - 1 \in Nat /\ Top.pc - 1 + 1 = Top.pc
    BY <1>2, FrameTypes
<1>5. ~ Lists(calls[Top.pc], past)
    BY <1>1, <1>2, <1>3 DEF Lists
<1>6. ListedBy(Top.children, calls, Top.pc, past)
    <2>1. ListedBy(Top.children, calls, Top.pc - 1 + 1, past)
        <3> HIDE DEF calls, past
        <3> QED
            BY <1>3, <1>4, <1>5, ListSkip
    <2> QED
        BY <1>4, <2>1
<1>7. g \in Frames /\ g.node = Top.node /\ g.children = Top.children /\ g.pc - 1 = Top.pc
    <2>1. g.pc = Top.pc + 1 /\ g.children = Top.children
        BY <1>2 DEF Frames
    <2>2. g \in Frames /\ g.node = Top.node
        BY <1>1, <1>2, SkippedFrame DEF DirectVisits
    <2> HIDE DEF g
    <2> QED
        BY <1>2, <2>1, <2>2, FrameTypes
<1>8. UNCHANGED <<input, stream>>
    BY DEF SuppressChild
<1> HIDE DEF g
<1> QED
    BY <1>1, <1>2, <1>6, <1>7, <1>8, ReturnLists

LEMMA AgainLists ==
    ASSUME IInv, LevelInv, ListInv, AddChildAgain \/ DirectVisitAgain
    PROVE  ListInv'
<1> DEFINE g == Returned(Top, Current)
           past == Past(Len(callStack))
<1>1. /\ InHandler /\ Return(g) /\ alreadyDumped(Current.to)
      /\ Current.op # "throw" /\ (Current.op = "addChild" => ~ isPastSystemHeaderThreshold)
    BY DEF AddChildAgain, DirectVisitAgain, DirectVisits
<1>2. /\ Busy /\ Top \in Frames /\ FrameInv(Top) /\ ast \in AST
      /\ Top.pc <= Len(ast.visit[Top.node]) /\ Current = ast.visit[Top.node][Top.pc]
    BY <1>1, CurrentCall
<1>3. /\ Current.op = "addChild" => ~ past
      /\ ListedBy(Top.children, ast.visit[Top.node], Top.pc - 1, past)
    BY <1>1, CurrentAllowed
<1>4. ListedBy(g.children, ast.visit[Top.node], g.pc - 1, past)
    <2> HIDE DEF past
    <2> QED
        BY <1>1, <1>2, <1>3, ReturnedLists
<1>5. WaitingInv(Top)
    BY <1>1, <1>2 DEF WaitingInv, alreadyDumped, Known
<1>6. g \in Frames /\ g.node = Top.node
    BY <1>2, <1>5, ReturnedFrame
<1>7. UNCHANGED <<input, stream>>
    BY DEF AddChildAgain, DirectVisitAgain
<1> HIDE DEF g
<1> QED
    BY <1>1, <1>2, <1>4, <1>6, <1>7, ReturnLists

LEMMA NextLists == IInv /\ IInv' /\ LevelInv /\ ListInv /\ [Next]_vars => ListInv'
<1> SUFFICES ASSUME IInv, IInv', LevelInv, ListInv, [Next]_vars PROVE ListInv'
    OBVIOUS
<1>1. ASSUME NEW n \in ast.roots, VisitTop(n) PROVE ListInv'
    <2>1. n \in Ids /\ ~ Busy /\ Enter(n)
        BY <1>1 DEF IInv, Types, AST, VisitTop
    <2> QED
        BY <2>1, EnterLists
<1>2. CASE UNCHANGED vars
    <2>1. /\ ast' = ast /\ systemHeaderThreshold' = systemHeaderThreshold
          /\ callStack' = callStack /\ visitedChildren' = visitedChildren
          /\ emitted' = emitted
        BY <1>2 DEF vars
    <2>2. \A i : Past(i)' = Past(i)
        BY <2>1 DEF Past, PastThreshold, Depth
    <2>3. CallInv'
        BY <2>1, <2>2 DEF ListInv, CallInv, Allowed, CallAt
    <2>4. ChildrenDecidedByDepth'
        BY <2>1, <2>2 DEF ListInv, ChildrenDecidedByDepth, Past
    <2> QED
        BY <2>3, <2>4 DEF ListInv
<1>3. CASE AddChild \/ DirectVisit
    <2>1. /\ InHandler /\ Enter(Current.to)
          /\ Current.op # "throw" /\ (Current.op = "addChild" => ~ isPastSystemHeaderThreshold)
        BY <1>3 DEF AddChild, DirectVisit, DirectVisits
    <2>2. Current.to \in Ids /\ Allowed(Len(callStack))
        BY <2>1, CurrentCall, CurrentAllowed DEF Allowed
    <2> QED
        BY <2>1, <2>2, EnterLists
<1>4. CASE SuppressChild
    BY <1>4, SuppressLists
<1>5. CASE AddChildAgain \/ DirectVisitAgain
    BY <1>5, AgainLists
<1>6. CASE Finish
    BY <1>6, FinishLists
<1>7. CASE HandlerThrows \/ DataThrows
    <2>1. ~ thrown
        BY <1>7 DEF HandlerThrows, DataThrows, InHandler, HandlerDone, Busy, IInv
    <2> QED
        BY <1>7, <2>1, ThrowLists
<1> QED
    BY <1>1, <1>2, <1>3, <1>4, <1>5, <1>6, <1>7 DEF Next, Step, VisitTopAgain, Stopped

LEMMA NextAllOrNothing == IInv /\ ListInv /\ AllOrNothing /\ [Next]_vars => AllOrNothing'
<1> SUFFICES ASSUME IInv, ListInv, AllOrNothing, [Next]_vars,
                    NEW n \in emitted'
             PROVE  \E past \in BOOLEAN :
                        ListedByAll(visitedChildren'[n], ast'.visit[n], past)
    BY DEF AllOrNothing, ListedByAll, ListedBy, Place, Lists
<1>1. ast' = ast
    BY Writes
<1>2. CASE n \in emitted
    <2>1. visitedChildren'[n] = visitedChildren[n]
        BY <1>2, FrozenRecords DEF IInv
    <2> QED
        BY <1>1, <1>2, <2>1 DEF AllOrNothing
<1>3. CASE n \notin emitted
    <2>1. Finish
        BY <1>3, Writes
    <2>2. HandlerDone /\ Busy /\ WriteChildren /\ emitted' = emitted \cup {Top.node}
        BY <2>1 DEF Finish, HandlerDone
    <2>3. n = Top.node /\ visitedChildren'[n] = Top.children
        BY <1>3, <2>2, ChildrenWritten DEF IInv
    <2> QED
        BY <1>1, <2>2, <2>3, ListComplete
<1> QED
    BY <1>2, <1>3

LEMMA ListsInductive == Spec => []ListInv
<1>1. Init => ListInv
    BY InitLists
<1>2. IInv /\ IInv' /\ LevelInv /\ ListInv /\ [Next]_vars => ListInv'
    BY NextLists
<1> QED
    BY <1>1, <1>2, Inductive, LevelInductive, PTL DEF Spec

(* What a running handler has listed is all of its calls or the required    *)
(* ones, as the depth of its node says (isPastSystemHeaderThreshold).       *)
THEOREM ChildrenDecidedByDepthHolds == Spec => []ChildrenDecidedByDepth
<1>1. ListInv => ChildrenDecidedByDepth
    BY DEF ListInv
<1> QED
    BY <1>1, ListsInductive, PTL

(* No written list was cut short by the visits made in between.             *)
THEOREM AllOrNothingHolds == Spec => []AllOrNothing
<1>1. Init => AllOrNothing
    BY DEF Init, AllOrNothing
<1>2. IInv /\ ListInv /\ AllOrNothing /\ [Next]_vars => AllOrNothing'
    BY NextAllOrNothing
<1> QED
    BY <1>1, <1>2, Inductive, ListsInductive, PTL DEF Spec

(* addChild() descends from nodes up to the threshold only.                 *)
THEOREM StructuralDepthBoundedHolds == Spec => []StructuralDepthBounded
<1>1. IInv /\ ListInv => StructuralDepthBounded
    <2> SUFFICES ASSUME IInv, ListInv, NEW i \in 2..Len(callStack),
                        ast.visit[callStack[i - 1].node][callStack[i - 1].pc].op = "addChild"
                 PROVE  ~ PastThreshold(Depth(i - 1))
        BY DEF StructuralDepthBounded
    <2>1. i - 1 \in 1..(Len(callStack) - 1)
        BY LenProperties DEF IInv, Types
    <2> QED
        BY <2>1 DEF ListInv, CallInv, Allowed, CallAt, Past
<1> QED
    BY <1>1, Inductive, ListsInductive, PTL

=============================================================================
