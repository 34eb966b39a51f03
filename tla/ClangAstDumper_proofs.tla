------------------------ MODULE ClangAstDumper_proofs ------------------------
(***************************************************************************)
(* Proofs about the traversal core, for every graph and threshold.         *)
(*                                                                         *)
(* The inductive invariant IInv follows the obligations of a call on the   *)
(* stack: a handler has dumped, or is dumping, everything it visited or    *)
(* listed so far; the caller of a frame is in the middle of a call on a    *)
(* seen node; a written node has made all its calls.  Together with the    *)
(* split of the seen nodes into written ones and ones on the stack, this   *)
(* makes the written nodes closed under direct visits whenever the stack   *)
(* is empty, which is graph closure.                                       *)
(***************************************************************************)
EXTENDS ClangAstDumper, SequenceTheorems, FiniteSetTheorems, TLAPS

Known == seen \cup {Null}

(* The direct visits among the first k calls of the handler of n are made.  *)
VisitsMade(n, k) ==
    \A j \in 1..k : ast.visit[n][j].op \in DirectVisits => ast.visit[n][j].to \in Known

AllKnown(children) == \A i \in DOMAIN children : children[i] \in Known

FrameInv(f) ==
    /\ f.pc <= Len(ast.visit[f.node]) + 1
    /\ VisitsMade(f.node, f.pc - 1)
    /\ AllKnown(f.children)

(* A frame below the top waits for the call at its pc to return.            *)
WaitingInv(f) ==
    /\ f.pc <= Len(ast.visit[f.node])
    /\ ast.visit[f.node][f.pc].to \in Known

StackInv ==
    \A i \in DOMAIN callStack :
        /\ FrameInv(callStack[i])
        /\ i < Len(callStack) => WaitingInv(callStack[i])

WrittenInv == \A n \in emitted : AllKnown(visitedChildren[n])

(* TypeOK without the sign of the level.                                    *)
Types ==
    /\ ast \in AST
    /\ systemHeaderThreshold \in Thresholds
    /\ seen \subseteq Nodes
    /\ callStack \in Seq(Frames)
    /\ emitted \subseteq Nodes
    /\ DOMAIN visitedChildren \subseteq Nodes
    /\ \A n \in DOMAIN visitedChildren : visitedChildren[n] \in Seq(Ids)
    /\ thrown \in BOOLEAN

IInv ==
    /\ Types
    /\ emitted \subseteq DOMAIN visitedChildren
    /\ thrown => callStack = <<>>
    /\ SerializedOnce
    /\ StackInv
    /\ WrittenInv

(* A written node has made all its direct visits.  This part is about the   *)
(* graph as it was when the node was written, and stands apart from IInv    *)
(* for a graph that changes between two calls.                              *)
VisitsInv == \A n \in emitted : VisitsMade(n, Len(ast.visit[n]))

-----------------------------------------------------------------------------

LEMMA FrameTypes ==
    ASSUME NEW f \in Frames
    PROVE  /\ f.node \in Nodes
           /\ f.pc \in Nat /\ f.pc > 0
           /\ f.children \in Seq(Ids)
    BY DEF Frames

LEMMA HandlerTypes ==
    ASSUME ast \in AST, NEW n \in Nodes
    PROVE  /\ ast.visit[n] \in Seq(Visits)
           /\ Len(ast.visit[n]) \in Nat
           /\ \A k \in 1..Len(ast.visit[n]) : ast.visit[n][k].to \in Ids
           /\ DOMAIN ast.visit[n] = 1..Len(ast.visit[n])
<1>1. ast.visit[n] \in Seq(Visits)
    BY DEF AST
<1>2. \A k \in 1..Len(ast.visit[n]) : ast.visit[n][k] \in Visits
    BY <1>1, ElementOfSeq
<1> QED
    BY <1>1, <1>2, LenProperties DEF Visits

(* The innermost frame.                                                     *)
LEMMA TopFrame ==
    ASSUME Types, Busy
    PROVE  /\ Len(callStack) \in Nat /\ Len(callStack) > 0
           /\ Len(callStack) \in DOMAIN callStack
           /\ DOMAIN callStack = 1..Len(callStack)
           /\ Top \in Frames
           /\ \A i \in DOMAIN callStack : callStack[i] \in Frames
<1>1. callStack \in Seq(Frames) /\ callStack # <<>>
    BY DEF Types, Busy
<1>2. Len(callStack) \in Nat \ {0} /\ DOMAIN callStack = 1..Len(callStack)
    BY <1>1, EmptySeq, LenProperties
<1>3. \A i \in 1..Len(callStack) : callStack[i] \in Frames
    BY <1>1, ElementOfSeq
<1> QED
    BY <1>2, <1>3 DEF Top

(* What the last frame leaves when it returns to a caller changed to e.     *)
LEMMA Popped ==
    ASSUME NEW S, NEW s \in Seq(S), Len(s) > 1, NEW e \in S
    PROVE  LET t == [SubSeq(s, 1, Len(s) - 1) EXCEPT ![Len(s) - 1] = e]
           IN  /\ t \in Seq(S)
               /\ Len(t) = Len(s) - 1
               /\ \A i \in 1..Len(t) : t[i] = IF i = Len(t) THEN e ELSE s[i]
<1> DEFINE n == Len(s) - 1
           r == SubSeq(s, 1, n)
           t == [r EXCEPT ![n] = e]
<1>1. n \in Nat /\ n > 0
    BY LenProperties
<1>2. \A i \in 1..n : s[i] \in S
    BY <1>1, ElementOfSeq
<1>3. /\ r \in Seq(S)
      /\ Len(r) = n
      /\ \A i \in 1..n : r[i] = s[i]
    <2>1. /\ r \in Seq(S)
          /\ Len(r) = IF 1 <= n THEN n - 1 + 1 ELSE 0
          /\ \A i \in 1..(n - 1 + 1) : r[i] = s[1 + i - 1]
        BY <1>1, <1>2, SubSeqProperties
    <2> QED
        BY <2>1, <1>1
<1>4. n \in 1..Len(r)
    BY <1>1, <1>3
<1>5. /\ t \in Seq(S)
      /\ Len(t) = Len(r)
      /\ \A j \in 1..Len(r) : t[j] = IF j = n THEN e ELSE r[j]
    <2> HIDE DEF r, n
    <2>1. t = [r EXCEPT ![n] = e]
        OBVIOUS
    <2>2. /\ [r EXCEPT ![n] = e] \in Seq(S)
          /\ Len([r EXCEPT ![n] = e]) = Len(r)
          /\ \A j \in 1..Len(r) : [r EXCEPT ![n] = e][j] = IF j = n THEN e ELSE r[j]
        BY <1>3, <1>4, ExceptSeq
    <2> QED
        BY <2>1, <2>2
<1>6. Len(r) = n /\ t = [SubSeq(s, 1, Len(s) - 1) EXCEPT ![Len(s) - 1] = e]
    BY <1>3
<1>7. \A i \in 1..Len(t) : t[i] = IF i = Len(t) THEN e ELSE s[i]
    <2> HIDE DEF r, n, t
    <2> QED
        BY <1>3, <1>5
<1> QED
    BY <1>3, <1>5, <1>6, <1>7

-----------------------------------------------------------------------------

(* What is known stays known.                                               *)
LEMMA KnownGrows ==
    ASSUME seen \subseteq seen', ast' = ast
    PROVE  /\ \A n, k : VisitsMade(n, k) => VisitsMade(n, k)'
           /\ \A c : AllKnown(c) => AllKnown(c)'
           /\ \A f : FrameInv(f) => FrameInv(f)'
           /\ \A f : WaitingInv(f) => WaitingInv(f)'
    BY DEF VisitsMade, AllKnown, FrameInv, WaitingInv, Known

LEMMA SkippedFrame ==
    ASSUME ast \in AST, NEW f \in Frames, FrameInv(f),
           f.pc <= Len(ast.visit[f.node]),
           ast.visit[f.node][f.pc].op \notin DirectVisits
    PROVE  LET g == [f EXCEPT !.pc = @ + 1]
           IN  g \in Frames /\ g.node = f.node /\ FrameInv(g)
<1> DEFINE g == [f EXCEPT !.pc = @ + 1]
<1>1. f.pc \in Nat /\ f.pc > 0 /\ f.node \in Nodes
    BY FrameTypes
<1>2. g \in Frames /\ g.node = f.node /\ g.pc = f.pc + 1 /\ g.children = f.children
    BY <1>1 DEF Frames
<1>3. Len(ast.visit[f.node]) \in Nat
    BY <1>1, HandlerTypes
<1>4. VisitsMade(f.node, f.pc)
    <2>1. \A j \in 1..f.pc : j = f.pc \/ j \in 1..(f.pc - 1)
        BY <1>1
    <2> QED
        BY <2>1 DEF VisitsMade, FrameInv
<1> QED
    BY <1>1, <1>2, <1>3, <1>4 DEF FrameInv

LEMMA ReturnedFrame ==
    ASSUME ast \in AST, NEW f \in Frames, FrameInv(f), WaitingInv(f)
    PROVE  LET g == Returned(f, ast.visit[f.node][f.pc])
           IN  g \in Frames /\ g.node = f.node /\ FrameInv(g)
<1> DEFINE call == ast.visit[f.node][f.pc]
           g == Returned(f, call)
           c == IF call.op \in Listings THEN Append(f.children, call.to) ELSE f.children
<1>1. f.pc \in Nat /\ f.pc > 0 /\ f.node \in Nodes /\ f.children \in Seq(Ids)
    BY FrameTypes
<1>2. Len(ast.visit[f.node]) \in Nat /\ call.to \in Ids /\ call.to \in Known
    BY <1>1, HandlerTypes DEF WaitingInv
<1>3. c \in Seq(Ids) /\ AllKnown(c)
    <2>1. CASE call.op \in Listings
        <3>1. /\ c \in Seq(Ids)
              /\ Len(c) = Len(f.children) + 1
              /\ \A i \in 1..Len(f.children) : c[i] = f.children[i]
              /\ c[Len(f.children) + 1] = call.to
            BY <1>1, <1>2, <2>1, AppendProperties
        <3>2. /\ DOMAIN c = 1..Len(c) /\ DOMAIN f.children = 1..Len(f.children)
              /\ Len(f.children) \in Nat
            BY <1>1, <3>1, LenProperties
        <3> HIDE DEF c
        <3> QED
            BY <1>2, <3>1, <3>2 DEF AllKnown, FrameInv
    <2>2. CASE call.op \notin Listings
        BY <1>1, <2>2 DEF FrameInv
    <2> QED
        BY <2>1, <2>2
<1>4. g.node = f.node /\ g.pc = f.pc + 1 /\ g.children = c /\ g \in Frames
    <2>1. g = [f EXCEPT !.pc = f.pc + 1, !.children = c]
        BY DEF Returned
    <2> HIDE DEF c, g
    <2>2. g.node = f.node /\ g.pc = f.pc + 1 /\ g.children = c
        BY <2>1 DEF Frames
    <2>3. g = [node |-> f.node, pc |-> f.pc + 1, children |-> c]
        BY <2>1 DEF Frames
    <2>4. f.pc + 1 \in Nat \ {0}
        BY <1>1
    <2> QED
        BY <1>1, <1>3, <2>2, <2>3, <2>4 DEF Frames
<1>5. VisitsMade(f.node, f.pc)
    <2>1. \A j \in 1..f.pc : j = f.pc \/ j \in 1..(f.pc - 1)
        BY <1>1
    <2> QED
        BY <2>1, <1>2 DEF VisitsMade, FrameInv
<1> HIDE DEF c, g
<1> QED
    BY <1>1, <1>2, <1>3, <1>4, <1>5 DEF FrameInv, WaitingInv, g

-----------------------------------------------------------------------------

LEMMA InitIInv == Init => IInv
<1> SUFFICES ASSUME Init PROVE IInv
    OBVIOUS
<1>1. ast \in AST /\ systemHeaderThreshold \in Thresholds
    BY ASTsAssumption DEF Init
<1>2. callStack = <<>> /\ DOMAIN callStack = {} /\ callStack \in Seq(Frames)
    BY EmptySeq DEF Init
<1>3. DOMAIN visitedChildren = {}
    BY DEF Init
<1>4. Types
    BY <1>1, <1>2, <1>3 DEF Init, Types
<1>5. SerializedOnce
    BY <1>2, <1>3 DEF Init, SerializedOnce, OnStack
<1> QED
    BY <1>2, <1>4, <1>5 DEF Init, IInv, StackInv, WrittenInv

(* A node is entered: it was neither written nor on the stack, and its      *)
(* caller waits for it.                                                     *)
LEMMA EnterStep ==
    ASSUME IInv, ~ thrown, NEW n \in Ids, Enter(n),
           Busy => /\ Top.pc <= Len(ast.visit[Top.node])
                   /\ ast.visit[Top.node][Top.pc].to = n
    PROVE  IInv'
<1> DEFINE f == [node |-> n, pc |-> 1, children |-> <<>>]
           len == Len(callStack)
<1>1. n \in Nodes /\ n \notin seen /\ seen' = seen \cup {n}
    BY DEF Enter, alreadyDumped, Ids
<1>2. /\ callStack' = Append(callStack, f)
      /\ ast' = ast /\ systemHeaderThreshold' = systemHeaderThreshold
      /\ visitedChildren' = visitedChildren /\ emitted' = emitted /\ thrown' = thrown
    BY DEF Enter, input, stream
<1>3. f \in Frames
    BY <1>1, EmptySeq DEF Frames
<1>4. /\ len \in Nat
      /\ DOMAIN callStack = 1..len
      /\ callStack' \in Seq(Frames)
      /\ Len(callStack') = len + 1
      /\ \A i \in 1..len : callStack'[i] = callStack[i]
      /\ callStack'[len + 1] = f
    <2>1. callStack \in Seq(Frames)
        BY DEF IInv, Types
    <2> HIDE DEF f
    <2> QED
        BY <1>2, <1>3, <2>1, AppendProperties, LenProperties
<1>5. DOMAIN callStack' = 1..(len + 1)
    BY <1>4, LenProperties
<1>6. Types'
    BY <1>1, <1>2, <1>4 DEF IInv, Types
<1>7. SerializedOnce'
    <2>1. n \notin OnStack /\ n \notin DOMAIN visitedChildren
        BY <1>1 DEF IInv, SerializedOnce
    <2>2. \A i \in 1..len : callStack[i].node # n
        BY <1>4, <2>1 DEF OnStack
    <2>3. \A i, j \in DOMAIN callStack' : callStack'[i].node = callStack'[j].node => i = j
        BY <1>4, <1>5, <2>2 DEF IInv, SerializedOnce
    <2>4. OnStack' = OnStack \cup {n}
        BY <1>4, <1>5 DEF OnStack
    <2> QED
        BY <1>1, <1>2, <2>1, <2>3, <2>4 DEF IInv, SerializedOnce
<1>8. StackInv'
    <2>1. ASSUME NEW i \in 1..len
          PROVE  FrameInv(callStack[i])' /\ WaitingInv(callStack[i])'
        <3>1. FrameInv(callStack[i]) /\ (i < len => WaitingInv(callStack[i]))
            BY <1>4 DEF IInv, StackInv
        <3>2. FrameInv(callStack[i])'
            <4> DEFINE g == callStack[i]
            <4>1. callStack'[i] = g
                BY <1>4
            <4> QED
                BY <1>1, <1>2, <3>1, <4>1, KnownGrows DEF FrameInv, VisitsMade, AllKnown, Known
        <3>3. WaitingInv(callStack[i])'
            <4>1. callStack'[i] = callStack[i]
                BY <1>4
            <4>2. CASE i < len
                BY <1>1, <1>2, <3>1, <4>1, <4>2 DEF WaitingInv, Known
            <4>3. CASE i = len
                <5>1. Busy /\ Top = callStack[i]
                    BY <1>4, <4>3 DEF Busy, Top
                <5> QED
                    BY <1>1, <1>2, <4>1, <5>1 DEF WaitingInv, Known
            <4>4. i < len \/ i = len
                <5> HIDE DEF f, len
                <5> QED
                    BY <1>4
            <4> QED
                BY <4>2, <4>3, <4>4
        <3> QED
            BY <3>2, <3>3
    <2>2. ASSUME NEW i, i = len + 1
          PROVE  FrameInv(callStack[i])'
        <3>1. callStack'[i] = f
            BY <1>4, <2>2
        <3>2. Len(ast.visit[n]) \in Nat
            BY <1>1, HandlerTypes DEF IInv, Types
        <3>3. f.node = n /\ f.pc = 1 /\ f.children = <<>>
            OBVIOUS
        <3>4. VisitsMade(n, 0)' /\ AllKnown(<<>>)'
            BY DEF VisitsMade, AllKnown
        <3> HIDE DEF f
        <3> QED
            BY <1>2, <3>1, <3>2, <3>3, <3>4 DEF FrameInv
    <2> QED
        BY <1>4, <1>5, <2>1, <2>2 DEF StackInv
<1>9. WrittenInv'
    BY <1>1, <1>2, KnownGrows DEF IInv, WrittenInv
<1> QED
    BY <1>2, <1>6, <1>7, <1>8, <1>9 DEF IInv

(* The innermost frame goes on to its next call.                            *)
LEMMA ReturnStep ==
    ASSUME IInv, Busy, NEW g \in Frames, g.node = Top.node, FrameInv(g), Return(g),
           UNCHANGED <<input, seen, stream, thrown>>
    PROVE  IInv' /\ callStack' # <<>>
<1> DEFINE len == Len(callStack)
<1>1. /\ ast' = ast /\ systemHeaderThreshold' = systemHeaderThreshold /\ seen' = seen
      /\ visitedChildren' = visitedChildren /\ emitted' = emitted /\ thrown' = thrown
    BY DEF input, stream
<1>2. len \in Nat /\ len > 0 /\ DOMAIN callStack = 1..len
    BY TopFrame DEF IInv
<1>3. /\ callStack' \in Seq(Frames)
      /\ Len(callStack') = len
      /\ \A i \in 1..len : callStack'[i] = IF i = len THEN g ELSE callStack[i]
    <2>1. callStack \in Seq(Frames) /\ callStack' = [callStack EXCEPT ![len] = g]
        BY DEF IInv, Types, Return
    <2> QED
        BY <1>2, <2>1, ExceptSeq
<1>4. DOMAIN callStack' = 1..len
    BY <1>3, LenProperties
<1>5. \A i \in 1..len : callStack'[i].node = callStack[i].node
    BY <1>3 DEF Top
<1>6. Types'
    BY <1>1, <1>3 DEF IInv, Types
<1>7. SerializedOnce'
    <2>1. OnStack' = OnStack
        BY <1>2, <1>4, <1>5 DEF OnStack
    <2> QED
        BY <1>1, <1>2, <1>4, <1>5, <2>1 DEF IInv, SerializedOnce
<1>8. StackInv'
    <2> SUFFICES ASSUME NEW i \in 1..len
                 PROVE  FrameInv(callStack[i])' /\ (i < len => WaitingInv(callStack[i])')
        BY <1>3, <1>4 DEF StackInv
    <2>1. FrameInv(callStack'[i]) /\ (i < len => WaitingInv(callStack'[i]))
        <3>1. FrameInv(callStack[i]) /\ (i < len => WaitingInv(callStack[i]))
            BY <1>2 DEF IInv, StackInv
        <3>2. CASE i = len
            <4>1. callStack'[i] = g /\ ~ (i < len)
                <5> HIDE DEF len
                <5> QED
                    BY <1>2, <1>3, <3>2
            <4> QED
                BY <4>1
        <3>3. CASE i # len
            <4>1. callStack'[i] = callStack[i]
                BY <1>3, <3>3
            <4> QED
                BY <3>1, <4>1
        <3> QED
            BY <3>2, <3>3
    <2> QED
        BY <1>1, <2>1 DEF FrameInv, WaitingInv, VisitsMade, AllKnown, Known
<1>9. WrittenInv'
    BY <1>1 DEF IInv, WrittenInv, AllKnown, Known
<1>10. callStack' # <<>>
    <2>1. Len(callStack') = len /\ len > 0
        BY <1>2, <1>3
    <2>2. callStack' = <<>> => Len(callStack') = 0
        BY EmptySeq
    <2> HIDE DEF len
    <2> QED
        BY <2>1, <2>2
<1> QED
    BY <1>1, <1>6, <1>7, <1>8, <1>9, <1>10 DEF IInv, Busy

-----------------------------------------------------------------------------

(* The stack without its innermost frame keeps its nodes and obligations.   *)
LEMMA PoppedStack ==
    ASSUME Types, StackInv, Busy, callStack' = Pop
    PROVE  /\ callStack' \in Seq(Frames)
           /\ Len(callStack') = Len(callStack) - 1
           /\ DOMAIN callStack' = 1..(Len(callStack) - 1)
           /\ \A i \in 1..(Len(callStack) - 1) :
                    /\ callStack'[i].node = callStack[i].node
                    /\ FrameInv(callStack'[i])
                    /\ i < Len(callStack) - 1 => WaitingInv(callStack'[i])
           /\ \A i \in 1..(Len(callStack) - 1) :
                    callStack'[i] = IF i = Len(callStack) - 1
                                    THEN Returned(callStack[i],
                                                  ast.visit[callStack[i].node][callStack[i].pc])
                                    ELSE callStack[i]
<1> DEFINE caller == Len(callStack) - 1
           frame == callStack[caller]
           e == Returned(frame, ast.visit[frame.node][frame.pc])
<1>1. /\ Len(callStack) \in Nat /\ Len(callStack) > 0
      /\ DOMAIN callStack = 1..Len(callStack)
      /\ callStack \in Seq(Frames)
      /\ ast \in AST
    BY TopFrame DEF Types
<1>2. CASE caller = 0
    <2>1. callStack' = <<>>
        BY <1>2 DEF Pop
    <2>2. Len(callStack') = 0 /\ DOMAIN callStack' = {} /\ callStack' \in Seq(Frames)
        BY <2>1, EmptySeq
    <2>3. Len(callStack) - 1 = 0
        BY <1>2
    <2>4. 1..(Len(callStack) - 1) = {}
        <3>1. 1..0 = {}
            OBVIOUS
        <3> QED
            BY <2>3, <3>1
    <2> QED
        BY <2>2, <2>3, <2>4
<1>3. CASE caller # 0
    <2>1. caller \in 1..Len(callStack) /\ Len(callStack) > 1 /\ caller < Len(callStack)
        BY <1>1, <1>3
    <2>2. frame \in Frames /\ FrameInv(frame) /\ WaitingInv(frame)
        BY <1>1, <2>1, TopFrame DEF StackInv
    <2>3. e \in Frames /\ e.node = frame.node /\ FrameInv(e)
        BY <1>1, <2>2, ReturnedFrame
    <2>4. callStack' = [SubSeq(callStack, 1, caller) EXCEPT ![caller] = e]
        <3>1. SubSeq(callStack, 1, caller)[caller] = frame
            <4>1. \A i \in 1..caller : callStack[i] \in Frames
                BY <1>1, <2>1, ElementOfSeq
            <4>2. /\ caller \in Nat /\ caller > 0
                  /\ \A i \in 1..(caller - 1 + 1) :
                        SubSeq(callStack, 1, caller)[i] = callStack[1 + i - 1]
                BY <1>1, <2>1, <4>1, SubSeqProperties
            <4> HIDE DEF caller
            <4> QED
                BY <4>2
        <3> QED
            BY <1>3, <3>1 DEF Pop
    <2>5. /\ callStack' \in Seq(Frames)
          /\ Len(callStack') = caller
          /\ \A i \in 1..Len(callStack') :
                callStack'[i] = IF i = Len(callStack') THEN e ELSE callStack[i]
        <3> DEFINE t == [SubSeq(callStack, 1, Len(callStack) - 1)
                             EXCEPT ![Len(callStack) - 1] = e]
        <3>1. /\ t \in Seq(Frames)
              /\ Len(t) = Len(callStack) - 1
              /\ \A i \in 1..Len(t) : t[i] = IF i = Len(t) THEN e ELSE callStack[i]
            <4>1. callStack \in Seq(Frames) /\ Len(callStack) > 1 /\ e \in Frames
                BY <1>1, <2>1, <2>3
            <4> HIDE DEF e, frame, caller
            <4> QED
                BY <4>1, Popped
        <3>2. callStack' = t
            BY <2>4
        <3> HIDE DEF e, t
        <3> QED
            BY <3>1, <3>2
    <2>6. DOMAIN callStack' = 1..caller
        BY <2>5, LenProperties
    <2>7. ASSUME NEW i \in 1..caller
          PROVE  /\ callStack'[i].node = callStack[i].node
                 /\ FrameInv(callStack'[i])
                 /\ i < caller => WaitingInv(callStack'[i])
        <3>1. CASE i = caller
            <4>1. callStack'[i] = e /\ callStack[i] = frame /\ ~ (i < caller)
                <5>1. callStack[i] = frame
                    BY <3>1
                <5> HIDE DEF e, frame, caller
                <5>2. i = Len(callStack') /\ i \in 1..Len(callStack')
                    BY <2>5, <3>1
                <5>3. callStack'[i] = e
                    BY <2>5, <5>2
                <5>4. ~ (i < caller)
                    BY <3>1
                <5> QED
                    BY <5>1, <5>3, <5>4
            <4> HIDE DEF e, frame
            <4> QED
                BY <2>3, <4>1
        <3>2. CASE i # caller
            <4>1. callStack'[i] = callStack[i] /\ i \in DOMAIN callStack /\ i < Len(callStack)
                <5>1. i \in Int /\ caller \in Int /\ i <= caller /\ i > 0
                    BY <1>1
                <5> HIDE DEF e, caller
                <5> QED
                    BY <1>1, <2>1, <2>5, <3>2, <5>1
            <4> QED
                BY <4>1 DEF StackInv
        <3> QED
            BY <3>1, <3>2
    <2>8. ASSUME NEW i \in 1..caller
          PROVE  callStack'[i] = IF i = caller
                                 THEN Returned(callStack[i],
                                               ast.visit[callStack[i].node][callStack[i].pc])
                                 ELSE callStack[i]
        <3>1. callStack'[i] = IF i = caller THEN e ELSE callStack[i]
            <4> HIDE DEF e, frame, caller
            <4> QED
                BY <2>5
        <3> QED
            BY <3>1
    <2> QED
        BY <2>5, <2>6, <2>7, <2>8
<1> QED
    BY <1>2, <1>3

(* The children of the innermost frame are written.                         *)
LEMMA ChildrenWritten ==
    ASSUME Types, Busy, WriteChildren
    PROVE  /\ DOMAIN visitedChildren' = DOMAIN visitedChildren \cup {Top.node}
           /\ visitedChildren'[Top.node] = Top.children
           /\ \A m \in DOMAIN visitedChildren :
                 m # Top.node => visitedChildren'[m] = visitedChildren[m]
           /\ DOMAIN visitedChildren' \subseteq Nodes
           /\ \A m \in DOMAIN visitedChildren' : visitedChildren'[m] \in Seq(Ids)
<1>1. Top.node \in Nodes /\ Top.children \in Seq(Ids)
    BY TopFrame, FrameTypes
<1> QED
    BY <1>1 DEF WriteChildren, Types

LEMMA FinishStep ==
    ASSUME IInv, ~ thrown, Finish
    PROVE  IInv'
<1> DEFINE n == Top.node
           len == Len(callStack)
<1>1. /\ Busy /\ Top.pc > Len(ast.visit[n])
      /\ WriteChildren /\ callStack' = Pop /\ emitted' = emitted \cup {n}
      /\ ast' = ast /\ systemHeaderThreshold' = systemHeaderThreshold
      /\ seen' = seen /\ thrown' = thrown
    BY DEF Finish, HandlerDone, Handler, input
<1>2. /\ len \in Nat /\ len > 0 /\ DOMAIN callStack = 1..len
      /\ Top \in Frames /\ n \in Nodes /\ Top = callStack[len]
    BY <1>1, TopFrame, FrameTypes DEF IInv, Top
<1>3. /\ callStack' \in Seq(Frames)
      /\ Len(callStack') = len - 1
      /\ DOMAIN callStack' = 1..(len - 1)
      /\ \A i \in 1..(len - 1) : /\ callStack'[i].node = callStack[i].node
                                 /\ FrameInv(callStack'[i])
                                 /\ i < len - 1 => WaitingInv(callStack'[i])
    BY <1>1, PoppedStack DEF IInv
<1>4. /\ DOMAIN visitedChildren' = DOMAIN visitedChildren \cup {n}
      /\ visitedChildren'[n] = Top.children
      /\ \A m \in DOMAIN visitedChildren : m # n => visitedChildren'[m] = visitedChildren[m]
      /\ DOMAIN visitedChildren' \subseteq Nodes
      /\ \A m \in DOMAIN visitedChildren' : visitedChildren'[m] \in Seq(Ids)
    BY <1>1, ChildrenWritten DEF IInv
<1>5. Types'
    BY <1>1, <1>2, <1>3, <1>4 DEF IInv, Types
<1>6. SerializedOnce'
    <2> HIDE DEF n, len
    <2>1. n = callStack[len].node
        BY <1>2 DEF n
    <2>2. \A i \in 1..(len - 1) : callStack[i].node # n
        BY <1>2, <2>1 DEF IInv, SerializedOnce
    <2>3. OnStack' = OnStack \ {n} /\ n \in OnStack
        <3>1. OnStack = {callStack[i].node : i \in 1..len}
            BY <1>2 DEF OnStack
        <3>2. OnStack' = {callStack[i].node : i \in 1..(len - 1)}
            BY <1>3 DEF OnStack
        <3>3. \A i \in 1..len : i \in 1..(len - 1) \/ i = len
            BY <1>2
        <3>4. 1..(len - 1) \subseteq 1..len /\ len \in 1..len
            BY <1>2
        <3> QED
            BY <2>1, <2>2, <3>1, <3>2, <3>3, <3>4
    <2>4. \A i, j \in DOMAIN callStack' : callStack'[i].node = callStack'[j].node => i = j
        BY <1>2, <1>3 DEF IInv, SerializedOnce
    <2>5. ~ thrown => seen' = emitted' \cup OnStack' /\ DOMAIN visitedChildren' = emitted'
        BY <1>1, <1>4, <2>3 DEF IInv, SerializedOnce, n
    <2>6. OnStack' \cap DOMAIN visitedChildren' = {}
        BY <1>4, <2>3 DEF IInv, SerializedOnce
    <2> QED
        BY <1>1, <2>4, <2>5, <2>6 DEF SerializedOnce
<1>7. StackInv'
    <2> HIDE DEF n, len
    <2> SUFFICES ASSUME NEW i \in 1..(len - 1)
                 PROVE  /\ FrameInv(callStack[i])'
                        /\ i < len - 1 => WaitingInv(callStack[i])'
        BY <1>3 DEF StackInv
    <2>1. FrameInv(callStack'[i]) /\ (i < len - 1 => WaitingInv(callStack'[i]))
        BY <1>3
    <2> QED
        BY <1>1, <2>1 DEF FrameInv, WaitingInv, VisitsMade, AllKnown, Known
<1>8. WrittenInv'
    <2>1. AllKnown(Top.children)
        BY <1>2 DEF IInv, StackInv, FrameInv
    <2>2. ASSUME NEW m \in emitted'
          PROVE  AllKnown(visitedChildren'[m])
        <3>1. CASE m = n
            BY <1>4, <2>1, <3>1
        <3>2. CASE m # n
            <4>1. m \in emitted /\ visitedChildren'[m] = visitedChildren[m]
                BY <1>1, <1>4, <3>2 DEF IInv
            <4> QED
                BY <4>1 DEF IInv, WrittenInv
        <3> QED
            BY <3>1, <3>2
    <2> QED
        BY <1>1, <2>2 DEF WrittenInv, AllKnown, Known
<1>9. emitted' \subseteq DOMAIN visitedChildren'
    BY <1>1, <1>4 DEF IInv
<1> QED
    BY <1>1, <1>5, <1>6, <1>7, <1>8, <1>9 DEF IInv

(* After an exception the stack is empty, and nothing written is lost.      *)
LEMMA ThrowStep ==
    ASSUME IInv, ~ thrown, HandlerThrows \/ DataThrows
    PROVE  IInv' /\ thrown' /\ callStack' = <<>> /\ emitted' = emitted
<1>1. /\ Busy /\ thrown' = TRUE /\ callStack' = <<>> /\ emitted' = emitted
      /\ ast' = ast /\ systemHeaderThreshold' = systemHeaderThreshold /\ seen' = seen
    BY DEF HandlerThrows, DataThrows, Unwind, InHandler, HandlerDone, input, stream
<1>2. DOMAIN callStack' = {} /\ callStack' \in Seq(Frames)
    BY <1>1, EmptySeq
<1>3. /\ DOMAIN visitedChildren \subseteq DOMAIN visitedChildren'
      /\ \A m \in emitted : visitedChildren'[m] = visitedChildren[m]
      /\ DOMAIN visitedChildren' \subseteq Nodes
      /\ \A m \in DOMAIN visitedChildren' : visitedChildren'[m] \in Seq(Ids)
    <2>1. CASE HandlerThrows
        BY <2>1 DEF HandlerThrows, stream, IInv, Types
    <2>2. CASE DataThrows
        <3>1. Top.node \notin DOMAIN visitedChildren
            BY <1>1, TopFrame DEF IInv, SerializedOnce, OnStack, Top
        <3> QED
            BY <1>1, <2>2, <3>1, ChildrenWritten DEF DataThrows, IInv
    <2> QED
        BY <2>1, <2>2
<1>4. Types'
    BY <1>1, <1>2, <1>3 DEF IInv, Types
<1>5. SerializedOnce'
    BY <1>1, <1>2 DEF SerializedOnce, OnStack
<1>6. StackInv'
    BY <1>2 DEF StackInv
<1>7. WrittenInv'
    BY <1>1, <1>3 DEF IInv, WrittenInv, AllKnown, Known
<1> QED
    BY <1>1, <1>3, <1>4, <1>5, <1>6, <1>7 DEF IInv

-----------------------------------------------------------------------------

(* A call made at a node is a call of its handler.                          *)
LEMMA CurrentCall ==
    ASSUME IInv, InHandler
    PROVE  /\ Busy /\ ~ thrown
           /\ Top \in Frames /\ FrameInv(Top)
           /\ Top.pc <= Len(ast.visit[Top.node])
           /\ Current = ast.visit[Top.node][Top.pc]
           /\ Current.to \in Ids
           /\ ast \in AST
<1>1. Busy /\ Top.pc <= Len(ast.visit[Top.node]) /\ Current = ast.visit[Top.node][Top.pc]
    BY DEF InHandler, Handler, Current
<1>2. ~ thrown
    BY <1>1 DEF IInv, Busy
<1>3. Top \in Frames /\ FrameInv(Top)
    BY <1>1, TopFrame DEF IInv, StackInv, Top
<1>4. Top.pc \in 1..Len(ast.visit[Top.node])
    BY <1>1, <1>3, FrameTypes, HandlerTypes DEF IInv, Types
<1> QED
    BY <1>1, <1>2, <1>3, <1>4, FrameTypes, HandlerTypes DEF IInv, Types

LEMMA SuppressStep == IInv /\ SuppressChild => IInv' /\ callStack' # <<>>
<1> SUFFICES ASSUME IInv, SuppressChild PROVE IInv' /\ callStack' # <<>>
    OBVIOUS
<1> DEFINE g == [Top EXCEPT !.pc = @ + 1]
<1>1. InHandler /\ Current.op = "addChild" /\ Return(g)
    BY DEF SuppressChild
<1>2. g \in Frames /\ g.node = Top.node /\ FrameInv(g)
    BY <1>1, CurrentCall, SkippedFrame DEF DirectVisits
<1>3. UNCHANGED <<input, seen, stream, thrown>>
    BY DEF SuppressChild
<1> HIDE DEF g
<1> QED
    BY <1>1, <1>2, <1>3, CurrentCall, ReturnStep

LEMMA AgainStep ==
    IInv /\ (AddChildAgain \/ DirectVisitAgain) => IInv' /\ callStack' # <<>>
<1> SUFFICES ASSUME IInv, AddChildAgain \/ DirectVisitAgain PROVE IInv' /\ callStack' # <<>>
    OBVIOUS
<1> DEFINE g == Returned(Top, Current)
<1>1. InHandler /\ Return(g) /\ alreadyDumped(Current.to)
    BY DEF AddChildAgain, DirectVisitAgain
<1>2. WaitingInv(Top)
    BY <1>1, CurrentCall DEF WaitingInv, alreadyDumped, Known
<1>3. g \in Frames /\ g.node = Top.node /\ FrameInv(g)
    BY <1>1, <1>2, CurrentCall, ReturnedFrame
<1>4. UNCHANGED <<input, seen, stream, thrown>>
    BY DEF AddChildAgain, DirectVisitAgain
<1> HIDE DEF g
<1> QED
    BY <1>1, <1>3, <1>4, CurrentCall, ReturnStep

LEMMA NextIInv == IInv /\ [Next]_vars => IInv'
<1> SUFFICES ASSUME IInv, [Next]_vars PROVE IInv'
    OBVIOUS
<1>1. ASSUME NEW n \in ast.roots, VisitTop(n) PROVE IInv'
    <2>1. n \in Ids
        BY DEF IInv, Types, AST
    <2>2. ~ thrown /\ ~ Busy /\ Enter(n)
        BY <1>1 DEF VisitTop
    <2> QED
        BY <2>1, <2>2, EnterStep
<1>2. CASE UNCHANGED vars
    BY <1>2 DEF vars, IInv, Types, SerializedOnce, OnStack, StackInv, WrittenInv,
                FrameInv, WaitingInv, VisitsMade, AllKnown, Known
<1>3. CASE SuppressChild
    BY <1>3, SuppressStep
<1>4. CASE AddChild \/ DirectVisit
    <2>1. InHandler /\ Enter(Current.to)
        BY <1>4 DEF AddChild, DirectVisit
    <2> QED
        BY <2>1, CurrentCall, EnterStep
<1>5. CASE AddChildAgain \/ DirectVisitAgain
    BY <1>5, AgainStep
<1>6. CASE Finish
    <2>1. ~ thrown
        BY <1>6 DEF Finish, HandlerDone, Busy, IInv
    <2> QED
        BY <1>6, <2>1, FinishStep
<1>7. CASE HandlerThrows \/ DataThrows
    <2>1. ~ thrown
        BY <1>7 DEF HandlerThrows, DataThrows, InHandler, HandlerDone, Busy, IInv
    <2> QED
        BY <1>7, <2>1, ThrowStep
<1> QED
    BY <1>1, <1>2, <1>3, <1>4, <1>5, <1>6, <1>7 DEF Next, Step, VisitTopAgain, Stopped

(* The inductive invariant holds of every graph and every threshold.        *)
THEOREM Inductive == Spec => []IInv
<1>1. Init => IInv
    BY InitIInv
<1>2. IInv /\ [Next]_vars => IInv'
    BY NextIInv
<1> QED
    BY <1>1, <1>2, PTL DEF Spec

(* A step of the dumper writes at most the innermost node, and only when    *)
(* its handler is done.                                                     *)
LEMMA Writes ==
    ASSUME IInv, [Next]_vars
    PROVE  /\ ast' = ast /\ seen \subseteq seen'
           /\ emitted' = emitted \/ (~ thrown /\ Finish)
<1>1. CASE Finish
    BY <1>1 DEF Finish, HandlerDone, IInv, Busy, input
<1>2. CASE ~ Finish
    BY <1>2 DEF Next, vars, VisitTop, VisitTopAgain, Enter, Step, SuppressChild, AddChild,
           AddChildAgain, DirectVisit, DirectVisitAgain, HandlerThrows, DataThrows, Unwind,
           Stopped, stream, input
<1> QED
    BY <1>1, <1>2

LEMMA NextVisits == IInv /\ VisitsInv /\ [Next]_vars => VisitsInv'
<1> SUFFICES ASSUME IInv, VisitsInv, [Next]_vars PROVE VisitsInv'
    OBVIOUS
<1>1. ast' = ast /\ seen \subseteq seen'
    BY Writes
<1>2. ASSUME NEW n \in emitted'
      PROVE  VisitsMade(n, Len(ast.visit[n]))
    <2>1. CASE n \in emitted
        BY <2>1 DEF VisitsInv
    <2>2. CASE n \notin emitted
        <3>1. Finish
            BY <2>2, Writes
        <3>2. /\ Busy /\ Top.pc > Len(ast.visit[Top.node])
              /\ emitted' = emitted \cup {Top.node}
            BY <3>1 DEF Finish, HandlerDone, Handler
        <3>3. n = Top.node
            BY <2>2, <3>2
        <3>4. Top \in Frames /\ FrameInv(Top) /\ ast \in AST
            BY <3>2, TopFrame DEF IInv, StackInv, Types, Top
        <3>5. Len(ast.visit[n]) \in Nat /\ Top.pc \in Nat
            BY <3>3, <3>4, HandlerTypes, FrameTypes
        <3>6. Top.pc - 1 = Len(ast.visit[n])
            BY <3>2, <3>3, <3>4, <3>5 DEF FrameInv
        <3> QED
            BY <3>3, <3>4, <3>6 DEF FrameInv
    <2> QED
        BY <2>1, <2>2
<1>3. ASSUME NEW n \in emitted'
      PROVE  VisitsMade(n, Len(ast.visit[n]))'
    BY <1>1, <1>2 DEF VisitsMade, Known
<1> QED
    BY <1>3 DEF VisitsInv

LEMMA VisitsInductive == Spec => []VisitsInv
<1>1. Init => VisitsInv
    BY DEF Init, VisitsInv
<1>2. IInv /\ VisitsInv /\ [Next]_vars => VisitsInv'
    BY NextVisits
<1> QED
    BY <1>1, <1>2, Inductive, PTL DEF Spec

(* No node is written twice, and the seen sets hold exactly the nodes that  *)
(* are written or on the stack (dumpDecl() and its siblings).               *)
THEOREM SerializedOnceHolds == Spec => []SerializedOnce
<1>1. IInv => SerializedOnce
    BY DEF IInv
<1> QED
    BY <1>1, Inductive, PTL

(* Every id a record mentions has its own records between two calls, for    *)
(* every graph whose data dumpers mention what their direct visits reach:   *)
(* whatever the threshold suppresses, and whatever order, cycles and        *)
(* sharing the visits meet.                                                 *)
LEMMA IdleClosure ==
    ASSUME \A a \in ASTs : ReferencesVisited(a), IInv, VisitsInv, ast \in ASTs,
           callStack = <<>>, ~ thrown
    PROVE  /\ emitted = seen /\ DOMAIN visitedChildren = emitted
           /\ \A n \in emitted : Referenced(n) \subseteq emitted \cup {Null}
<1>1. emitted = seen /\ DOMAIN visitedChildren = emitted
    <2>1. OnStack = {}
        BY EmptySeq DEF OnStack
    <2> QED
        BY <2>1 DEF IInv, SerializedOnce
<1>2. emitted \in SUBSET Nodes /\ ast \in AST
    BY DEF IInv, Types
<1>3. ClosedUnderDirectVisits(ast, emitted)
    <2> SUFFICES ASSUME NEW m \in emitted \cap Nodes, NEW k \in DOMAIN ast.visit[m],
                        ast.visit[m][k].op \in DirectVisits
                 PROVE  ast.visit[m][k].to \in emitted \cup {Null}
        BY DEF ClosedUnderDirectVisits
    <2>1. k \in 1..Len(ast.visit[m])
        BY <1>2, HandlerTypes
    <2> QED
        BY <1>1, <2>1 DEF VisitsInv, VisitsMade, Known
<1>4. ASSUME NEW n \in emitted
      PROVE  Referenced(n) \subseteq emitted \cup {Null}
    <2>1. ast.data[n] \subseteq emitted \cup {Null}
        BY <1>2, <1>3 DEF ReferencesVisited
    <2>2. \A i \in DOMAIN visitedChildren[n] : visitedChildren[n][i] \in emitted \cup {Null}
        BY <1>1 DEF IInv, WrittenInv, AllKnown, Known
    <2> QED
        BY <2>1, <2>2 DEF Referenced
<1> QED
    BY <1>1, <1>4

(* The graph is one of the given ones all along.                            *)
LEMMA GraphFixed == Spec => [](ast \in ASTs)
<1>1. Init => ast \in ASTs
    BY DEF Init
<1>2. ast \in ASTs /\ [Next]_vars => (ast \in ASTs)'
    BY DEF Next, vars, VisitTop, VisitTopAgain, Enter, Step, SuppressChild, AddChild,
           AddChildAgain, DirectVisit, DirectVisitAgain, Finish, HandlerThrows, DataThrows,
           Unwind, Stopped, input
<1> QED
    BY <1>1, <1>2, PTL DEF Spec

(* "Direct visits serialize referenced dependencies and must preserve graph *)
(* closure" (ClangAstDumper.h).                                             *)
THEOREM GraphClosureHolds ==
    ASSUME \A a \in ASTs : ReferencesVisited(a)
    PROVE  Spec => []GraphClosure
<1>1. IInv /\ VisitsInv /\ ast \in ASTs => GraphClosure
    BY IdleClosure DEF GraphClosure, Busy
<1> QED
    BY <1>1, Inductive, VisitsInductive, GraphFixed, PTL

-----------------------------------------------------------------------------

LEMMA FrozenRecords ==
    ASSUME IInv, [Next]_vars
    PROVE  /\ emitted \subseteq emitted'
           /\ \A n \in DOMAIN visitedChildren :
                  n \in DOMAIN visitedChildren' /\ visitedChildren'[n] = visitedChildren[n]
           /\ thrown => UNCHANGED stream
<1>1. CASE UNCHANGED stream
    BY <1>1 DEF stream
<1>2. CASE Finish \/ DataThrows
    <2>1. Busy /\ ~ thrown /\ WriteChildren
        BY <1>2 DEF Finish, DataThrows, HandlerDone, IInv, Busy
    <2>2. Top.node \notin DOMAIN visitedChildren
        BY <2>1, TopFrame DEF IInv, SerializedOnce, OnStack, Top
    <2>3. emitted \subseteq emitted'
        BY <1>2 DEF Finish, DataThrows
    <2> QED
        BY <2>1, <2>2, <2>3, ChildrenWritten DEF IInv
<1>3. UNCHANGED stream \/ Finish \/ DataThrows
    BY DEF Next, vars, VisitTop, VisitTopAgain, Enter, Step, SuppressChild, AddChild,
           AddChildAgain, DirectVisit, DirectVisitAgain, HandlerThrows, Stopped, stream
<1> QED
    BY <1>1, <1>2, <1>3

(* A record is written once and for all, and nothing is written after an    *)
(* exception.                                                               *)
THEOREM RecordsAreFinalHolds == Spec => RecordsAreFinal
<1>1. IInv /\ [Next]_vars =>
        [/\ emitted \subseteq emitted'
         /\ \A n \in DOMAIN visitedChildren :
                n \in DOMAIN visitedChildren' /\ visitedChildren'[n] = visitedChildren[n]
         /\ thrown => UNCHANGED stream]_vars
    BY FrozenRecords
<1> QED
    BY <1>1, Inductive, PTL DEF Spec, RecordsAreFinal

-----------------------------------------------------------------------------

(* currentSystemHeaderLevel is the number of system-header nodes on the     *)
(* stack, so it never becomes negative.                                     *)
SystemFrames == {j \in 1..Len(callStack) : ast.isSystemHeader[callStack[j].node]}

LevelInv == currentSystemHeaderLevel \in Nat /\ LevelBalanced

LEMMA SystemFramesFinite ==
    ASSUME IInv
    PROVE  /\ IsFiniteSet(SystemFrames)
           /\ Cardinality(SystemFrames) \in Nat
           /\ Depth(Len(callStack)) = Cardinality(SystemFrames)
<1>1. Len(callStack) \in Nat
    BY LenProperties DEF IInv, Types
<1>2. IsFiniteSet(1..Len(callStack)) /\ SystemFrames \in SUBSET (1..Len(callStack))
    BY <1>1, FS_Interval DEF SystemFrames
<1>3. IsFiniteSet(SystemFrames)
    BY <1>2, FS_Subset
<1> QED
    BY <1>3, FS_CardinalityType DEF Depth, SystemFrames

LEMMA InitLevel == Init => LevelInv
<1> SUFFICES ASSUME Init PROVE LevelInv
    OBVIOUS
<1>1. SystemFrames = {}
    BY EmptySeq DEF Init, SystemFrames
<1>2. Depth(Len(callStack)) = 0
    BY <1>1, FS_EmptySet DEF Depth, SystemFrames
<1> QED
    BY <1>2 DEF Init, LevelInv, LevelBalanced

LEMMA EnterLevel ==
    ASSUME IInv, LevelInv, ~ thrown, NEW n \in Ids, Enter(n)
    PROVE  LevelInv'
<1> DEFINE len == Len(callStack)
           f == [node |-> n, pc |-> 1, children |-> <<>>]
<1>1. n \in Nodes /\ ast \in AST /\ ast' = ast /\ callStack' = Append(callStack, f)
    BY DEF Enter, alreadyDumped, Ids, IInv, Types, input
<1>2. /\ len \in Nat
      /\ Len(callStack') = len + 1
      /\ \A i \in 1..len : callStack'[i] = callStack[i]
      /\ callStack'[len + 1].node = n
    <2>1. f \in Frames /\ f.node = n /\ callStack \in Seq(Frames)
        BY <1>1, EmptySeq DEF Frames, IInv, Types
    <2> HIDE DEF f
    <2> QED
        BY <1>1, <2>1, AppendProperties, LenProperties
<1>3. len + 1 \notin SystemFrames
    BY <1>2 DEF SystemFrames
<1>4. \A j : j \in 1..(len + 1) <=> j \in 1..len \/ j = len + 1
    BY <1>2
<1>5. CASE ast.isSystemHeader[n]
    <2>1. SystemFrames' = SystemFrames \cup {len + 1}
        BY <1>1, <1>2, <1>4, <1>5 DEF SystemFrames
    <2>2. Cardinality(SystemFrames') = Cardinality(SystemFrames) + 1
        BY <1>3, <2>1, SystemFramesFinite, FS_AddElement
    <2>3. Depth(Len(callStack))' = Depth(Len(callStack)) + 1
        BY <2>2, SystemFramesFinite DEF Depth, SystemFrames
    <2>4. currentSystemHeaderLevel' = currentSystemHeaderLevel + 1
        BY <1>5 DEF Enter, SystemHeaderLevels
    <2> QED
        BY <2>3, <2>4 DEF LevelInv, LevelBalanced
<1>6. CASE ~ ast.isSystemHeader[n]
    <2>1. SystemFrames' = SystemFrames
        BY <1>1, <1>2, <1>4, <1>6 DEF SystemFrames
    <2>2. Depth(Len(callStack))' = Depth(Len(callStack))
        BY <2>1 DEF Depth, SystemFrames
    <2>3. currentSystemHeaderLevel' = currentSystemHeaderLevel
        BY <1>6 DEF Enter, SystemHeaderLevels, LevelInv
    <2> QED
        BY <2>2, <2>3 DEF LevelInv, LevelBalanced
<1> QED
    BY <1>5, <1>6

LEMMA FinishLevel ==
    ASSUME IInv, LevelInv, ~ thrown, Finish
    PROVE  LevelInv'
<1> DEFINE len == Len(callStack)
           n == Top.node
<1>1. /\ Busy /\ ast' = ast /\ callStack' = Pop
      /\ currentSystemHeaderLevel' = currentSystemHeaderLevel - SystemHeaderLevels(n)
    BY DEF Finish, HandlerDone, input
<1>2. len \in Nat /\ len > 0 /\ n \in Nodes /\ n = callStack[len].node /\ ast \in AST
    BY <1>1, TopFrame, FrameTypes DEF IInv, Types, Top
<1>3. /\ Len(callStack') = len - 1
      /\ \A i \in 1..(len - 1) : callStack'[i].node = callStack[i].node
    BY <1>1, PoppedStack DEF IInv
<1>4. \A j : j \in 1..len <=> j \in 1..(len - 1) \/ j = len
    BY <1>2
<1>5. len \notin 1..(len - 1)
    BY <1>2
<1>6. currentSystemHeaderLevel = Cardinality(SystemFrames)
    BY SystemFramesFinite DEF LevelInv, LevelBalanced
<1>7. SystemFrames' = SystemFrames \ {len}
    BY <1>1, <1>3, <1>4, <1>5 DEF SystemFrames
<1>8. Cardinality(SystemFrames') =
        IF len \in SystemFrames THEN Cardinality(SystemFrames) - 1 ELSE Cardinality(SystemFrames)
    BY <1>7, SystemFramesFinite, FS_RemoveElement
<1>9. len \in SystemFrames <=> ast.isSystemHeader[n]
    BY <1>2, <1>4 DEF SystemFrames
<1>10. currentSystemHeaderLevel' = Cardinality(SystemFrames')
    <2>1. Cardinality(SystemFrames) \in Nat
        BY SystemFramesFinite
    <2> QED
        BY <1>1, <1>6, <1>8, <1>9, <2>1 DEF SystemHeaderLevels
<1>11. /\ Cardinality(SystemFrames') \in Nat
       /\ Depth(Len(callStack))' = Cardinality(SystemFrames')
    <2>1. IsFiniteSet(SystemFrames')
        BY <1>7, SystemFramesFinite, FS_RemoveElement
    <2> QED
        BY <2>1, FS_CardinalityType DEF Depth, SystemFrames
<1> QED
    BY <1>10, <1>11 DEF LevelInv, LevelBalanced

LEMMA NextLevel == IInv /\ LevelInv /\ [Next]_vars => LevelInv'
<1> SUFFICES ASSUME IInv, LevelInv, [Next]_vars PROVE LevelInv'
    OBVIOUS
<1>1. ASSUME NEW n \in ast.roots, VisitTop(n) PROVE LevelInv'
    <2>1. n \in Ids /\ ~ thrown /\ Enter(n)
        BY <1>1 DEF IInv, Types, AST, VisitTop
    <2> QED
        BY <2>1, EnterLevel
<1>2. CASE UNCHANGED vars
    BY <1>2 DEF vars, LevelInv, LevelBalanced, Depth
<1>3. CASE AddChild \/ DirectVisit
    <2>1. InHandler /\ Enter(Current.to)
        BY <1>3 DEF AddChild, DirectVisit
    <2> QED
        BY <2>1, CurrentCall, EnterLevel
<1>4. CASE Finish
    <2>1. ~ thrown
        BY <1>4 DEF Finish, HandlerDone, Busy, IInv
    <2> QED
        BY <1>4, <2>1, FinishLevel
<1>5. CASE HandlerThrows \/ DataThrows
    BY <1>5 DEF HandlerThrows, DataThrows, Unwind, LevelInv, LevelBalanced
<1>6. ASSUME NEW g \in Frames, Busy, g.node = Top.node, Return(g), UNCHANGED input,
             UNCHANGED <<currentSystemHeaderLevel, thrown>>
      PROVE  LevelInv'
    <2>1. /\ Len(callStack) \in Nat /\ Len(callStack) > 0 /\ callStack \in Seq(Frames)
          /\ Top = callStack[Len(callStack)]
        BY <1>6, TopFrame DEF IInv, Types, Top
    <2>2. /\ Len(callStack') = Len(callStack)
          /\ \A i \in 1..Len(callStack) :
                callStack'[i] = IF i = Len(callStack) THEN g ELSE callStack[i]
        <3>1. Len(callStack) \in 1..Len(callStack)
            BY <2>1
        <3> QED
            BY <1>6, <2>1, <3>1, ExceptSeq DEF Return
    <2>3. \A i \in 1..Len(callStack) : callStack'[i].node = callStack[i].node
        BY <1>6, <2>1, <2>2
    <2>4. SystemFrames' = SystemFrames
        BY <1>6, <2>2, <2>3 DEF SystemFrames, input
    <2>5. Depth(Len(callStack))' = Depth(Len(callStack))
        BY <2>4 DEF Depth, SystemFrames
    <2> QED
        BY <1>6, <2>5 DEF LevelInv, LevelBalanced
<1>7. CASE SuppressChild
    <2> DEFINE g == [Top EXCEPT !.pc = @ + 1]
    <2>1. InHandler /\ Current.op = "addChild" /\ Return(g)
        BY <1>7 DEF SuppressChild
    <2>2. g \in Frames /\ g.node = Top.node
        BY <2>1, CurrentCall, SkippedFrame DEF DirectVisits
    <2>3. Busy /\ UNCHANGED input /\ UNCHANGED <<currentSystemHeaderLevel, thrown>>
        BY <1>7 DEF SuppressChild, InHandler
    <2> HIDE DEF g
    <2> QED
        BY <1>6, <2>1, <2>2, <2>3
<1>8. CASE AddChildAgain \/ DirectVisitAgain
    <2> DEFINE g == Returned(Top, Current)
    <2>1. InHandler /\ Return(g) /\ alreadyDumped(Current.to)
        BY <1>8 DEF AddChildAgain, DirectVisitAgain
    <2>2. WaitingInv(Top)
        BY <2>1, CurrentCall DEF WaitingInv, alreadyDumped, Known
    <2>3. g \in Frames /\ g.node = Top.node
        BY <2>1, <2>2, CurrentCall, ReturnedFrame
    <2>4. Busy /\ UNCHANGED input /\ UNCHANGED <<currentSystemHeaderLevel, thrown>>
        BY <1>8 DEF AddChildAgain, DirectVisitAgain, InHandler
    <2> HIDE DEF g
    <2> QED
        BY <1>6, <2>1, <2>3, <2>4
<1> QED
    BY <1>1, <1>2, <1>3, <1>4, <1>5, <1>7, <1>8 DEF Next, Step, VisitTopAgain, Stopped

LEMMA LevelInductive == Spec => []LevelInv
<1>1. Init => LevelInv
    BY InitLevel
<1>2. IInv /\ LevelInv /\ [Next]_vars => LevelInv'
    BY NextLevel
<1> QED
    BY <1>1, <1>2, Inductive, PTL DEF Spec

(* The level is raised and lowered in balance through every nesting of      *)
(* visits (VisitDecl, VisitStmt and VisitExpr).                             *)
THEOREM LevelBalancedHolds == Spec => []LevelBalanced
<1>1. LevelInv => LevelBalanced
    BY DEF LevelInv
<1> QED
    BY <1>1, LevelInductive, PTL

(* Type correctness; that the level is a natural number rests on its being  *)
(* balanced.                                                                *)
THEOREM TypeCorrect == Spec => []TypeOK
<1>1. IInv /\ LevelInv => TypeOK
    BY DEF IInv, Types, LevelInv, TypeOK
<1> QED
    BY <1>1, Inductive, LevelInductive, PTL

-----------------------------------------------------------------------------

(* The refinement of NodeStream, step by step.                              *)
Records == [n \in emitted |-> Referenced(n)]

LEMMA InitStream == Init => Promise!StreamInit
<1> SUFFICES ASSUME Init PROVE Promise!StreamInit
    OBVIOUS
<1>1. Records = <<>>
    BY DEF Init, Records
<1> QED
    BY <1>1 DEF Init, Promise!StreamInit, Busy, Records

LEMMA EnterStream ==
    ASSUME IInv, ~ thrown, NEW n \in Ids, Enter(n)
    PROVE  Promise!Announce(n) /\ n \in Nodes
<1>1. n \in Nodes /\ n \notin seen /\ seen' = seen \cup {n} /\ thrown' = thrown
    BY DEF Enter, alreadyDumped, Ids
<1>2. Records' = Records
    BY DEF Enter, input, stream, Records, Referenced
<1>3. Busy'
    <2> DEFINE f == [node |-> n, pc |-> 1, children |-> <<>>]
    <2>1. callStack \in Seq(Frames) /\ callStack' = Append(callStack, f) /\ f \in Frames
        BY <1>1, EmptySeq DEF Enter, IInv, Types, Frames
    <2> HIDE DEF f
    <2> QED
        BY <2>1, AppendProperties DEF Busy
<1> QED
    BY <1>1, <1>2, <1>3 DEF Promise!Announce, Records

LEMMA FinishStream ==
    ASSUME \A a \in ASTs : ReferencesVisited(a), IInv, IInv', VisitsInv',
           (ast \in ASTs)', ~ thrown, Finish
    PROVE  \E n \in Nodes : \E ids \in SUBSET (Nodes \cup {Null}) : Promise!Write(n, ids)
<1> PICK n \in Nodes : n = Top.node
    BY TopFrame, FrameTypes DEF Finish, HandlerDone, IInv
<1> DEFINE ids == Referenced(n)'
<1>1. /\ Busy /\ WriteChildren /\ emitted' = emitted \cup {n} /\ ast' = ast
      /\ seen' = seen /\ thrown' = thrown
    BY DEF Finish, HandlerDone, input
<1>2. n \in Nodes /\ n \in OnStack
    BY <1>1, TopFrame DEF IInv, OnStack, Top
<1>3. n \in seen \ emitted
    BY <1>2 DEF IInv, SerializedOnce
<1>4. ids \in SUBSET (Nodes \cup {Null})
    <2>1. ast.data[n] \subseteq Nodes \cup {Null}
        BY <1>2 DEF IInv, Types, AST, Ids
    <2>2. \A i \in DOMAIN visitedChildren'[n] : visitedChildren'[n][i] \in Known'
        BY <1>1 DEF IInv, WrittenInv, AllKnown
    <2>3. Known' \subseteq Nodes \cup {Null}
        BY DEF IInv, Types, Known
    <2> QED
        BY <1>1, <2>1, <2>2, <2>3 DEF Referenced
<1>5. Records' = [m \in emitted \cup {n} |-> IF m = n THEN ids ELSE Records[m]]
    <2>1. ASSUME NEW m \in emitted, m # n
          PROVE  Referenced(m)' = Referenced(m)
        <3>1. visitedChildren'[m] = visitedChildren[m]
            BY <1>1, <2>1, ChildrenWritten DEF IInv
        <3> QED
            BY <1>1, <3>1 DEF Referenced
    <2> QED
        BY <1>1, <1>3, <2>1 DEF Records
<1>6. ~ Busy' => /\ emitted' = seen'
                 /\ \A m \in seen' : Referenced(m)' \subseteq seen' \cup {Null}
    <2> SUFFICES ASSUME ~ Busy'
                 PROVE  /\ emitted' = seen'
                        /\ \A m \in seen' : Referenced(m)' \subseteq seen' \cup {Null}
        OBVIOUS
    <2>1. OnStack' = {}
        BY EmptySeq DEF OnStack, Busy
    <2>2. emitted' = seen' /\ DOMAIN visitedChildren' = emitted'
        BY <1>1, <2>1 DEF IInv, SerializedOnce
    <2>3. ClosedUnderDirectVisits(ast', emitted')
        <3> SUFFICES ASSUME NEW m \in emitted' \cap Nodes, NEW k \in DOMAIN ast.visit[m],
                            ast.visit[m][k].op \in DirectVisits
                     PROVE  ast.visit[m][k].to \in emitted' \cup {Null}
            BY <1>1 DEF ClosedUnderDirectVisits
        <3>1. k \in 1..Len(ast.visit[m])
            BY HandlerTypes DEF IInv, Types
        <3> QED
            BY <1>1, <2>2, <3>1 DEF VisitsInv, VisitsMade, Known
    <2>4. emitted' \in SUBSET Nodes
        BY DEF IInv, Types
    <2>5. ASSUME NEW m \in emitted'
          PROVE  Referenced(m)' \subseteq emitted' \cup {Null}
        <3>1. (ast').data[m] \subseteq emitted' \cup {Null}
            BY <2>3, <2>4 DEF ReferencesVisited
        <3>2. \A i \in DOMAIN visitedChildren'[m] : visitedChildren'[m][i] \in emitted' \cup {Null}
            BY <2>2 DEF IInv, WrittenInv, AllKnown, Known
        <3> QED
            BY <3>1, <3>2 DEF Referenced
    <2> QED
        BY <2>2, <2>5
<1>7. Promise!Write(n, ids)
    <2>1. DOMAIN Records = emitted /\ DOMAIN Records' = emitted'
        BY DEF Records
    <2>2. \A m \in emitted' : Records'[m] = Referenced(m)'
        BY DEF Records
    <2>3. ~ Busy' => Promise!Closed(Records', seen)
        BY <1>1, <1>6, <2>1, <2>2 DEF Promise!Closed
    <2> HIDE DEF ids
    <2> QED
        BY <1>1, <1>3, <1>5, <2>1, <2>3 DEF Promise!Write, Promise!Written, Records, Busy
<1> QED
    BY <1>2, <1>4, <1>7

LEMMA ThrowStream ==
    ASSUME IInv, ~ thrown, HandlerThrows \/ DataThrows
    PROVE  Promise!Fail
<1>1. /\ Busy /\ thrown' = TRUE /\ callStack' = <<>> /\ emitted' = emitted /\ seen' = seen
      /\ ast' = ast
    BY DEF HandlerThrows, DataThrows, Unwind, InHandler, HandlerDone, input, stream
<1>2. \A m \in emitted : visitedChildren'[m] = visitedChildren[m]
    <2>1. CASE HandlerThrows
        BY <2>1 DEF HandlerThrows, stream
    <2>2. CASE DataThrows
        <3>1. Top.node \notin DOMAIN visitedChildren
            BY <1>1, TopFrame DEF IInv, SerializedOnce, OnStack, Top
        <3> QED
            BY <1>1, <2>2, <3>1, ChildrenWritten DEF DataThrows, IInv
    <2> QED
        BY <2>1, <2>2
<1>3. Records' = Records
    BY <1>1, <1>2 DEF Records, Referenced
<1> QED
    BY <1>1, <1>3 DEF Promise!Fail, Records, Busy

(* Every step of the dumper is a step of NodeStream or none at all.         *)
LEMMA StepStream ==
    ASSUME \A a \in ASTs : ReferencesVisited(a), IInv, IInv', VisitsInv',
           (ast \in ASTs)', [Next]_vars
    PROVE  [Promise!StreamNext]_Promise!streamVars
<1> DEFINE Stutter == UNCHANGED <<seen, Records, Busy, thrown>>
<1>0. ASSUME Stutter PROVE UNCHANGED Promise!streamVars
    BY <1>0 DEF Promise!streamVars, Records
<1>1. ASSUME NEW n \in ast.roots, VisitTop(n) PROVE Promise!StreamNext
    <2>1. n \in Ids /\ ~ thrown /\ Enter(n)
        BY <1>1 DEF IInv, Types, AST, VisitTop
    <2> QED
        BY <2>1, EnterStream DEF Promise!StreamNext
<1>2. CASE UNCHANGED vars
    BY <1>0, <1>2 DEF vars, Records, Referenced, Busy
<1>3. CASE AddChild \/ DirectVisit
    <2>1. InHandler /\ Enter(Current.to)
        BY <1>3 DEF AddChild, DirectVisit
    <2>2. PICK n \in Ids : n = Current.to
        BY <2>1, CurrentCall
    <2>3. Enter(n) /\ ~ thrown
        BY <2>1, <2>2, CurrentCall
    <2> QED
        BY <2>3, EnterStream DEF Promise!StreamNext
<1>4. CASE SuppressChild \/ AddChildAgain \/ DirectVisitAgain
    <2>1. callStack' # <<>> /\ callStack # <<>>
        BY <1>4, SuppressStep, AgainStep
           DEF SuppressChild, AddChildAgain, DirectVisitAgain, InHandler, Busy
    <2>2. UNCHANGED <<input, seen, stream, thrown>>
        BY <1>4 DEF SuppressChild, AddChildAgain, DirectVisitAgain
    <2> QED
        BY <1>0, <2>1, <2>2 DEF Records, Referenced, Busy, input, stream
<1>5. CASE Finish
    <2>1. ~ thrown
        BY <1>5 DEF Finish, HandlerDone, Busy, IInv
    <2> QED
        BY <1>5, <2>1, FinishStream DEF Promise!StreamNext
<1>6. CASE HandlerThrows \/ DataThrows
    <2>1. ~ thrown
        BY <1>6 DEF HandlerThrows, DataThrows, InHandler, HandlerDone, Busy, IInv
    <2> QED
        BY <1>6, <2>1, ThrowStream DEF Promise!StreamNext
<1> QED
    BY <1>1, <1>2, <1>3, <1>4, <1>5, <1>6 DEF Next, Step, VisitTopAgain, Stopped

(* The dumper implements NodeStream: every id it mentions gets exactly one  *)
(* final record before the call that mentioned it returns.                  *)
THEOREM NodeStreamImplemented ==
    ASSUME \A a \in ASTs : ReferencesVisited(a)
    PROVE  Spec => ImplementsNodeStream
<1>1. IInv /\ IInv' /\ VisitsInv' /\ (ast \in ASTs)' /\ [Next]_vars
        => [Promise!StreamNext]_Promise!streamVars
    BY StepStream
<1>2. Init => Promise!StreamInit
    BY InitStream
<1> QED
    BY <1>1, <1>2, Inductive, VisitsInductive, GraphFixed, PTL DEF Spec, ImplementsNodeStream, Promise!StreamSpec

=============================================================================
