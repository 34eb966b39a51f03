-------------------------- MODULE MCClangAstDumper --------------------------
(***************************************************************************)
(* Small instances of ClangAstDumper: graphs of three nodes whose handlers *)
(* make at most one direct visit followed by at most one addChild(), with  *)
(* every cycle and sharing this allows, and chains of four nodes in which  *)
(* a handler or a data dumper may throw.                                   *)
(***************************************************************************)
EXTENDS ClangAstDumper, TLC

CONSTANTS n1, n2, n3, n4

MCNodes == {n1, n2, n3, n4}
Inner == {n1, n2, n3}

Direct(n) == [op |-> "visitTop", to |-> n]
Child(n) == [op |-> "addChild", to |-> n]
Required(n) == [op |-> "requiredChild", to |-> n]
Throw == [op |-> "throw", to |-> Null]

Optional(S) == {<<>>} \cup {<<x>> : x \in S}

SmallHandlers ==
    {d \o c : d \in Optional({Direct(n) : n \in Inner}),
              c \in Optional({Child(n) : n \in Inner})}

DirectStep(visit, S) ==
    S \cup {visit[p[1]][p[2]].to : p \in {q \in S \X (1..3) :
                /\ q[2] \in DOMAIN visit[q[1]]
                /\ visit[q[1]][q[2]].op \in DirectVisits
                /\ visit[q[1]][q[2]].to # Null}}

(* The most a data record may mention under ReferencesVisited.             *)
DirectReach(visit, n) ==
    DirectStep(visit, DirectStep(visit, DirectStep(visit, {n})))

MakeAST(visit, system, throws, roots) ==
    [visit |-> visit,
     data |-> [n \in MCNodes |-> DirectReach(visit, n)],
     isSystemHeader |-> [n \in MCNodes |-> n \in system],
     dataThrows |-> throws,
     roots |-> roots]

GraphASTs ==
    {MakeAST((n1 :> h1) @@ (n2 :> h2) @@ (n3 :> h3) @@ (n4 :> <<>>), s, {}, {n1, n3}) :
        h1 \in {<<Direct(a), Child(b)>> : a, b \in {n2, n3}},
        h2 \in SmallHandlers, h3 \in SmallHandlers,
        s \in {{}, {n2}, {n1, n2}, Inner}}

(* n1 -> n2 -> n3 -> n4, each node also listing the null child its handler  *)
(* may meet and coming back to its caller.                                  *)
Edges(n) == {Direct(n), Child(n), Required(n)}

ChainHandlers(n, back) ==
    {<<e, Child(Null), Child(back)>> : e \in Edges(n)} \cup {<<Child(back), Throw, Direct(n)>>}

ChainASTs ==
    {MakeAST((n1 :> h1) @@ (n2 :> h2) @@ (n3 :> h3) @@ (n4 :> <<Child(n1)>>), s, t, {n1, Null}) :
        h1 \in ChainHandlers(n2, n1), h2 \in ChainHandlers(n3, n1),
        h3 \in ChainHandlers(n4, n2), s \in SUBSET MCNodes,
        t \in {{}, {n1}, {n3}}}

MCASTs == GraphASTs \cup ChainASTs

MCThresholds == {0, 1, 2}

(* What the data dumpers write here meets the premise of graph closure.     *)
ASSUME MCReferences == \A a \in ASTs : ReferencesVisited(a)

=============================================================================
