-------------------------- MODULE MCMyASTConsumer --------------------------
(***************************************************************************)
(* Small translation units for MyASTConsumer: a user function fun with a   *)
(* statement s in its body, a user enum e with its integer type t, and a   *)
(* system-header declaration v, referring to each other.  In the first     *)
(* group the body of fun may not be there yet, or e may not be complete.   *)
(***************************************************************************)
EXTENDS MyASTConsumer, Functions, TLC

CONSTANTS fun, s, e, v, t

MCNodes == {fun, s, e, v, t}

Direct(n) == [op |-> "visitTop", to |-> n]
Child(n) == [op |-> "addChild", to |-> n]
Throw == [op |-> "throw", to |-> Null]

DirectTargets(h) == {h[i].to : i \in {j \in DOMAIN h : h[j].op = "visitTop"}}

Locations ==
    {[n \in MCNodes |-> CASE n \in {fun, e} -> "user"
                          [] n = v -> "system"
                          [] n = t -> "invalid"
                          [] n = s -> l] : l \in {"user", "system", "invalid"}}

Handlers ==
    {(fun :> <<Child(s), Direct(t)>>) @@ (s :> hs) @@ (e :> he) @@ (v :> hv) @@ (t :> ht) :
        hs \in {<<Direct(v), Child(Null)>>, <<Child(v), Direct(e)>>},
        he \in {<<Child(v)>>, <<Direct(v), Child(fun)>>},
        hv \in {<<>>, <<Child(e), Child(t)>>, <<Direct(t), Child(fun)>>, <<Direct(e), Throw>>},
        ht \in {<<>>, <<Direct(e)>>}}

Graph(h, location, throws) ==
    [visit |-> h,
     data |-> [n \in MCNodes |-> DirectTargets(h[n])],
     isSystemHeader |-> [n \in MCNodes |-> location[n] = "system"],
     dataThrows |-> throws,
     roots |-> {}]

Throwers == {{}, {t}, {e}}

(* What the first group may lack of the handlers of the last one.           *)
Early(h) == {h, [h EXCEPT ![fun] = <<Direct(t)>>], [h EXCEPT ![e] = <<>>]}

Graphs ==
    UNION {{Graph(h1, l, x) : h1 \in Early(h), l \in Locations, x \in Throwers} : h \in Handlers}

(* What RecursiveASTVisitor meets in fun, e and v, for the body of fun and  *)
(* the integer type of e that the graph has; that type is null while e is   *)
(* only declared.                                                           *)
Traversal_(h) ==
    LET m(n, p) == [at |-> n, visit |-> p]
    IN  [n \in MCNodes |->
            CASE n = fun -> IF Child(s) \in Range(h[fun]) THEN <<m(fun, fun), m(s, s)>>
                            ELSE <<m(fun, fun)>>
              [] n = e -> <<m(e, e), m(e, IF h[e] = <<>> THEN Null ELSE t)>>
              [] n = v -> <<m(v, v)>>
              [] OTHER -> <<>>]

MCDecls ==
    {<<<<fun>>, <<e>>>>, <<<<e>>, <<fun>>>>, <<<<v>>, <<e, Null, fun>>>>, <<<<Null>>, <<fun, v>>>>}

MCUnits ==
    UNION {{[groups |-> <<[decls |-> d[1], ast |-> Graph(h1, l, x), traversal |-> Traversal_(h1)],
                          [decls |-> d[2], ast |-> Graph(h, l, x), traversal |-> Traversal_(h)]>>,
             location |-> l,
             implicit |-> {}] : h1 \in Early(h), l \in Locations, x \in Throwers, d \in MCDecls} :
        h \in Handlers}

MCThresholds == {0, 1}

ASSUME UnitsAreVisited ==
    \A u \in Units : VisitorMeetsDecls(u) /\ ReferencesVisitedThroughout(u)

=============================================================================
