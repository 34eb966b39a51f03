----------------------------- MODULE ClassGraphs -----------------------------
(***************************************************************************)
(* The traversal over nodes that run the class handlers.  A graph comes    *)
(* with a description of each node (see Handlers), its kind and its class  *)
(* included; the handlers of that class say which calls the traversal      *)
(* makes and which ids it writes.                                          *)
(***************************************************************************)
EXTENDS ClangAstDumper, DeclHandlers, StmtHandlers, TypeHandlers

(* What a data dumper leaves behind when it throws is no id.                *)
ASSUME NotAnIdAssumption == notDumped \cap Ids = {}

(* visitChildren() and dumpData() of each kind of node.                     *)
visitChildren(d) ==
    CASE d.kind = "Decl" -> visitDeclChildren(d.class, d)
      [] d.kind = "Stmt" -> visitStmtChildren(d.class, d)
      [] d.kind = "Expr" -> visitExprChildren(d.class, d)
      [] d.kind = "Type" -> visitTypeChildren(d.class, d)
      [] d.kind = "QualType" -> visitQualTypeChildren(d)
      [] d.kind = "Attr" -> visitAttrChildren(d.class, d)

dumpData(d) ==
    CASE d.kind = "Decl" -> dumpDeclData(d.class, d)
      [] d.kind = "Stmt" -> dumpStmtData(d.class, d)
      [] d.kind = "Expr" -> dumpExprData(d.class, d)
      [] d.kind = "Type" -> dumpTypeData(d.class, d)
      [] d.kind = "QualType" -> dumpQualTypeData(d)
      [] d.kind = "Attr" -> dumpAttrData(d.class, d)

Kinds == {"Decl", "Stmt", "Expr", "Type", "QualType", "Attr"}

(* The node n of the graph runs the handlers of its class.                  *)
RunsHandlers(a, n, d) ==
    /\ a.visit[n] = visitChildren(d)
    /\ a.data[n] = dumpData(d) \ notDumped
    /\ n \in a.dataThrows <=> notDumped \subseteq dumpData(d)

-----------------------------------------------------------------------------

(* Descriptions: every list is a finite sequence.                           *)
IsList(s) == Len(s) \in Nat /\ DOMAIN s = 1..Len(s)

IsPlainArgument(arg) == arg.kind \in NameArguments => IsList(arg.name.substitutedFor)

IsTemplateArgument(arg) ==
    IF arg.kind = "Pack"
    THEN IsList(arg.elements) /\ \A i \in DOMAIN arg.elements : IsPlainArgument(arg.elements[i])
    ELSE IsPlainArgument(arg)

IsDescription(d) ==
    /\ d.kind \in Kinds
    /\ \A f \in ListGetters : IsList(d.each[f])
    /\ IsList(d.args)
    /\ \A i \in DOMAIN d.args : IsTemplateArgument(d.args[i])
    /\ IsList(d.parts)

(* Classes whose data dumper writes an id that their children handler does  *)
(* not visit.                                                               *)
CastsWithoutVisitor == {"CXXDynamicCastExpr", "CXXAddrspaceCastExpr"}
DeclsWithoutVisitor == {"MSPropertyDecl", "UnresolvedUsingTypenameDecl"}
AsmStmts == {"GCCAsmStmt", "MSAsmStmt"}

(* Clang attaches no attribute to these declarations, and their handlers    *)
(* visit none.                                                              *)
DeclsWithoutAttr == {"LinkageSpecDecl", "StaticAssertDecl"}

(* Outside of the gaps that have a run of their own: classes without        *)
(* visitor, qualified offsetof types, and packs, which only the handler of  *)
(* TemplateSpecializationType expands.                                      *)
Supported(d) ==
    /\ d.kind = "Decl" => /\ d.class \notin DeclsWithoutVisitor
                          /\ d.class \in DeclsWithoutAttr => d.each["attr"] = <<>>
    /\ d.kind = "Stmt" => d.class \notin AsmStmts
    /\ d.kind = "Expr" => /\ d.class \notin CastsWithoutVisitor
                          /\ d.class = "OffsetOfExpr" => "qualified" \notin d.is
    /\ \/ d.kind = "Type" /\ d.class = "TemplateSpecializationType"
       \/ \A i \in DOMAIN d.args : d.args[i].kind # "Pack"

(* The type of a null pointer argument carries no qualifiers: those of a    *)
(* template parameter are ignored.                                          *)
UnqualifiedNullPtr(arg) == arg.kind = "NullPtr" => arg.typePtr = arg.node

UnqualifiedNullPtrs(arg) ==
    IF arg.kind = "Pack"
    THEN \A i \in DOMAIN arg.elements : UnqualifiedNullPtr(arg.elements[i])
    ELSE UnqualifiedNullPtr(arg)

(* What the handlers rely on of the nodes that Clang makes, and do not      *)
(* check, or only when the record is half written: the language of a        *)
(* linkage specification and the kind of a designator are among those they  *)
(* know, and a qualified name ends in the name.                             *)
MadeByClang(d) ==
    /\ "otherQualifiedName" \notin d.is
    /\ d.class = "LinkageSpecDecl" => d.is \cap LinkageLanguages # {}
    /\ d.class = "DesignatedInitExpr" =>
            \A i \in DOMAIN d.parts : d.parts[i].is \cap DesignatorKinds # {}
    /\ \A i \in DOMAIN d.args : UnqualifiedNullPtrs(d.args[i])

(* Every set of nodes that contains the first and is closed under direct    *)
(* visits contains the second.                                              *)
Reaches(a, from, to) ==
    /\ from \in Nodes
    /\ to \in Ids
    /\ \A S \in SUBSET Nodes :
            from \in S /\ ClosedUnderDirectVisits(a, S) => to \in S \cup {Null}

(* A qualified type is desugared as its unqualified type is.                *)
DesugaredAlike(describe, n) ==
    describe[n].kind = "QualType" =>
        LET type == describe[n].one["typePtr"]
            desugared == describe[n].one["singleStepDesugar"]
        IN  /\ type \in Nodes
            /\ describe[type].kind = "Type"
            /\ describe[type].one["singleStepDesugar"] = desugared
            /\ desugared \in Ids

(* The type that a reference to a reference is written with leads, through  *)
(* its sugar and the inner reference, to the type finally referred to.      *)
InnerReferenceReached(a, d) ==
    d.kind = "Type" /\ "innerReference" \in d.is =>
        Reaches(a, d.one["pointeeTypeAsWritten"], d.one["pointeeType"])

(* The graphs of a translation unit, as far as the handlers tell them.      *)
IsClassGraph(a, describe) ==
    \A n \in Nodes :
        /\ IsDescription(describe[n])
        /\ Supported(describe[n])
        /\ MadeByClang(describe[n])
        /\ RunsHandlers(a, n, describe[n])
        /\ DesugaredAlike(describe, n)
        /\ InnerReferenceReached(a, describe[n])

-----------------------------------------------------------------------------

(* A children handler and the data dumper of its class refuse the same      *)
(* kinds of template arguments, template names, constructor initializers,   *)
(* specifiers and offsetof components: the exception comes before anything  *)
(* is written, and never cuts a data record short after its header.  The    *)
(* data dumpers refuse three things more that no children handler looks at, *)
(* and would cut the record: see MadeByClang.                               *)
NoTruncatedRecord == thrown => DOMAIN visitedChildren = emitted

=============================================================================
