----------------------------- MODULE MCHandlers -----------------------------
(***************************************************************************)
(* The class handlers put through the traversal: for every class with an   *)
(* entry in a dispatch table, and one of each family without, a graph with *)
(* a node "ego" of that class, in user code or in a system header past the *)
(* threshold, and one node for each pointer its handlers may follow, named *)
(* after the getter that returns it.                                       *)
(***************************************************************************)
EXTENDS ClassGraphs

(* Pointers that may be null and lists that may be empty.                   *)
Nullable ==
    {"attr", "bitWidth", "inClassInitializer", "previousDecl", "primaryTemplatedDecl",
     "parameter", "overriddenMethod", "explicitSpecifierExpr", "baseType", "decl",
     "integerType", "templateParameter", "templatedDecl", "initExpr", "friendDecl",
     "friendType", "message", "expansionType", "subStmt", "conditionVariable", "cond",
     "else", "init", "inc", "exceptionDecl", "handler", "rhs", "arrayFiller",
     "syntacticForm", "semanticForm", "extendingDecl", "overload", "directCallee",
     "methodDecl", "sourceExpr", "initializer", "arraySize", "operatorNew",
     "singleStepDesugar", "paramType", "exceptionType", "noexceptExpr", "sourceDecl",
     "sourceTemplate", "sizeExpr", "templateDecl", "deducedType", "underlyingType"}

Pointers ==
    (Nullable \ ListGetters) \cup
    {"adjustedType", "aliasedNamespace", "aliasedType", "alignmentExpr", "alignmentType",
     "anyMember", "argument", "argumentType", "assertExpr", "attributedSubStmt", "baseClass",
     "baseExpr", "baseType", "beginStmt", "body", "canonicalDecl", "capturedStmt", "caseSubStmt",
     "componentBaseType", "constructor", "conversionType", "decayedType", "defaultArgument",
     "definition", "desugaredQualType", "destroyedType", "elementType", "endStmt",
     "equivalentType", "exprOperand", "foundDecl", "functionObjectParameterType",
     "handlerBlock", "indexExpr", "label", "labelSubStmt", "lambdaClass", "lhs", "loopVarStmt",
     "memberDecl", "modifiedType", "namedType", "nominatedNamespace",
     "nominatedNamespaceAsWritten", "offsetType", "offsetTypePtr", "originalType", "pack",
     "parent", "pattern", "pointeeType", "pointeeTypeAsWritten", "propertyDecl",
     "qualifierDecl", "qualifierType", "rangeStmt", "referencedDecl", "replacedParameter",
     "replacementType", "returnType", "specializedTemplate", "then", "thisType", "tryBlock",
     "type", "typeAsWritten", "typeDecl", "typeForDecl", "typeOperand", "typePtr",
     "typeSourceInfoType", "underlyingExpr"}

(* The further nodes that template arguments refer to.                      *)
ArgumentNodes == {"packedType", "packedDecl", "template", "templateParm", "outerParm", "usingShadow"}

MCNodes ==
    Pointers \cup ListGetters \cup ArgumentNodes
        \cup {"ego", "inner", "innerReference", "last", "outer"}

-----------------------------------------------------------------------------

TemplateNames ==
    {[substitutedFor |-> <<>>, kind |-> "Template", node |-> "template"],
     [substitutedFor |-> <<>>, kind |-> "DependentTemplate"],
     [substitutedFor |-> <<"templateParm">>, kind |-> "OverloadedTemplate"],
     [substitutedFor |-> <<"outerParm", "templateParm">>, kind |-> "UsingTemplate",
      node |-> "usingShadow"]}

FlatArguments ==
    {[kind |-> k, node |-> "argument"] : k \in {"Type", "Expression", "StructuralValue"}}
        \cup {[kind |-> k, name |-> n] : k \in NameArguments, n \in TemplateNames}
        \cup {[kind |-> "NullPtr", node |-> "argument", typePtr |-> "argument"]}
        \cup {[kind |-> "Integral"], [kind |-> "Null"]}

Pack ==
    [kind |-> "Pack",
     elements |-> <<[kind |-> "Type", node |-> "packedType"],
                    [kind |-> "Declaration", node |-> "packedDecl"]>>]

Flat == {<<>>, <<[kind |-> "Type", node |-> "argument"], [kind |-> "Integral"]>>}
            \cup {<<arg>> : arg \in FlatArguments}

Arguments(class) ==
    CASE class \in {"FunctionDecl", "ClassTemplateSpecializationDecl", "TemplateTemplateParmDecl",
                    "DeclRefExpr", "SizeOfPackExpr"} -> Flat
      [] class = "TemplateSpecializationType" -> Flat \cup {<<Pack>>, <<[kind |-> "Integral"], Pack>>}
      [] OTHER -> {<<>>}

Yes == {"hasTemplateSpecializationArgs", "doesThisDeclarationHaveABody", "isInstance",
        "hasDefinition", "hasInit", "hasDefaultArgument", "isExpandedParameterPack",
        "hasExplicitTemplateArgs", "isPartiallySubstituted", "isTypeOperand",
        "isArgumentType", "isTypeAlias", "isAlignmentExpr"}

(* The questions answered yes by nodes of a class.                          *)
Answers(class) ==
    CASE class = "UsingDecl" -> {{k} : k \in SpecifierKinds} \cup {{}}
      [] class = "FunctionProtoType" ->
            {{k} : k \in {"EST_None", "EST_DependentNoexcept", "EST_Unevaluated", "EST_Uninstantiated"}}
      [] class = "LinkageSpecDecl" -> {{k} : k \in LinkageLanguages}
      [] class \in {"LValueReferenceType", "RValueReferenceType"} -> {{}, {"innerReference"}}
      [] OTHER -> {{}, Yes}

Part(is) == [is |-> is, one |-> [f \in Pointers |-> f]]

(* Parts of every known kind, and one of an unknown kind after a known one. *)
PartsOf(kinds) ==
    {<<>>} \cup {<<Part({k})>> : k \in kinds} \cup {<<Part({k}), Part({})>> : k \in kinds}

Parts(class) ==
    CASE class = "CXXConstructorDecl" -> PartsOf(CtorInitializers)
      [] class = "OffsetOfExpr" -> PartsOf(OffsetOfKinds)
      [] class = "DesignatedInitExpr" ->
            {<<>>} \cup {<<Part({"Field"}), Part({"Field", "named"}), Part({k})>> : k \in DesignatorKinds}
      [] OTHER -> {<<>>}

Implicit(class) ==
    IF class \in {"EnumDecl", "RecordDecl", "CXXRecordDecl", "NamespaceDecl", "LinkageSpecDecl"}
    THEN {{}, {"decl"}}
    ELSE {{}}

(* Null among other sub-statements stands for an absent one.                *)
Elements(f) == IF f = "subStmt" THEN <<"subStmt", Null, "last">> ELSE <<f, "last">>

Absent(class) ==
    IF class = "QualType"
    THEN {{}}
    ELSE {absent \cup (IF class \in DeclsWithoutAttr THEN {"attr"} ELSE {}) :
            absent \in {{}, Nullable} \cup {{f} : f \in Nullable}}

Node(kind, class, is, absent, implicit, args, parts) ==
    [kind |-> kind, class |-> class, is |-> is,
     one |-> [f \in Pointers |-> IF f \in absent THEN Null ELSE f],
     each |-> [f \in ListGetters |-> IF f \in absent THEN <<>> ELSE Elements(f)],
     implicit |-> implicit, args |-> args, parts |-> parts]

Describe(kind, class) ==
    {Node(kind, class, is, absent, implicit, args, parts) :
        is \in Answers(class), absent \in Absent(class), implicit \in Implicit(class),
        args \in Arguments(class), parts \in Parts(class)}

Described(kind, classes) == UNION {Describe(kind, class) : class \in classes}

-----------------------------------------------------------------------------

Blank == Node("Decl", "EmptyDecl", {}, Pointers \cup ListGetters, {}, <<>>, <<>>)

(* The nodes around "ego".  Most visit nothing; "outer" visits "inner",     *)
(* which visits "ego"; some types are qualified or wrap another type.       *)
Around(n) ==
    CASE n = "outer" -> [Blank EXCEPT !.class = "NamespaceAliasDecl", !.one["aliasedNamespace"] = "inner"]
      [] n = "inner" -> [Blank EXCEPT !.class = "NamespaceAliasDecl", !.one["aliasedNamespace"] = "ego"]
      [] n = "offsetType" -> [Blank EXCEPT !.kind = "QualType", !.one["typePtr"] = "offsetTypePtr"]
      [] n = "pointeeTypeAsWritten" ->
            [Blank EXCEPT !.kind = "QualType", !.one["typePtr"] = "innerReference"]
      [] n = "innerReference" ->
            [Blank EXCEPT !.kind = "Type", !.class = "LValueReferenceType",
                          !.one["pointeeType"] = "pointeeType"]
      [] n = "typePtr" ->
            [Blank EXCEPT !.kind = "Type", !.class = "TypedefType",
                          !.one["singleStepDesugar"] = "singleStepDesugar"]
      [] n = "offsetTypePtr" -> [Blank EXCEPT !.kind = "Type", !.class = "BuiltinType"]
      [] OTHER -> Blank

Surroundings == [n \in MCNodes \ {"ego"} |-> Around(n)]

Handled(d) ==
    [inFile |-> d.kind \in {"Decl", "Stmt", "Expr"}, visit |-> visitChildren(d), data |-> dumpData(d)]

(* The graph of nodes that are handled so.  With a threshold of 1, "ego" is *)
(* past it when the nodes on the way are declarations of system headers.    *)
ClassAST(handled, inSystemHeader) ==
    LET nodes == DOMAIN handled
    IN  [visit |-> [n \in nodes |-> handled[n].visit],
         data |-> [n \in nodes |-> handled[n].data \ notDumped],
         isSystemHeader |-> [n \in nodes |-> /\ inSystemHeader
                                              /\ n \in {"outer", "inner", "ego"}
                                              /\ handled[n].inFile],
         dataThrows |-> {n \in nodes : notDumped \subseteq handled[n].data},
         roots |-> {"outer"}]

ASTsOf(descriptions) ==
    LET egos == {Handled(d) : d \in descriptions}
        nodes == Surroundings
        around == [n \in DOMAIN nodes |-> Handled(nodes[n])]
    IN  {ClassAST([n \in {"ego"} |-> ego] @@ around, s) : ego \in egos, s \in BOOLEAN}

-----------------------------------------------------------------------------

DeclClasses ==
    DOMAIN DECL_CHILDREN_VISITORS(Blank) \cup DOMAIN DECL_DATA_DUMPERS(Blank) \cup {"EmptyDecl"}
StmtClasses ==
    DOMAIN STMT_CHILDREN_VISITORS(Blank) \cup DOMAIN STMT_DATA_DUMPERS(Blank) \cup {"CompoundStmt"}
ExprClasses ==
    DOMAIN EXPR_CHILDREN_VISITORS(Blank) \cup DOMAIN EXPR_DATA_DUMPERS(Blank)
        \cup {"BinaryOperator", "ImplicitCastExpr"}
TypeClasses ==
    DOMAIN TYPE_CHILDREN_VISITORS(Blank) \cup DOMAIN TYPE_DATA_DUMPERS(Blank) \cup {"VectorType"}

ClosedCases ==
    Described("Decl", DeclClasses \ DeclsWithoutVisitor)
        \cup Described("Stmt", StmtClasses \ AsmStmts)
        \cup Described("Expr", ExprClasses \ CastsWithoutVisitor)
        \cup Described("Type", TypeClasses)
        \cup Described("QualType", {"QualType"})
        \cup Described("Attr", {"AlignedAttr", "FormatAttr"})

QualifiedOffsetCases ==
    {Node("Expr", "OffsetOfExpr", {"qualified"}, {}, {}, <<>>, parts) : parts \in Parts("OffsetOfExpr")}

PackCases ==
    {Node("Decl", class, Yes, {}, {}, <<Pack>>, <<>>) :
        class \in {"FunctionDecl", "ClassTemplateSpecializationDecl"}}

ClosedASTs == ASTsOf(ClosedCases)
CastASTs == ASTsOf(Described("Expr", CastsWithoutVisitor))
DeclASTs == ASTsOf(Described("Decl", DeclsWithoutVisitor))
AsmASTs == ASTsOf(Described("Stmt", AsmStmts))
OffsetASTs == ASTsOf(QualifiedOffsetCases)
PackASTs == ASTsOf(PackCases)

(* A node visits another one directly.                                      *)
VisitsDirectly(n, m) ==
    LET calls == visitChildren(Surroundings[n])
    IN  \E i \in DOMAIN calls : calls[i].op \in DirectVisits /\ calls[i].to = m

(* The graphs of the closed cases are what the theorems about class graphs  *)
(* assume: IsClassGraph() part by part, the inner reference reached by the  *)
(* two visits that lead to it.                                              *)
ASSUME ClosedCasesAreSupported ==
    \A d \in ClosedCases : IsDescription(d) /\ Supported(d) /\ MadeByClang(d)

ASSUME SurroundingsAreSupported ==
    /\ \A n \in DOMAIN Surroundings :
            /\ IsDescription(Surroundings[n])
            /\ Supported(Surroundings[n])
            /\ MadeByClang(Surroundings[n])
            /\ DesugaredAlike(Surroundings, n)
    /\ \A d \in Describe("QualType", "QualType") :
            DesugaredAlike([n \in MCNodes |-> IF n = "ego" THEN d ELSE Surroundings[n]], "ego")
    /\ VisitsDirectly("pointeeTypeAsWritten", "innerReference")
    /\ VisitsDirectly("innerReference", "pointeeType")

=============================================================================
