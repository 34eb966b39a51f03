---------------------------- MODULE StmtHandlers ----------------------------
(***************************************************************************)
(* Statements and expressions: the children handlers of                    *)
(* ChildrenVisitorStmts.cpp with their two dispatch tables, and the data   *)
(* dumpers of ClavaDataDumperStmts.cpp with theirs.                        *)
(***************************************************************************)
EXTENDS TemplateArguments

(* Null sub-statements are skipped.                                         *)
VisitStmtChildren(d) ==
    FlattenSeq([i \in DOMAIN d.each["subStmt"] |->
                    IF d.each["subStmt"][i] = Null
                    THEN <<>>
                    ELSE Call("addChild", d.each["subStmt"][i])])

VisitDeclStmtChildren(d) == addEach(d, "decl")

VisitIfStmtChildren(d) ==
    addChild(d, "conditionVariable") \o addChild(d, "cond") \o addChild(d, "then") \o addChild(d, "else")

VisitForStmtChildren(d) ==
    addChild(d, "init") \o addChild(d, "cond") \o addChild(d, "inc")
        \o addChild(d, "body") \o addChild(d, "conditionVariable")

VisitWhileStmtChildren(d) ==
    addChild(d, "conditionVariable") \o addChild(d, "cond") \o addChild(d, "body")

VisitDoStmtChildren(d) == addChild(d, "body") \o addChild(d, "cond")

VisitCXXForRangeStmtChildren(d) ==
    addChild(d, "rangeStmt") \o addChild(d, "beginStmt") \o addChild(d, "endStmt")
        \o addChild(d, "cond") \o addChild(d, "inc") \o addChild(d, "loopVarStmt")
        \o addChild(d, "body")

VisitCXXCatchStmtChildren(d) == addChild(d, "exceptionDecl") \o addChild(d, "handlerBlock")

VisitCXXTryStmtChildren(d) == addChild(d, "tryBlock") \o addEach(d, "handler")

VisitCaseStmtChildren(d) == addChild(d, "lhs") \o addChild(d, "rhs") \o addChild(d, "caseSubStmt")

VisitDefaultStmtChildren(d) == addChild(d, "caseSubStmt")

VisitGotoStmtChildren(d) == visitTop(d, "label")

VisitLabelStmtChildren(d) == addChild(d, "labelSubStmt") \o visitTop(d, "label")

VisitAttributedStmtChildren(d) == visitEach(d, "attr") \o addChild(d, "attributedSubStmt")

VisitCapturedStmtChildren(d) == addChild(d, "capturedStmt")

STMT_CHILDREN_VISITORS(d) ==
    [DeclStmt |-> VisitDeclStmtChildren(d),
     IfStmt |-> VisitIfStmtChildren(d),
     ForStmt |-> VisitForStmtChildren(d),
     WhileStmt |-> VisitWhileStmtChildren(d),
     DoStmt |-> VisitDoStmtChildren(d),
     CXXForRangeStmt |-> VisitCXXForRangeStmtChildren(d),
     CXXCatchStmt |-> VisitCXXCatchStmtChildren(d),
     CXXTryStmt |-> VisitCXXTryStmtChildren(d),
     CaseStmt |-> VisitCaseStmtChildren(d),
     DefaultStmt |-> VisitDefaultStmtChildren(d),
     GotoStmt |-> VisitGotoStmtChildren(d),
     LabelStmt |-> VisitLabelStmtChildren(d),
     AttributedStmt |-> VisitAttributedStmtChildren(d),
     CapturedStmt |-> VisitCapturedStmtChildren(d)]

visitStmtChildren(class, d) ==
    LET visitors == STMT_CHILDREN_VISITORS(d)
    IN  IF class \in DOMAIN visitors THEN visitors[class] ELSE VisitStmtChildren(d)

-----------------------------------------------------------------------------

VisitExprChildren(d) == VisitStmtChildren(d) \o visitTop(d, "type")

VisitInitListExprChildren(d) ==
    VisitExprChildren(d)
        \o visitTop(d, "arrayFiller") \o visitTop(d, "syntacticForm") \o visitTop(d, "semanticForm")

visitTemplateArguments(d) == visitArguments(d.args)

VisitDeclRefExprChildren(d) ==
    VisitExprChildren(d) \o visitTop(d, "referencedDecl") \o visitTemplateArguments(d)

VisitDependentScopeDeclRefExprChildren(d) == VisitExprChildren(d) \o visitTemplateArguments(d)

OffsetOfKinds == {"Array", "Base", "Identifier", "Field"}

(* One turn of the loop over the components.                                *)
visitOffsetOfComponent(node) ==
    When(node, "Array", visitTop(node, "indexExpr"))
        \o When(node, "Base", visitTop(node, "componentBaseType"))
        \o (IF node.is \cap OffsetOfKinds = {} THEN notImplemented ELSE <<>>)

(* The handler strips the qualifiers of the type (getTypePtr()): of a       *)
(* qualified type only the unqualified one is visited.                      *)
VisitOffsetOfExprChildren(d) ==
    VisitExprChildren(d)
        \o visitTop(d, IF "qualified" \in d.is THEN "offsetTypePtr" ELSE "offsetType")
        \o FlattenSeq([i \in DOMAIN d.parts |-> visitOffsetOfComponent(d.parts[i])])

VisitMemberExprChildren(d) ==
    VisitExprChildren(d) \o visitTop(d, "memberDecl") \o visitTop(d, "foundDecl")

VisitMaterializeTemporaryExprChildren(d) == VisitExprChildren(d) \o visitTop(d, "extendingDecl")

VisitOverloadExprChildren(d) ==
    VisitExprChildren(d) \o visitEach(d, "overload") \o visitTemplateArguments(d)

VisitCallExprChildren(d) == VisitExprChildren(d) \o visitTop(d, "directCallee")

VisitCXXMemberCallExprChildren(d) == VisitCallExprChildren(d) \o visitTop(d, "methodDecl")

VisitCXXTypeidExprChildren(d) ==
    VisitExprChildren(d)
        \o (IF "isTypeOperand" \in d.is THEN visitTop(d, "typeOperand") ELSE visitTop(d, "exprOperand"))

VisitExplicitCastExprChildren(d) == VisitExprChildren(d) \o visitTop(d, "typeAsWritten")

VisitOpaqueValueExprChildren(d) == VisitExprChildren(d) \o addChild(d, "sourceExpr")

VisitUnaryExprOrTypeTraitExprChildren(d) ==
    VisitExprChildren(d) \o When(d, "isArgumentType", visitTop(d, "argumentType"))

VisitCXXNewExprChildren(d) ==
    VisitExprChildren(d)
        \o visitTop(d, "initializer") \o visitTop(d, "arraySize") \o visitTop(d, "operatorNew")

VisitCXXDeleteExprChildren(d) == VisitExprChildren(d) \o addChild(d, "argument")

VisitLambdaExprChildren(d) == VisitExprChildren(d) \o visitTop(d, "lambdaClass")

VisitSizeOfPackExprChildren(d) ==
    VisitExprChildren(d)
        \o visitTop(d, "pack")
        \o When(d, "isPartiallySubstituted", visitArguments(d.args))

VisitDesignatedInitExprChildren(d) == VisitExprChildren(d)

VisitCXXConstructExprChildren(d) == VisitExprChildren(d) \o visitTop(d, "constructor")

VisitCXXTemporaryObjectExprChildren(d) == VisitCXXConstructExprChildren(d)

VisitCXXDependentScopeMemberExprChildren(d) == VisitExprChildren(d) \o visitTemplateArguments(d)

VisitCXXPseudoDestructorExprChildren(d) == VisitExprChildren(d) \o visitTop(d, "destroyedType")

VisitMSPropertyRefExprChildren(d) ==
    VisitExprChildren(d) \o visitTop(d, "baseExpr") \o visitTop(d, "propertyDecl")

EXPR_CHILDREN_VISITORS(d) ==
    [InitListExpr |-> VisitInitListExprChildren(d),
     DeclRefExpr |-> VisitDeclRefExprChildren(d),
     DependentScopeDeclRefExpr |-> VisitDependentScopeDeclRefExprChildren(d),
     OffsetOfExpr |-> VisitOffsetOfExprChildren(d),
     MemberExpr |-> VisitMemberExprChildren(d),
     MaterializeTemporaryExpr |-> VisitMaterializeTemporaryExprChildren(d),
     UnresolvedLookupExpr |-> VisitOverloadExprChildren(d),
     UnresolvedMemberExpr |-> VisitOverloadExprChildren(d),
     CallExpr |-> VisitCallExprChildren(d),
     CXXMemberCallExpr |-> VisitCXXMemberCallExprChildren(d),
     CXXOperatorCallExpr |-> VisitCallExprChildren(d),
     UserDefinedLiteral |-> VisitCallExprChildren(d),
     CXXTypeidExpr |-> VisitCXXTypeidExprChildren(d),
     CStyleCastExpr |-> VisitExplicitCastExprChildren(d),
     CXXConstCastExpr |-> VisitExplicitCastExprChildren(d),
     CXXReinterpretCastExpr |-> VisitExplicitCastExprChildren(d),
     CXXStaticCastExpr |-> VisitExplicitCastExprChildren(d),
     OpaqueValueExpr |-> VisitOpaqueValueExprChildren(d),
     CXXNewExpr |-> VisitCXXNewExprChildren(d),
     CXXDeleteExpr |-> VisitCXXDeleteExprChildren(d),
     LambdaExpr |-> VisitLambdaExprChildren(d),
     SizeOfPackExpr |-> VisitSizeOfPackExprChildren(d),
     UnaryExprOrTypeTraitExpr |-> VisitUnaryExprOrTypeTraitExprChildren(d),
     DesignatedInitExpr |-> VisitDesignatedInitExprChildren(d),
     CXXConstructExpr |-> VisitCXXConstructExprChildren(d),
     CXXTemporaryObjectExpr |-> VisitCXXTemporaryObjectExprChildren(d),
     CXXDependentScopeMemberExpr |-> VisitCXXDependentScopeMemberExprChildren(d),
     CXXPseudoDestructorExpr |-> VisitCXXPseudoDestructorExprChildren(d),
     MSPropertyRefExpr |-> VisitMSPropertyRefExprChildren(d)]

visitExprChildren(class, d) ==
    LET visitors == EXPR_CHILDREN_VISITORS(d)
    IN  IF class \in DOMAIN visitors THEN visitors[class] ELSE VisitExprChildren(d)

-----------------------------------------------------------------------------

DumpStmtData(d) == {}

DumpLabelStmtData(d) == DumpStmtData(d) \cup ids(d, {"label"})

DumpGotoStmtData(d) == DumpStmtData(d) \cup ids(d, {"label"})

DumpAttributedStmtData(d) == DumpStmtData(d) \cup idsOf(d, "attr")

(* The operands of an asm statement are its sub-statements.                 *)
DumpAsmStmtData(d) == DumpStmtData(d) \cup idsOf(d, "subStmt")

DumpGCCAsmStmtData(d) == DumpAsmStmtData(d)

DumpMSAsmStmtData(d) == DumpAsmStmtData(d)

STMT_DATA_DUMPERS(d) ==
    [LabelStmt |-> DumpLabelStmtData(d),
     GotoStmt |-> DumpGotoStmtData(d),
     AttributedStmt |-> DumpAttributedStmtData(d),
     GCCAsmStmt |-> DumpGCCAsmStmtData(d),
     MSAsmStmt |-> DumpMSAsmStmtData(d)]

dumpStmtData(class, d) ==
    LET dumpers == STMT_DATA_DUMPERS(d)
    IN  IF class \in DOMAIN dumpers THEN dumpers[class] ELSE DumpStmtData(d)

DumpExprData(d) == DumpStmtData(d) \cup ids(d, {"type"})

DumpCastExprData(d) == DumpExprData(d)

DumpInitListExprData(d) ==
    DumpExprData(d) \cup ids(d, {"arrayFiller", "syntacticForm", "semanticForm"})

dumpTemplateArguments(d) == WhenIds(d, "hasExplicitTemplateArgs", dumpArguments(d.args))

DumpDeclRefExprData(d) ==
    DumpExprData(d) \cup dumpTemplateArguments(d) \cup ids(d, {"referencedDecl"})

DumpDependentScopeDeclRefExprData(d) == DumpExprData(d) \cup dumpTemplateArguments(d)

DumpOverloadExprData(d) ==
    DumpExprData(d) \cup idsOf(d, "overload") \cup dumpTemplateArguments(d)

DumpCXXConstructExprData(d) == DumpExprData(d) \cup ids(d, {"constructor"})

DumpMemberExprData(d) == DumpExprData(d) \cup ids(d, {"memberDecl", "foundDecl"})

DumpMaterializeTemporaryExprData(d) == DumpExprData(d) \cup ids(d, {"extendingDecl"})

DumpCallExprData(d) == DumpExprData(d) \cup ids(d, {"directCallee"})

DumpCXXMemberCallExprData(d) == DumpCallExprData(d) \cup ids(d, {"methodDecl"})

DumpCXXTypeidExprData(d) ==
    DumpExprData(d)
        \cup (IF "isTypeOperand" \in d.is THEN ids(d, {"typeOperand"}) ELSE ids(d, {"exprOperand"}))

DumpExplicitCastExprData(d) == DumpCastExprData(d) \cup ids(d, {"typeAsWritten"})

DumpCXXNamedCastExprData(d) == DumpExplicitCastExprData(d)

DumpCXXDependentScopeMemberExprData(d) == DumpExprData(d) \cup dumpTemplateArguments(d)

DumpUnaryExprOrTypeTraitExprData(d) ==
    DumpExprData(d) \cup WhenIds(d, "isArgumentType", ids(d, {"argumentType"}))

(* getConstructExpr() is the initializer when that is a CXXConstructExpr.   *)
DumpCXXNewExprData(d) ==
    DumpExprData(d) \cup ids(d, {"initializer", "arraySize", "operatorNew"})

DumpCXXDeleteExprData(d) == DumpExprData(d)

dumpOffsetOfComponent(node) ==
    WhenIds(node, "Array", ids(node, {"indexExpr"}))
        \cup WhenIds(node, "Base", ids(node, {"componentBaseType"}))
        \cup (IF node.is \cap OffsetOfKinds = {} THEN notDumped ELSE {})

(* The id written is the one of the type with its qualifiers.               *)
DumpOffsetOfExprData(d) ==
    DumpExprData(d)
        \cup ids(d, {"offsetType"})
        \cup (UNION {dumpOffsetOfComponent(d.parts[i]) : i \in DOMAIN d.parts})

DumpLambdaExprData(d) == DumpExprData(d) \cup ids(d, {"lambdaClass"})

DumpSizeOfPackExprData(d) ==
    DumpExprData(d)
        \cup ids(d, {"pack"})
        \cup WhenIds(d, "isPartiallySubstituted", dumpArguments(d.args))

DumpCXXPseudoDestructorExprData(d) == DumpExprData(d) \cup ids(d, {"destroyedType"})

DumpMSPropertyRefExprData(d) == DumpExprData(d) \cup ids(d, {"baseExpr", "propertyDecl"})

DesignatorKinds == {"Field", "Array", "ArrayRange"}

(* Clang expands anonymous fields into unnamed designators.                 *)
isSourceDesignator(designator) == "Field" \in designator.is => "named" \in designator.is

dumpDesignator(designator) == IF designator.is \cap DesignatorKinds = {} THEN notDumped ELSE {}

DumpDesignatedInitExprData(d) ==
    DumpExprData(d)
        \cup (UNION {dumpDesignator(d.parts[i]) : i \in {j \in DOMAIN d.parts : isSourceDesignator(d.parts[j])}})

(* Literals, operators, CXXNoexceptExpr and the like write values, and no   *)
(* id besides the one of their type.                                        *)
DumpValueExprData(d) == DumpExprData(d)

ValueExprs ==
    {"CharacterLiteral", "IntegerLiteral", "FloatingLiteral", "StringLiteral",
     "CXXBoolLiteralExpr", "CompoundLiteralExpr", "BinaryOperator", "UnaryOperator",
     "CompoundAssignOperator", "PredefinedExpr", "ArrayInitLoopExpr",
     "CXXNoexceptExpr", "PseudoObjectExpr"}

EXPR_DATA_DUMPERS(d) ==
    [CastExpr |-> DumpCastExprData(d),
     CXXFunctionalCastExpr |-> DumpCastExprData(d),
     CStyleCastExpr |-> DumpExplicitCastExprData(d),
     CXXAddrspaceCastExpr |-> DumpCXXNamedCastExprData(d),
     CXXConstCastExpr |-> DumpCXXNamedCastExprData(d),
     CXXDynamicCastExpr |-> DumpCXXNamedCastExprData(d),
     CXXReinterpretCastExpr |-> DumpCXXNamedCastExprData(d),
     CXXStaticCastExpr |-> DumpCXXNamedCastExprData(d),
     InitListExpr |-> DumpInitListExprData(d),
     DeclRefExpr |-> DumpDeclRefExprData(d),
     DependentScopeDeclRefExpr |-> DumpDependentScopeDeclRefExprData(d),
     UnresolvedLookupExpr |-> DumpOverloadExprData(d),
     UnresolvedMemberExpr |-> DumpOverloadExprData(d),
     CXXConstructExpr |-> DumpCXXConstructExprData(d),
     CXXTemporaryObjectExpr |-> DumpCXXConstructExprData(d),
     MemberExpr |-> DumpMemberExprData(d),
     MaterializeTemporaryExpr |-> DumpMaterializeTemporaryExprData(d),
     CallExpr |-> DumpCallExprData(d),
     CXXMemberCallExpr |-> DumpCXXMemberCallExprData(d),
     CXXOperatorCallExpr |-> DumpCallExprData(d),
     UserDefinedLiteral |-> DumpCallExprData(d),
     CXXTypeidExpr |-> DumpCXXTypeidExprData(d),
     CXXDependentScopeMemberExpr |-> DumpCXXDependentScopeMemberExprData(d),
     UnaryExprOrTypeTraitExpr |-> DumpUnaryExprOrTypeTraitExprData(d),
     CXXNewExpr |-> DumpCXXNewExprData(d),
     CXXDeleteExpr |-> DumpCXXDeleteExprData(d),
     OffsetOfExpr |-> DumpOffsetOfExprData(d),
     LambdaExpr |-> DumpLambdaExprData(d),
     DesignatedInitExpr |-> DumpDesignatedInitExprData(d),
     SizeOfPackExpr |-> DumpSizeOfPackExprData(d),
     CXXPseudoDestructorExpr |-> DumpCXXPseudoDestructorExprData(d),
     MSPropertyRefExpr |-> DumpMSPropertyRefExprData(d)]

dumpExprData(class, d) ==
    LET dumpers == EXPR_DATA_DUMPERS(d)
    IN  CASE class \in DOMAIN dumpers -> dumpers[class]
          [] class \in ValueExprs -> DumpValueExprData(d)
          [] OTHER -> DumpExprData(d)

=============================================================================
