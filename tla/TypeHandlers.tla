---------------------------- MODULE TypeHandlers ----------------------------
(***************************************************************************)
(* Types, qualified types and attributes: the children handlers of         *)
(* ChildrenVisitorTypes.cpp and ChildrenVisitorAttrs.cpp, and the data     *)
(* dumpers of ClavaDataDumperTypes.cpp and ClavaDataDumperAttrs.cpp, with  *)
(* their dispatch tables.  Only AlignedAttr lists a child: every other     *)
(* reference is a direct visit.                                            *)
(***************************************************************************)
EXTENDS TemplateArguments

(* A type with sugar has a desugared type; other types visit nothing.       *)
VisitTypeChildren(d) == visitIfPresent(d, "singleStepDesugar")

VisitFunctionTypeChildren(d) == VisitTypeChildren(d) \o visitTop(d, "returnType")

VisitFunctionProtoTypeChildren(d) ==
    VisitFunctionTypeChildren(d)
        \o visitEach(d, "paramType")
        \o visitEach(d, "exceptionType")
        \o visitTop(d, "noexceptExpr")
        \o visitTop(d, "sourceDecl")
        \o visitTop(d, "sourceTemplate")

VisitTagTypeChildren(d) == VisitTypeChildren(d) \o visitTop(d, "typeDecl")

VisitArrayTypeChildren(d) == VisitTypeChildren(d) \o visitTop(d, "elementType")

visitArrayTypeWithSizeExpr(d) == VisitArrayTypeChildren(d) \o visitTop(d, "sizeExpr")

visitTypeWithDecl(d) == VisitTypeChildren(d) \o visitTop(d, "typeDecl")

visitTypeWithUnderlyingExpr(d) == VisitTypeChildren(d) \o visitTop(d, "underlyingExpr")

VisitPointerTypeChildren(d) == VisitTypeChildren(d) \o visitTop(d, "pointeeType")

VisitElaboratedTypeChildren(d) == VisitTypeChildren(d) \o visitTop(d, "namedType")

(* A reference to a reference type is written with the inner reference.     *)
VisitReferenceTypeChildren(d) ==
    VisitTypeChildren(d)
        \o visitTop(d, IF "innerReference" \in d.is THEN "pointeeTypeAsWritten" ELSE "pointeeType")

VisitSubstTemplateTypeParmTypeChildren(d) ==
    VisitTypeChildren(d) \o visitTop(d, "replacedParameter") \o visitTop(d, "replacementType")

VisitTemplateSpecializationTypeChildren(d) ==
    VisitTypeChildren(d)
        \o visitArgumentsExpanded(d.args)
        \o When(d, "isTypeAlias", visitTop(d, "aliasedType"))
        \o visitTop(d, "templateDecl")

VisitTypedefTypeChildren(d) ==
    VisitTypeChildren(d) \o visitTop(d, "typeDecl") \o visitTop(d, "pointeeType")

VisitAdjustedTypeChildren(d) ==
    VisitTypeChildren(d) \o visitTop(d, "originalType") \o visitTop(d, "adjustedType")

VisitDecayedTypeChildren(d) ==
    VisitAdjustedTypeChildren(d) \o visitTop(d, "decayedType") \o visitTop(d, "pointeeType")

VisitAutoTypeChildren(d) == VisitTypeChildren(d) \o visitTop(d, "deducedType")

(* Clang's PackExpansionType is never sugared, so the pattern is visited.   *)
VisitPackExpansionTypeChildren(d) == VisitTypeChildren(d) \o visitTop(d, "pattern")

VisitAttributedTypeChildren(d) ==
    VisitTypeChildren(d) \o visitTop(d, "modifiedType") \o visitTop(d, "equivalentType")

VisitUnaryTransformTypeChildren(d) ==
    VisitTypeChildren(d) \o visitTop(d, "underlyingType") \o visitTop(d, "baseType")

VisitComplexTypeChildren(d) == VisitTypeChildren(d) \o visitTop(d, "elementType")

TYPE_CHILDREN_VISITORS(d) ==
    [FunctionProtoType |-> VisitFunctionProtoTypeChildren(d),
     FunctionNoProtoType |-> VisitFunctionTypeChildren(d),
     ConstantArrayType |-> VisitArrayTypeChildren(d),
     DependentSizedArrayType |-> visitArrayTypeWithSizeExpr(d),
     IncompleteArrayType |-> VisitArrayTypeChildren(d),
     VariableArrayType |-> visitArrayTypeWithSizeExpr(d),
     PointerType |-> VisitPointerTypeChildren(d),
     EnumType |-> VisitTagTypeChildren(d),
     RecordType |-> VisitTagTypeChildren(d),
     ElaboratedType |-> VisitElaboratedTypeChildren(d),
     LValueReferenceType |-> VisitReferenceTypeChildren(d),
     RValueReferenceType |-> VisitReferenceTypeChildren(d),
     InjectedClassNameType |-> visitTypeWithDecl(d),
     TemplateTypeParmType |-> visitTypeWithDecl(d),
     SubstTemplateTypeParmType |-> VisitSubstTemplateTypeParmTypeChildren(d),
     TemplateSpecializationType |-> VisitTemplateSpecializationTypeChildren(d),
     TypedefType |-> VisitTypedefTypeChildren(d),
     DecayedType |-> VisitDecayedTypeChildren(d),
     DecltypeType |-> visitTypeWithUnderlyingExpr(d),
     AutoType |-> VisitAutoTypeChildren(d),
     PackExpansionType |-> VisitPackExpansionTypeChildren(d),
     TypeOfExprType |-> visitTypeWithUnderlyingExpr(d),
     AttributedType |-> VisitAttributedTypeChildren(d),
     UnaryTransformType |-> VisitUnaryTransformTypeChildren(d),
     ComplexType |-> VisitComplexTypeChildren(d)]

visitTypeChildren(class, d) ==
    LET visitors == TYPE_CHILDREN_VISITORS(d)
    IN  IF class \in DOMAIN visitors THEN visitors[class] ELSE VisitTypeChildren(d)

(* A qualified type: its unqualified type, and the type desugared by one    *)
(* step, which for a QualType keeps its qualifiers.                         *)
visitQualTypeChildren(d) == visitTop(d, "typePtr") \o visitTop(d, "desugaredQualType")

VisitAlignedAttrChildren(d) ==
    IF "isAlignmentExpr" \in d.is
    THEN requiredChild(d, "alignmentExpr")
    ELSE visitTop(d, "alignmentType")

visitAttrChildren(class, d) == IF class = "AlignedAttr" THEN VisitAlignedAttrChildren(d) ELSE <<>>

-----------------------------------------------------------------------------

DumpTypeData(d) == ids(d, {"singleStepDesugar"})

DumpPointerTypeData(d) == DumpTypeData(d) \cup ids(d, {"pointeeType"})

DumpFunctionTypeData(d) == DumpTypeData(d) \cup ids(d, {"returnType"})

(* Which parts of the exception specification are written depends on its    *)
(* kind.                                                                    *)
DumpFunctionProtoTypeData(d) ==
    DumpFunctionTypeData(d)
        \cup idsOf(d, "paramType")
        \cup idsOf(d, "exceptionType")
        \cup WhenIds(d, "EST_DependentNoexcept", ids(d, {"noexceptExpr"}))
        \cup WhenIds(d, "EST_Unevaluated", ids(d, {"sourceDecl"}))
        \cup WhenIds(d, "EST_Uninstantiated", ids(d, {"sourceDecl", "sourceTemplate"}))

DumpTagTypeData(d) == DumpTypeData(d) \cup ids(d, {"typeDecl"})

DumpArrayTypeData(d) == DumpTypeData(d) \cup ids(d, {"elementType"})

DumpConstantArrayTypeData(d) == DumpArrayTypeData(d)

dumpVariableSizeArrayTypeData(d) == DumpArrayTypeData(d) \cup ids(d, {"sizeExpr"})

DumpElaboratedTypeData(d) == DumpTypeData(d) \cup ids(d, {"namedType"})

DumpTemplateTypeParmTypeData(d) == DumpTypeData(d) \cup ids(d, {"typeDecl"})

DumpTemplateSpecializationTypeData(d) ==
    DumpTypeData(d)
        \cup WhenIds(d, "isTypeAlias", ids(d, {"aliasedType"}))
        \cup ids(d, {"templateDecl"})
        \cup dumpArguments(d.args)

DumpTypedefTypeData(d) == DumpTypeData(d) \cup ids(d, {"typeDecl"})

DumpAdjustedTypeData(d) == DumpTypeData(d) \cup ids(d, {"originalType", "adjustedType"})

DumpDecayedTypeData(d) == DumpAdjustedTypeData(d) \cup ids(d, {"decayedType", "pointeeType"})

dumpExprTypeData(d) == DumpTypeData(d) \cup ids(d, {"underlyingExpr"})

DumpAutoTypeData(d) == DumpTypeData(d) \cup ids(d, {"deducedType"})

(* getPointeeType() looks through the inner reference.                      *)
DumpReferenceTypeData(d) == DumpTypeData(d) \cup ids(d, {"pointeeType"})

DumpPackExpansionTypeData(d) == DumpTypeData(d) \cup ids(d, {"pattern"})

DumpAttributedTypeData(d) == DumpTypeData(d) \cup ids(d, {"modifiedType", "equivalentType"})

DumpUnaryTransformTypeData(d) == DumpTypeData(d) \cup ids(d, {"underlyingType", "baseType"})

DumpSubstTemplateTypeParmTypeData(d) ==
    DumpTypeData(d) \cup ids(d, {"replacedParameter", "replacementType"})

DumpComplexTypeData(d) == DumpTypeData(d) \cup ids(d, {"elementType"})

TYPE_DATA_DUMPERS(d) ==
    [BuiltinType |-> DumpTypeData(d),
     PointerType |-> DumpPointerTypeData(d),
     FunctionProtoType |-> DumpFunctionProtoTypeData(d),
     FunctionNoProtoType |-> DumpFunctionTypeData(d),
     ConstantArrayType |-> DumpConstantArrayTypeData(d),
     VariableArrayType |-> dumpVariableSizeArrayTypeData(d),
     IncompleteArrayType |-> DumpArrayTypeData(d),
     DependentSizedArrayType |-> dumpVariableSizeArrayTypeData(d),
     RecordType |-> DumpTagTypeData(d),
     EnumType |-> DumpTagTypeData(d),
     ElaboratedType |-> DumpElaboratedTypeData(d),
     TemplateTypeParmType |-> DumpTemplateTypeParmTypeData(d),
     TemplateSpecializationType |-> DumpTemplateSpecializationTypeData(d),
     TypedefType |-> DumpTypedefTypeData(d),
     DecayedType |-> DumpDecayedTypeData(d),
     DecltypeType |-> dumpExprTypeData(d),
     AutoType |-> DumpAutoTypeData(d),
     LValueReferenceType |-> DumpReferenceTypeData(d),
     RValueReferenceType |-> DumpReferenceTypeData(d),
     TypeOfExprType |-> dumpExprTypeData(d),
     PackExpansionType |-> DumpPackExpansionTypeData(d),
     UnaryTransformType |-> DumpUnaryTransformTypeData(d),
     AttributedType |-> DumpAttributedTypeData(d),
     SubstTemplateTypeParmType |-> DumpSubstTemplateTypeParmTypeData(d),
     ComplexType |-> DumpComplexTypeData(d)]

dumpTypeData(class, d) ==
    LET dumpers == TYPE_DATA_DUMPERS(d)
    IN  IF class \in DOMAIN dumpers THEN dumpers[class] ELSE DumpTypeData(d)

(* The data of a qualified type starts with the one of its unqualified      *)
(* type: the desugared type it mentions is visited with that type.          *)
dumpQualTypeData(d) == DumpTypeData(d) \cup ids(d, {"typePtr"})

DumpAlignedAttrData(d) ==
    IF "isAlignmentExpr" \in d.is THEN ids(d, {"alignmentExpr"}) ELSE ids(d, {"alignmentType"})

dumpAttrData(class, d) == IF class = "AlignedAttr" THEN DumpAlignedAttrData(d) ELSE {}

=============================================================================
