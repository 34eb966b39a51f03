---------------------------- MODULE DeclHandlers ----------------------------
(***************************************************************************)
(* Declarations: the children handlers of ChildrenVisitorDecls.cpp with    *)
(* their dispatch table, and the data dumpers of ClavaDataDumperDecls.cpp  *)
(* with theirs.                                                            *)
(***************************************************************************)
EXTENDS TemplateArguments

VisitDeclChildren(d) == visitEach(d, "attr")

VisitNamedDeclChildren(d) == VisitDeclChildren(d)

VisitTypeDeclChildren(d) == VisitNamedDeclChildren(d) \o visitTop(d, "typeForDecl")

(* The declarations that are not in the source code are skipped.            *)
addChildren(d, f) ==
    FlattenSeq([i \in DOMAIN d.each[f] |->
                    IF d.each[f][i] \in d.implicit \cup {Null}
                    THEN <<>>
                    ELSE Call("addChild", d.each[f][i])])

VisitTagDeclChildren(d) == VisitTypeDeclChildren(d) \o addChildren(d, "decl")

VisitEnumDeclChildren(d) == VisitTagDeclChildren(d) \o visitTop(d, "integerType")

VisitValueDeclChildren(d) == VisitNamedDeclChildren(d) \o visitTop(d, "type")

VisitFieldDeclChildren(d) ==
    VisitValueDeclChildren(d) \o addChild(d, "bitWidth") \o addChild(d, "inClassInitializer")

VisitFunctionDeclChildren(d) ==
    VisitValueDeclChildren(d)
        \o visitTop(d, "previousDecl")
        \o visitTop(d, "canonicalDecl")
        \o visitIfPresent(d, "primaryTemplatedDecl")
        \o When(d, "hasTemplateSpecializationArgs", visitArguments(d.args))
        \o addEach(d, "parameter")
        \o When(d, "doesThisDeclarationHaveABody", addChild(d, "body"))

VisitCXXMethodDeclChildren(d) ==
    VisitFunctionDeclChildren(d)
        \o visitTop(d, "parent")
        \o visitEach(d, "overriddenMethod")
        \o When(d, "isInstance", visitTop(d, "thisType") \o visitTop(d, "functionObjectParameterType"))

CtorInitializers == {"AnyMemberInitializer", "BaseInitializer", "DelegatingInitializer"}

(* Mutant: other kinds of initializers are passed over in silence.          *)
visitKnownCtorInitializer(init) ==
    visitTop(init, "init")
        \o When(init, "AnyMemberInitializer", visitTop(init, "anyMember"))
        \o When(init, "BaseInitializer", visitTop(init, "baseClass"))
        \o When(init, "DelegatingInitializer", visitTop(init, "typeSourceInfoType"))

(* One turn of the loop over the constructor initializers.                  *)
visitCtorInitializer(init) ==
    visitTop(init, "init")
        \o When(init, "AnyMemberInitializer", visitTop(init, "anyMember"))
        \o When(init, "BaseInitializer", visitTop(init, "baseClass"))
        \o When(init, "DelegatingInitializer", visitTop(init, "typeSourceInfoType"))
        \o (IF init.is \cap CtorInitializers = {} THEN notImplemented ELSE <<>>)

VisitCXXConstructorDeclChildren(d) ==
    VisitCXXMethodDeclChildren(d)
        \o FlattenSeq([i \in DOMAIN d.parts |-> visitCtorInitializer(d.parts[i])])
        \o visitTop(d, "explicitSpecifierExpr")

VisitCXXConversionDeclChildren(d) ==
    VisitCXXMethodDeclChildren(d) \o visitTop(d, "conversionType")

VisitRecordDeclChildren(d) == VisitTagDeclChildren(d)

VisitCXXRecordDeclChildren(d) ==
    VisitRecordDeclChildren(d)
        \o When(d, "hasDefinition", visitEach(d, "baseType") \o visitTop(d, "definition"))

VisitClassTemplateSpecializationDeclChildren(d) ==
    VisitCXXRecordDeclChildren(d)
        \o visitTop(d, "specializedTemplate")
        \o visitArguments(d.args)

VisitVarDeclChildren(d) == VisitValueDeclChildren(d) \o When(d, "hasInit", addChild(d, "init"))

(* Mutant: the templated declaration and the parameters are only children.  *)
VisitTemplateDeclChildrenOnly(d) ==
    VisitNamedDeclChildren(d) \o addEach(d, "templateParameter") \o addChild(d, "templatedDecl")

visitTemplateParameter(p) == Call("addChild", p) \o Call("visitTop", p)

(* Parameters and templated declaration are visited directly as well, since *)
(* the data record mentions them past the threshold too.                    *)
VisitTemplateDeclChildren(d) ==
    VisitNamedDeclChildren(d)
        \o FlattenSeq([i \in DOMAIN d.each["templateParameter"] |->
                            visitTemplateParameter(d.each["templateParameter"][i])])
        \o addChild(d, "templatedDecl")
        \o visitTop(d, "templatedDecl")

VisitTemplateTemplateParmDeclChildren(d) ==
    VisitTemplateDeclChildren(d) \o When(d, "hasDefaultArgument", visitArguments(d.args))

VisitTemplateTypeParmDeclChildren(d) ==
    VisitTypeDeclChildren(d) \o When(d, "hasDefaultArgument", visitTop(d, "defaultArgument"))

VisitEnumConstantDeclChildren(d) == VisitValueDeclChildren(d) \o addChild(d, "initExpr")

VisitTypedefNameDeclChildren(d) == VisitTypeDeclChildren(d) \o visitTop(d, "underlyingType")

VisitUsingDirectiveDeclChildren(d) ==
    VisitNamedDeclChildren(d)
        \o visitTop(d, "nominatedNamespace")
        \o visitTop(d, "nominatedNamespaceAsWritten")

VisitNamespaceDeclChildren(d) == VisitNamedDeclChildren(d) \o addChildren(d, "decl")

VisitFriendDeclChildren(d) ==
    VisitDeclChildren(d)
        \o (IF d.one["friendDecl"] # Null THEN addChild(d, "friendDecl")
            ELSE IF d.one["friendType"] # Null THEN addChild(d, "friendType")
            ELSE Call("addChild", Null))

VisitNamespaceAliasDeclChildren(d) == VisitNamedDeclChildren(d) \o visitTop(d, "aliasedNamespace")

VisitLinkageSpecDeclChildren(d) == addChildren(d, "decl")

VisitStaticAssertDeclChildren(d) == addChild(d, "assertExpr") \o addChild(d, "message")

VisitNonTypeTemplateParmDeclChildren(d) ==
    VisitValueDeclChildren(d)
        \o When(d, "hasDefaultArgument", visitTop(d, "defaultArgument"))
        \o When(d, "isExpandedParameterPack", visitEach(d, "expansionType"))

SpecifierDecls == {"Namespace", "NamespaceAlias", "Super"}
SpecifierTypes == {"TypeSpec", "TypeSpecWithTemplate"}
SpecifierKinds == SpecifierDecls \cup SpecifierTypes \cup {"Global"}

VisitNestedNameSpecifierChildren(d) ==
    IF d.is \cap SpecifierDecls # {} THEN visitTop(d, "qualifierDecl")
    ELSE IF d.is \cap SpecifierTypes # {} THEN visitTop(d, "qualifierType")
    ELSE IF "Global" \in d.is THEN <<>>
    ELSE notImplemented

VisitUsingDeclChildren(d) == VisitNamedDeclChildren(d) \o VisitNestedNameSpecifierChildren(d)

DECL_CHILDREN_VISITORS(d) ==
    [CXXConstructorDecl |-> VisitCXXConstructorDeclChildren(d),
     CXXConversionDecl |-> VisitCXXConversionDeclChildren(d),
     CXXDestructorDecl |-> VisitCXXMethodDeclChildren(d),
     CXXMethodDecl |-> VisitCXXMethodDeclChildren(d),
     EnumDecl |-> VisitEnumDeclChildren(d),
     RecordDecl |-> VisitRecordDeclChildren(d),
     CXXRecordDecl |-> VisitCXXRecordDeclChildren(d),
     ClassTemplateSpecializationDecl |-> VisitClassTemplateSpecializationDeclChildren(d),
     ClassTemplatePartialSpecializationDecl |-> VisitClassTemplateSpecializationDeclChildren(d),
     FunctionDecl |-> VisitFunctionDeclChildren(d),
     VarDecl |-> VisitVarDeclChildren(d),
     ParmVarDecl |-> VisitVarDeclChildren(d),
     TypeDecl |-> VisitTypeDeclChildren(d),
     FieldDecl |-> VisitFieldDeclChildren(d),
     ClassTemplateDecl |-> VisitTemplateDeclChildren(d),
     FunctionTemplateDecl |-> VisitTemplateDeclChildren(d),
     TypeAliasTemplateDecl |-> VisitTemplateDeclChildren(d),
     VarTemplateDecl |-> VisitTemplateDeclChildren(d),
     TemplateTemplateParmDecl |-> VisitTemplateTemplateParmDeclChildren(d),
     TemplateTypeParmDecl |-> VisitTemplateTypeParmDeclChildren(d),
     EnumConstantDecl |-> VisitEnumConstantDeclChildren(d),
     TypeAliasDecl |-> VisitTypedefNameDeclChildren(d),
     TypedefDecl |-> VisitTypedefNameDeclChildren(d),
     UsingDirectiveDecl |-> VisitUsingDirectiveDeclChildren(d),
     NamespaceDecl |-> VisitNamespaceDeclChildren(d),
     FriendDecl |-> VisitFriendDeclChildren(d),
     NamespaceAliasDecl |-> VisitNamespaceAliasDeclChildren(d),
     LinkageSpecDecl |-> VisitLinkageSpecDeclChildren(d),
     StaticAssertDecl |-> VisitStaticAssertDeclChildren(d),
     NonTypeTemplateParmDecl |-> VisitNonTypeTemplateParmDeclChildren(d),
     VarTemplateSpecializationDecl |-> VisitVarDeclChildren(d),
     UsingDecl |-> VisitUsingDeclChildren(d)]

visitDeclChildren(class, d) ==
    LET visitors == DECL_CHILDREN_VISITORS(d)
    IN  IF class \in DOMAIN visitors THEN visitors[class] ELSE VisitDeclChildren(d)

-----------------------------------------------------------------------------

DumpDeclData(d) == idsOf(d, "attr")

(* getQualifiedPrefix() throws when the qualified name does not end in the  *)
(* name.                                                                    *)
dumpQualifiedPrefix(d) == WhenIds(d, "otherQualifiedName", notDumped)

DumpNamedDeclData(d) == DumpDeclData(d) \cup dumpQualifiedPrefix(d)

DumpTypeDeclData(d) == DumpNamedDeclData(d) \cup ids(d, {"typeForDecl"})

DumpUnresolvedUsingTypenameDeclData(d) == DumpTypeDeclData(d)

DumpTagDeclData(d) == DumpTypeDeclData(d)

DumpEnumDeclData(d) == DumpTagDeclData(d) \cup ids(d, {"integerType"})

DumpRecordDeclData(d) == DumpTagDeclData(d)

(* Without a definition getDefinition() is null.                            *)
DumpCXXRecordDeclData(d) ==
    DumpRecordDeclData(d) \cup WhenIds(d, "hasDefinition", idsOf(d, "baseType") \cup ids(d, {"definition"}))

DumpClassTemplateSpecializationDeclData(d) ==
    DumpCXXRecordDeclData(d) \cup ids(d, {"specializedTemplate"}) \cup dumpArguments(d.args)

DumpClassTemplatePartialSpecializationDeclData(d) == DumpClassTemplateSpecializationDeclData(d)

DumpValueDeclData(d) == DumpNamedDeclData(d) \cup ids(d, {"type"})

DumpDeclaratorDeclData(d) == DumpValueDeclData(d)

DumpFieldDeclData(d) == DumpDeclaratorDeclData(d)

DumpFunctionDeclData(d) ==
    DumpDeclaratorDeclData(d)
        \cup ids(d, {"previousDecl", "canonicalDecl", "primaryTemplatedDecl"})
        \cup WhenIds(d, "hasTemplateSpecializationArgs", dumpArguments(d.args))

DumpCXXMethodDeclData(d) ==
    DumpFunctionDeclData(d)
        \cup ids(d, {"parent"})
        \cup idsOf(d, "overriddenMethod")
        \cup WhenIds(d, "isInstance", ids(d, {"thisType", "functionObjectParameterType"}))

dumpCtorInitializer(init) ==
    ids(init, {"init"})
        \cup WhenIds(init, "AnyMemberInitializer", ids(init, {"anyMember"}))
        \cup WhenIds(init, "BaseInitializer", ids(init, {"baseClass"}))
        \cup WhenIds(init, "DelegatingInitializer", ids(init, {"typeSourceInfoType"}))
        \cup (IF init.is \cap CtorInitializers = {} THEN notDumped ELSE {})

DumpCXXConstructorDeclData(d) ==
    DumpCXXMethodDeclData(d)
        \cup (UNION {dumpCtorInitializer(d.parts[i]) : i \in DOMAIN d.parts})
        \cup ids(d, {"explicitSpecifierExpr"})

DumpCXXConversionDeclData(d) == DumpCXXMethodDeclData(d) \cup ids(d, {"conversionType"})

DumpVarDeclData(d) == DumpValueDeclData(d)

DumpParmVarDeclData(d) == DumpVarDeclData(d)

DumpTemplateTypeParmDeclData(d) ==
    DumpTypeDeclData(d) \cup WhenIds(d, "hasDefaultArgument", ids(d, {"defaultArgument"}))

DumpTypedefNameDeclData(d) == DumpTypeDeclData(d) \cup ids(d, {"underlyingType"})

DumpAccessSpecDeclData(d) == DumpDeclData(d)

dumpNestedNameSpecifier(d) ==
    IF d.is \cap SpecifierDecls # {} THEN ids(d, {"qualifierDecl"})
    ELSE IF d.is \cap SpecifierTypes # {} THEN ids(d, {"qualifierType"})
    ELSE IF "Global" \in d.is THEN {}
    ELSE notDumped

DumpUsingDeclData(d) == DumpNamedDeclData(d) \cup dumpNestedNameSpecifier(d)

DumpUsingDirectiveDeclData(d) ==
    DumpNamedDeclData(d) \cup ids(d, {"nominatedNamespace", "nominatedNamespaceAsWritten"})

DumpNamespaceDeclData(d) == DumpNamedDeclData(d)

DumpNamespaceAliasDeclData(d) == DumpNamedDeclData(d) \cup ids(d, {"aliasedNamespace"})

LinkageLanguages == {"C", "CXX"}

dumpLinkageLanguage(d) == IF d.is \cap LinkageLanguages = {} THEN notDumped ELSE {}

DumpLinkageSpecDeclData(d) == DumpDeclData(d) \cup dumpLinkageLanguage(d)

DumpStaticAssertDeclData(d) == DumpDeclData(d)

DumpTemplateDeclData(d) == DumpNamedDeclData(d) \cup idsOf(d, "templateParameter") \cup ids(d, {"templatedDecl"})

DumpTemplateTemplateParmDeclData(d) ==
    DumpTemplateDeclData(d) \cup WhenIds(d, "hasDefaultArgument", dumpArguments(d.args))

DumpNonTypeTemplateParmDeclData(d) ==
    DumpDeclaratorDeclData(d)
        \cup WhenIds(d, "hasDefaultArgument", ids(d, {"defaultArgument"}))
        \cup WhenIds(d, "isExpandedParameterPack", idsOf(d, "expansionType"))

DumpMSPropertyDeclData(d) == DumpDeclaratorDeclData(d)

DECL_DATA_DUMPERS(d) ==
    [CXXConstructorDecl |-> DumpCXXConstructorDeclData(d),
     CXXConversionDecl |-> DumpCXXConversionDeclData(d),
     CXXDestructorDecl |-> DumpCXXMethodDeclData(d),
     CXXMethodDecl |-> DumpCXXMethodDeclData(d),
     FieldDecl |-> DumpFieldDeclData(d),
     FunctionDecl |-> DumpFunctionDeclData(d),
     ObjCImplementationDecl |-> DumpNamedDeclData(d),
     ParmVarDecl |-> DumpParmVarDeclData(d),
     ClassTemplateDecl |-> DumpTemplateDeclData(d),
     FunctionTemplateDecl |-> DumpTemplateDeclData(d),
     TypeAliasTemplateDecl |-> DumpTemplateDeclData(d),
     VarTemplateDecl |-> DumpTemplateDeclData(d),
     TemplateTypeParmDecl |-> DumpTemplateTypeParmDeclData(d),
     TypeDecl |-> DumpTypeDeclData(d),
     UnresolvedUsingTypenameDecl |-> DumpUnresolvedUsingTypenameDeclData(d),
     EnumDecl |-> DumpEnumDeclData(d),
     RecordDecl |-> DumpRecordDeclData(d),
     CXXRecordDecl |-> DumpCXXRecordDeclData(d),
     ClassTemplateSpecializationDecl |-> DumpClassTemplateSpecializationDeclData(d),
     ClassTemplatePartialSpecializationDecl |-> DumpClassTemplatePartialSpecializationDeclData(d),
     VarDecl |-> DumpVarDeclData(d),
     EnumConstantDecl |-> DumpValueDeclData(d),
     NonTypeTemplateParmDecl |-> DumpNonTypeTemplateParmDeclData(d),
     UsingShadowDecl |-> DumpNamedDeclData(d),
     TypeAliasDecl |-> DumpTypedefNameDeclData(d),
     TypedefDecl |-> DumpTypedefNameDeclData(d),
     AccessSpecDecl |-> DumpAccessSpecDeclData(d),
     UsingDirectiveDecl |-> DumpUsingDirectiveDeclData(d),
     NamespaceDecl |-> DumpNamespaceDeclData(d),
     NamespaceAliasDecl |-> DumpNamespaceAliasDeclData(d),
     LinkageSpecDecl |-> DumpLinkageSpecDeclData(d),
     LabelDecl |-> DumpNamedDeclData(d),
     StaticAssertDecl |-> DumpStaticAssertDeclData(d),
     TemplateTemplateParmDecl |-> DumpTemplateTemplateParmDeclData(d),
     MSPropertyDecl |-> DumpMSPropertyDeclData(d),
     UsingDecl |-> DumpUsingDeclData(d),
     VarTemplateSpecializationDecl |-> DumpVarDeclData(d)]

dumpDeclData(class, d) ==
    LET dumpers == DECL_DATA_DUMPERS(d)
    IN  IF class \in DOMAIN dumpers THEN dumpers[class] ELSE DumpDeclData(d)

=============================================================================
