------------------------- MODULE TemplateArguments -------------------------
(***************************************************************************)
(* Template arguments and template names: which nodes the children         *)
(* handlers visit for them (ClangAstDumper.cpp), and which ids the data    *)
(* dumpers write for them (ClangNodes.cpp).                                *)
(*                                                                         *)
(* The code recurses over packs and substituted names.  Clang nests no     *)
(* pack in a pack, so a pack is the sequence of its arguments; and a name  *)
(* is given by the template template parameters it was substituted for,    *)
(* outermost first, and the name that is reached after the last of them.   *)
(***************************************************************************)
EXTENDS Handlers

(* [kind |-> k, node |-> n] for the kinds that refer to a node,             *)
(* [kind |-> "NullPtr", node |-> qualified type, typePtr |-> type],         *)
(* [kind |-> "Integral"],                                                   *)
(* [kind |-> k, name |-> template name] for templates and expansions,       *)
(* [kind |-> "Pack", elements |-> <<argument, ...>>]; and, for names,       *)
(* [substitutedFor |-> <<parameter, ...>>, kind |-> k, node |-> n].         *)

NodeArguments == {"Type", "Expression", "Declaration", "StructuralValue"}
NameArguments == {"Template", "TemplateExpansion"}
DeclNames == {"Template", "QualifiedTemplate", "UsingTemplate"}

visitNode(n) == Call("visitTop", n)

visitReachedName(name) ==
    CASE name.kind \in DeclNames -> visitNode(name.node)
      [] name.kind = "DependentTemplate" -> <<>>
      [] OTHER -> notImplemented

VisitTemplateName(name) ==
    [i \in DOMAIN name.substitutedFor |-> [op |-> "visitTop", to |-> name.substitutedFor[i]]]
        \o visitReachedName(name)

(* Of the type of a null pointer the qualifiers are stripped.               *)
visitPlainArgument(arg) ==
    CASE arg.kind \in NodeArguments -> visitNode(arg.node)
      [] arg.kind = "NullPtr" -> visitNode(arg.typePtr)
      [] arg.kind = "Integral" -> <<>>
      [] arg.kind \in NameArguments -> VisitTemplateName(arg.name)
      [] OTHER -> notImplemented

visitPack(elements) == FlattenSeq([i \in DOMAIN elements |-> visitPlainArgument(elements[i])])

(* Non-expanding visitors ignore packs.                                     *)
VisitTemplateArgument(arg) == IF arg.kind = "Pack" THEN <<>> ELSE visitPlainArgument(arg)

VisitTemplateArgChildren(arg) ==
    IF arg.kind = "Pack" THEN visitPack(arg.elements) ELSE visitPlainArgument(arg)

(* The loops over the arguments of a node.                                  *)
visitArguments(args) == FlattenSeq([i \in DOMAIN args |-> VisitTemplateArgument(args[i])])
visitArgumentsExpanded(args) == FlattenSeq([i \in DOMAIN args |-> VisitTemplateArgChildren(args[i])])

dumpReachedName(name) ==
    CASE name.kind \in DeclNames -> {name.node}
      [] name.kind = "DependentTemplate" -> {}
      [] OTHER -> notDumped

dumpTemplateName(name) == Range(name.substitutedFor) \cup dumpReachedName(name)

dumpPlainArgument(arg) ==
    CASE arg.kind \in NodeArguments \cup {"NullPtr"} -> {arg.node}
      [] arg.kind = "Integral" -> {}
      [] arg.kind \in NameArguments -> dumpTemplateName(arg.name)
      [] OTHER -> notDumped

dumpTemplateArgument(arg) ==
    IF arg.kind = "Pack"
    THEN UNION {dumpPlainArgument(arg.elements[i]) : i \in DOMAIN arg.elements}
    ELSE dumpPlainArgument(arg)

dumpArguments(args) == UNION {dumpTemplateArgument(args[i]) : i \in DOMAIN args}

=============================================================================
