------------------------------ MODULE Handlers ------------------------------
(***************************************************************************)
(* The vocabulary of the class handlers.  A node of some class is          *)
(* described by what its handlers ask of it:                               *)
(*   is        the questions answered yes (hasBody, isTypeOperand, ...)    *)
(*             and the kinds selected (TypeSpec, EST_Unevaluated, ...);    *)
(*   one       what each getter of a pointer returns, a node or Null;      *)
(*   each      what each getter of a list returns, in order;               *)
(*   implicit  the listed declarations that are not in the source code;    *)
(*   args      the template arguments it is given, see TemplateArguments;  *)
(*   parts     descriptions of the parts that are no nodes of their own:   *)
(*             constructor initializers, components of an offsetof,        *)
(*             designators.                                                *)
(*                                                                         *)
(* A children handler is the sequence of calls it makes on such a node, a  *)
(* data dumper the set of ids it writes.                                   *)
(***************************************************************************)
EXTENDS Calls, SequencesExt

ListGetters ==
    {"attr", "baseType", "decl", "exceptionType", "expansionType", "handler", "overload",
     "overriddenMethod", "paramType", "parameter", "subStmt", "templateParameter"}

Call(op, p) == <<[op |-> op, to |-> p]>>

(* addChild(), Visit*Top() and the listed visit of VisitAlignedAttr.        *)
addChild(d, f) == Call("addChild", d.one[f])
visitTop(d, f) == Call("visitTop", d.one[f])
requiredChild(d, f) == Call("requiredChild", d.one[f])

(* Visit*Top() below a null check, and the calls of a loop over a list.     *)
visitIfPresent(d, f) == IF d.one[f] = Null THEN <<>> ELSE visitTop(d, f)
addEach(d, f) == [i \in DOMAIN d.each[f] |-> [op |-> "addChild", to |-> d.each[f][i]]]
visitEach(d, f) == [i \in DOMAIN d.each[f] |-> [op |-> "visitTop", to |-> d.each[f][i]]]

(* throw std::invalid_argument(...), in a children handler and in a data    *)
(* dumper.                                                                  *)
notImplemented == Call("throw", Null)
notDumped == {"not implemented"}

When(d, question, calls) == IF question \in d.is THEN calls ELSE <<>>

(* getId() of each of the pointers, and of each element of a list.          *)
ids(d, fields) == {d.one[f] : f \in fields}
idsOf(d, f) == Range(d.each[f])

WhenIds(d, question, written) == IF question \in d.is THEN written ELSE {}

=============================================================================
