-------------------------------- MODULE Calls --------------------------------
(***************************************************************************)
(* The calls a children handler makes while the traversal is at a node.    *)
(***************************************************************************)

CONSTANTS
    Nodes,       \* the Clang nodes of the translation unit, of every kind
    Null         \* the null pointer; its id is a sentinel such as "nullptr_decl"

ASSUME NullAssumption == Null \notin Nodes

Ids == Nodes \cup {Null}

DirectVisits == {"visitTop", "requiredChild"}
Listings == {"addChild", "requiredChild"}

(* "addChild"       a structural child: visited and listed, unless the      *)
(*                  traversal is past the system header threshold;          *)
(* "visitTop"       a direct visit (Visit{Decl,Stmt,Type,Attr}Top) of a     *)
(*                  referenced node: always made, never listed;             *)
(* "requiredChild"  a direct visit whose id is listed all the same (the     *)
(*                  alignment expression of an AlignedAttr);                *)
(* "throw"          the handler meets a case it does not implement.         *)
Visits == [op : {"addChild", "visitTop", "requiredChild", "throw"}, to : Ids]

=============================================================================
