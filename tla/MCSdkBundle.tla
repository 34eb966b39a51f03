----------------------------- MODULE MCSdkBundle -----------------------------
(***************************************************************************)
(* Two maintainers whose bundles differ, of which one is pinned, and a     *)
(* host that sets up one of the two targets, both, or an archive that the  *)
(* bundle lacks.  The bundle has the archives of x86_64 first, setup wants *)
(* those of arm64 first.                                                   *)
(***************************************************************************)
EXTENDS SdkBundle

CONSTANTS ours, theirs   \* two publishers, and what they publish

MCContentOf == [p \in {ours, theirs} |-> p]

X86 == <<"x86-llvm", "x86-clang">>
Arm == <<"arm-llvm">>

MCArchives == X86 \o Arm

MCRequests == {Arm \o X86, X86, Arm, <<"x86-llvm", "x86-new">>}

=============================================================================
