------------------------------- MODULE MCPlugin -------------------------------
(***************************************************************************)
(* cc1 invocations for Plugin: up to two plugin arguments, of which one    *)
(* may be malformed or of another plugin, and up to two files.             *)
(***************************************************************************)
EXTENDS Plugin, SequencesExt

CONSTANTS stmt, type   \* a statement class and a type class without handler

MCFallbacks == {stmt, type}

MCArguments ==
    [option : Options, ok : {TRUE}, value : {3, 4}]
    \cup [option : Options \cup {"other"}, ok : {FALSE}, value : {0}]

MCFiles ==
    [opened : {FALSE}, classes : {<<>>}, ends : {"complete"}]
    \cup [opened : {TRUE},
          classes : {<<>>, <<stmt>>, <<type, stmt>>},
          ends : {"complete", "errors", "thrown"}]

MCInvocations ==
    [arguments : SeqOf(MCArguments, 2), coverage : BOOLEAN, disableFree : BOOLEAN,
     files : SeqOf(MCFiles, 2) \ {<<>>}]

=============================================================================
