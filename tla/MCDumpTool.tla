----------------------------- MODULE MCDumpTool -----------------------------
(***************************************************************************)
(* Command lines of up to three files for DumpTool: two fallbacks, every   *)
(* way a file can begin and end, and up to two fallbacks met in a unit.    *)
(***************************************************************************)
EXTENDS DumpTool, SequencesExt

CONSTANTS stmt, type   \* a statement class and a type class without handler

MCFallbacks == {stmt, type}
(* A file that is never opened meets nothing, and its end does not matter.  *)
MCFiles ==
    [begins : {"skipped", "unreadable"}, classes : {<<>>}, ends : {"complete"}]
    \cup [begins : {"opened"},
          classes : {<<>>, <<stmt>>, <<type, stmt>>, <<type, type>>},
          ends : {"complete", "errors", "thrown"}]

MCCommandLines ==
    [valid : {FALSE}, id : {0}, threshold : {0}, coverage : BOOLEAN, files : {<<>>}]
    \cup {c \in [valid : {TRUE}, id : {0, 1}, threshold : {-1, 2}, coverage : BOOLEAN,
                  files : SeqOf(MCFiles, 3) \ {<<>>}] : c.id = 0 <=> c.threshold = -1}

=============================================================================
