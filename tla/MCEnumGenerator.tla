--------------------------- MODULE MCEnumGenerator ---------------------------
(***************************************************************************)
(* Two headers, one with two enums, and two versions of LLVM that differ   *)
(* in the order of one enum; another one has an alias that is left out and *)
(* an alias that is not.                                                   *)
(***************************************************************************)
EXTENDS EnumGenerator

Enumerator(name, value) == [name |-> name, value |-> value]

MCEnumsOf == [h \in {"Specifiers.h", "TypeTraits.h"} |->
                IF h = "Specifiers.h" THEN <<"Access", "Storage">> ELSE <<"UETT">>]

MCExclude == [Access |-> {}, Storage |-> {}, UETT |-> {"UETT_Last"}]

MCMapper ==
    [Access |-> [AS_public |-> "PUBLIC", AS_private |-> "PRIVATE"],
     Storage |-> [SC_None |-> "None"],
     UETT |-> [UETT_SizeOf |-> "SizeOf", UETT_AlignOf |-> "AlignOf",
               UETT_Last |-> "Last", UETT_First |-> "First"]]

UETT == <<Enumerator("UETT_SizeOf", 0), Enumerator("UETT_AlignOf", 1),
          Enumerator("UETT_Last", 1), Enumerator("UETT_First", 0)>>

MCEnumerators ==
    [v \in {17, 18} |->
        [Access |-> IF v = 17 THEN <<Enumerator("AS_public", 0), Enumerator("AS_private", 1)>>
                              ELSE <<Enumerator("AS_private", 0), Enumerator("AS_public", 1)>>,
         Storage |-> <<Enumerator("SC_None", 0)>>,
         UETT |-> UETT]]

MCHEADERS == <<"Specifiers.h", "TypeTraits.h">>

=============================================================================
