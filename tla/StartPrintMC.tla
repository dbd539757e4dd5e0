--------------------------- MODULE StartPrintMC ---------------------------
(***************************************************************************)
(* StartPrint with a file that may be sliced for either of two slots of    *)
(* the material station, for the spool holder, or for a tool that has no   *)
(* slot, or nothing to show, yet.                                          *)
(***************************************************************************)
EXTENDS StartPrint, TLC

Tool(slot, shown) == [tool |-> 0, slot |-> slot, shown |-> shown]

MCTools == {Tool(1, TRUE), Tool(2, TRUE), Tool(None, TRUE), Tool(2, FALSE)}

MCSlicings == [station : {TRUE}, tools : {{Tool(1, TRUE)}, {Tool(2, TRUE), Tool(None, TRUE)}}]

ClientsAreAlike == Permutations(Clients)
=============================================================================
