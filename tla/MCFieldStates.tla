--------------------------- MODULE MCFieldStates ---------------------------
(***************************************************************************)
(* Instance of FieldStates for TLC: three fields of one type and one of     *)
(* another type.                                                           *)
(***************************************************************************)
EXTENDS FieldStates

MCFieldNames == <<"a", "k", "b", "c">>

MCType == [f \in {"a", "b", "c", "k"} |-> IF f = "k" THEN "keys" ELSE "real"]
=============================================================================
