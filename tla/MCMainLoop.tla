----------------------------- MODULE MCMainLoop -----------------------------
(* Instances of MainLoop for TLC *)
EXTENDS MainLoop

\* two ranks with three groups each, so that there are up to three rungs; one or two groups
\* of rank a and one of rank b change their rung
MCRank == {"a", "b"}
MCGroups == [r \in MCRank |-> IF r = "a" THEN <<1, 2, 3>> ELSE <<4, 5, 6>>]
MCVarying == {1, 2, 4}
=============================================================================
