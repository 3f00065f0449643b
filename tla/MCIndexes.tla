------------------------------ MODULE MCIndexes ------------------------------
(***************************************************************************)
(* What is derived from the pages of the books, each on a small instance:  *)
(* the vector index of ChunkIndex, the full-text index of PageFtsIndex and *)
(* the generated content of BookContent.  They share no state, so a        *)
(* behaviour moves the one that `focus` names and the others rest in their *)
(* first states.                                                           *)
(***************************************************************************)
EXTENDS ChunkIndex, PageFtsIndex, BookContent, TLC

VARIABLE focus

indexesVars == <<vars, ftsVars, contentVars, focus>>

IndexesInit ==
    /\ focus \in {"vector", "full text", "content"}
    /\ Init
    /\ FtsInit /\ (focus # "full text" => \A p \in FtsPages : canon[p] = NotEligible)
    /\ ContentInit

IndexesNext ==
    \/ focus = "vector" /\ Next /\ UNCHANGED <<ftsVars, contentVars, focus>>
    \/ focus = "full text" /\ FtsNext /\ UNCHANGED <<vars, contentVars, focus>>
    \/ focus = "content" /\ ContentNext /\ UNCHANGED <<vars, ftsVars, focus>>

IndexesSpec == IndexesInit /\ [][IndexesNext]_indexesVars

\* The indexes and the generated content keep their types.
IndexesTypeOK == TypeOK /\ FtsTypeOK /\ ContentTypeOK

\* Both indexes agree with the pages they were built from, each for what its
\* readers rely on (StoresAgree, FtsAgrees).
IndexesAgree == StoresAgree /\ FtsAgrees

Symmetry == Permutations(Books)
=============================================================================
