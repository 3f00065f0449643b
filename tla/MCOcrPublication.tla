------------------------- MODULE MCOcrPublication --------------------------
(***************************************************************************)
(* Small instances of OcrPublication.                                      *)
(***************************************************************************)
EXTENDS OcrPublication, TLC

Narrative == [ok |-> TRUE, empty |-> FALSE, hint |-> "narrative"]
Unclear == [ok |-> TRUE, empty |-> FALSE, hint |-> "unknown"]
Failed == [ok |-> FALSE, empty |-> TRUE, hint |-> "narrative"]

OneOutcome == {Unclear}
AnyOutcome == {Narrative, Unclear, Failed}

\* A request to approve or reject a page as it is, with another text or as
\* another type.
Accept(type) == [qa |-> "approved", type |-> type, engine |-> "primary", corrected |-> NoText]
Correct(text) == [qa |-> "approved", type |-> "narrative", engine |-> "codex", corrected |-> text]
Reject(type) == [qa |-> "rejected", type |-> type, engine |-> "primary", corrected |-> NoText]

FewRequests == {Accept("narrative"), Accept("other")}
AnyRequest ==
    {Accept(t) : t \in Types} \cup {Reject(t) : t \in Types}
    \cup {Correct(e) : e \in Edits \cup {NoText}}

Symmetry == Permutations(Workers) \cup Permutations(Runs)

=============================================================================
