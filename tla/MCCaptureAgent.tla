--------------------------- MODULE MCCaptureAgent --------------------------
(***************************************************************************)
(* Small instances of CaptureAgent.                                        *)
(***************************************************************************)
EXTENDS CaptureAgent, TLC

Symmetry == Permutations(Jobs) \cup Permutations(Agents)

=============================================================================
