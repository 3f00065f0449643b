------------------------ MODULE MCCapturePublication -----------------------
(***************************************************************************)
(* Small instances of CapturePublication.                                  *)
(***************************************************************************)
EXTENDS CapturePublication, TLC

Symmetry == Permutations(Threads)

=============================================================================
