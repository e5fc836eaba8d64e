---------------------------- MODULE MCDraftSend ----------------------------
(* Small instances of DraftSend for TLC. *)
EXTENDS DraftSend

\* Texts are only compared; the environment offers each of them alike.
TextSymmetry == Permutations(Texts)
=============================================================================
