--------------------------- MODULE MCTpm2Commands ---------------------------
(* The handlers alone, with as many transient handles as it takes to leave  *)
(* their range.                                                             *)
EXTENDS Tpm2Commands

MCAttributes == {[nvType |-> TPM_NT_ORDINARY, bits |-> {"ownerRead", "ownerWrite"}]}
=============================================================================
