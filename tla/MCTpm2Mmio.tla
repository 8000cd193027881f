----------------------------- MODULE MCTpm2Mmio -----------------------------
(* A 16-byte buffer, words that make every kind of size field, and         *)
(* responses that end on each position within a word.                      *)
EXTENDS Tpm2Mmio

W(h, l) == [hi |-> h, lo |-> l]

MCZeroWord == W(0, 0)

\* As word 1 of a command these announce 0, 3 and 12 bytes; as word 0 the
\* second one makes the announced size exceed 65535.
MCWord == {MCZeroWord, W(3, 1), W(12, 0)}

R(n) == [code |-> "TPM_RC_SUCCESS", size |-> n, body |-> <<>>]

MCResponse == {ErrorResponse("TPM_RC_COMMAND_SIZE"),
               ErrorResponse("TPM_RC_HANDLE"),
               R(10), R(13), R(16)}
=============================================================================
