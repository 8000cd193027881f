---------------------------- MODULE MCTpm2Chain -----------------------------
(***************************************************************************)
(* Blocks of one byte and a bank that two indexes fill.  The commands:     *)
(* for each handler an input for every outcome of its checks; and one of   *)
(* each kind announced with sizes that end in its header, between two      *)
(* parameters and inside the last one, and with sizes inside it that are   *)
(* empty, fit or exceed their limit.                                       *)
(***************************************************************************)
EXTENDS Tpm2Chain, TLC

CONSTANTS i2, i3

MCNvIndex == {0, TEST_INDEX, i2, i3}

Symmetry == Permutations({i2, i3})

\* No step depends on the last command or on its response, and the two
\* invariants that look at these are parts of the view themselves.
View == <<nvState, primary, next_transient_handle, ResponseFits, SuccessMeansComplete>>

A(t, b) == [nvType |-> t, bits |-> b]

Plain == {"ownerRead", "ownerWrite"}

Ordinary == A(TPM_NT_ORDINARY, Plain)

MCAttributes == {
  Ordinary,
  A(TPM_NT_ORDINARY, Plain \cup {"writeAll", "platformCreate", "policyDelete"}),
  A(TPM_NT_COUNTER, Plain),
  A(TPM_NT_EXTEND, Plain \cup {"written"}) }

B(s) == [size |-> Len(s), buffer |-> [i \in 0 .. (Len(s) - 1) |-> s[i + 1]]]

MCBuffer == {B(<<>>), B(<<"a">>), B(<<"b", "a">>), B(<<"a", "a", "a", "a">>)}

-----------------------------------------------------------------------------
GetRandoms ==
  [code : {"TPM_CC_GetRandom"}, bytesRequested : {1, 3},
   tag : {"TPM_ST_NO_SESSIONS"}, size : {0, 9, 11, 12}]
  \cup
  [code : {"TPM_CC_GetRandom"}, bytesRequested : {1},
   tag : {"TPM_ST_SESSIONS", "TPM_ST_NULL"}, size : {12}]

Unknowns ==
  [code : {"TPM_CC_GetTestResult", "0x00000001"}, tag : {"TPM_ST_NO_SESSIONS"},
   size : {10}]

\* The commands cs, announced with sizes that differ by d from that of all
\* of their parameters.
Announced(cs, d) ==
  {[size |-> HEADER_SIZE + BodyLength(c) - d, tag |-> "TPM_ST_NO_SESSIONS"] @@ c : c \in cs}

\* The commands cs cut short: without parameters, behind the first one, and in
\* the last one.
Cut(cs) ==
  {[size |-> n, tag |-> "TPM_ST_NO_SESSIONS"] @@ c : n \in {10, 17}, c \in cs}
  \cup Announced(cs, 1) \cup Announced(cs, 2)

CreatePrimaries(handles, sensitive, auth, public) ==
  [code : {"TPM_CC_CreatePrimary"}, primaryHandle : handles, inSensitiveSize : sensitive,
   userAuthSize : auth, dataSize : {1}, inPublicSize : public, ecc : BOOLEAN]

DefineSpaces(handles, indexes, attrs, sizes, auth, policy) ==
  [code : {"TPM_CC_NV_DefineSpace"}, authHandle : handles, authSize : auth,
   nvIndex : indexes, attributes : attrs, authPolicySize : policy, dataSize : sizes]

Writes(handles, indexes, auth, datas, offsets) ==
  [code : {"TPM_CC_NV_Write"}, authHandle : handles, nvIndex : indexes,
   authSize : auth, data : datas, offset : offsets]

Reads(indexes, auth, sizes, offsets) ==
  [code : {"TPM_CC_NV_Read"}, nvIndex : indexes, authSize : auth,
   sizeToRead : sizes, offset : offsets]

Owner == {"TPM_RH_OWNER"}

\* One of each kind for the sizes.
Samples ==
  CreatePrimaries(Owner, {0, 5}, {0}, {0, 2})
  \cup DefineSpaces(Owner, {i2, i3}, {Ordinary}, {1}, {0}, {0, 1})
  \cup Writes(Owner, {TEST_INDEX}, {0}, {B(<<"a">>)}, {0})
  \cup Reads({TEST_INDEX}, {0}, {1}, {0})

\* The inputs of the handlers, and sizes inside a command that exceed a limit.
Whole ==
  CreatePrimaries(Handle, {5}, {0, 65}, {2})
  \cup DefineSpaces(Handle, MCNvIndex, MCAttributes, DataSize, {0}, {0})
  \cup DefineSpaces(Owner, {i2, i3}, {Ordinary}, {1}, {65}, {0})
  \cup Writes(Handle, MCNvIndex, {0}, MCBuffer, Offset)
  \cup Writes(Owner, {TEST_INDEX}, {1}, {B(<<"a">>)}, {0})
  \cup Reads(MCNvIndex, {0}, DataSize, Offset)
  \cup Reads({TEST_INDEX}, {1}, {1}, {0})

MCCommand == GetRandoms \cup Unknowns \cup Cut(Samples) \cup Announced(Samples \cup Whole, 0)
=============================================================================
