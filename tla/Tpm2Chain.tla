----------------------------- MODULE Tpm2Chain ------------------------------
(***************************************************************************)
(* The command chain: tpm2_process_command validates the header of the     *)
(* command in command_buffer, checks the mode, unmarshals the parameters   *)
(* and calls the handler of the command (Tpm2Commands).                    *)
(*                                                                         *)
(* A command is a record: tag, code and size of its header, and for each   *)
(* parameter what its bytes say.  The parameters are there whether or not  *)
(* size is large enough to cover them; Unmarshal_* finds out.              *)
(***************************************************************************)
EXTENDS Tpm2Commands

CONSTANT
  Command               \* inputs: the commands a guest sends

HEADER_SIZE == 10

\* The parameters a command has, by its code: its sizes are unsigned numbers.
ASSUME CommandAssumption ==
  \A c \in Command :
    /\ c.size \in Nat
    /\ c.code = "TPM_CC_GetRandom" => c.bytesRequested \in DataSize
    /\ c.code = "TPM_CC_CreatePrimary" =>
         /\ c.primaryHandle \in Handle /\ c.ecc \in BOOLEAN
         /\ c.inSensitiveSize \in Nat /\ c.userAuthSize \in Nat
         /\ c.dataSize \in Nat /\ c.inPublicSize \in Nat
    /\ c.code = "TPM_CC_NV_DefineSpace" =>
         /\ c.authHandle \in Handle /\ c.nvIndex \in NvIndex
         /\ c.attributes \in Attributes /\ c.dataSize \in DataSize
         /\ c.authSize \in Nat /\ c.authPolicySize \in Nat
    /\ c.code = "TPM_CC_NV_Write" =>
         /\ c.authHandle \in Handle /\ c.nvIndex \in NvIndex
         /\ c.data \in Buffer /\ c.offset \in Offset /\ c.authSize \in Nat
    /\ c.code = "TPM_CC_NV_Read" =>
         /\ c.nvIndex \in NvIndex /\ c.sizeToRead \in DataSize
         /\ c.offset \in Offset /\ c.authSize \in Nat

-----------------------------------------------------------------------------
Implemented == {"TPM_CC_GetRandom", "TPM_CC_CreatePrimary",
                "TPM_CC_NV_DefineSpace", "TPM_CC_NV_Write", "TPM_CC_NV_Read"}

\* Any other code in TPM_CC_FIRST .. TPM_CC_LAST, or a vendor command.
is_valid_cc_command(code) == code \in Implemented \cup {"TPM_CC_GetTestResult"}

TPM2_ValidateCommandHeader(c, bufSize) ==
  <<Fail(bufSize < HEADER_SIZE, "TPM_RC_COMMAND_SIZE"),
    Fail(c.tag \notin {"TPM_ST_NO_SESSIONS", "TPM_ST_SESSIONS"}, "TPM_RC_BAD_TAG"),
    Fail(c.size < HEADER_SIZE \/ c.size # bufSize, "TPM_RC_COMMAND_SIZE"),
    Fail(~is_valid_cc_command(c.code), "TPM_RC_COMMAND_CODE")>>

\* tpm_mode is TPM_MODE_NORMAL from the creation of the device on: nothing
\* assigns it.
tpm_mode == "TPM_MODE_NORMAL"

TPM2_ValidateMode(c) ==
  <<Fail(/\ tpm_mode = "TPM_MODE_FAILURE"
         /\ ~(/\ c.code \in {"TPM_CC_GetTestResult", "TPM_CC_GetCapability"}
              /\ c.tag = "TPM_ST_NO_SESSIONS"), "TPM_RC_FAILURE"),
    Fail(tpm_mode = "TPM_MODE_FIELD" /\ c.code # "TPM_CC_FieldUpgradeData",
         "TPM_RC_UPGRADE"),
    Fail(tpm_mode = "TPM_MODE_NOINIT" /\ c.code # "TPM_CC_Startup",
         "TPM_RC_INITIALIZE")>>

-----------------------------------------------------------------------------
(***************************************************************************)
(* Unmarshalling.  Need(bodySize, n) is the check made before the bytes up *)
(* to the n-th of the body are read.                                       *)
(***************************************************************************)
Need(bodySize, n) == Fail(bodySize < n, "TPM_RC_INSUFFICIENT")

\* A TPM2B of the given size whose size field is at offset.
Unmarshal_TPM2B(bodySize, offset, size, max) ==
  <<Need(bodySize, offset + 2), Fail(size > max, "TPM_RC_SIZE"),
    Need(bodySize, offset + 2 + size)>>

Unmarshal_GetRandom(c, bodySize) == <<Need(bodySize, 2)>>

\* The offset of the inPublicSize field: inSensitive may be empty.
inPublicAt(c) ==
  IF c.inSensitiveSize > 0 THEN 10 + c.userAuthSize + c.dataSize ELSE 6

Unmarshal_CreatePrimary(c, bodySize) ==
  <<Need(bodySize, 4), Need(bodySize, 6)>>
  \o (IF c.inSensitiveSize > 0
        THEN Unmarshal_TPM2B(bodySize, 6, c.userAuthSize, 64)
             \o Unmarshal_TPM2B(bodySize, 8 + c.userAuthSize, c.dataSize, 256)
        ELSE <<>>)
  \o <<Need(bodySize, inPublicAt(c) + 2),
       Need(bodySize, inPublicAt(c) + 2 + c.inPublicSize)>>

Unmarshal_NV_DefineSpace(c, bodySize) ==
  LET at == 6 + c.authSize
  IN <<Need(bodySize, 4)>>
     \o Unmarshal_TPM2B(bodySize, 4, c.authSize, 64)
     \o <<Need(bodySize, at + 2), Need(bodySize, at + 6),
          Need(bodySize, at + 8), Need(bodySize, at + 12)>>
     \o Unmarshal_TPM2B(bodySize, at + 12, c.authPolicySize, 64)
     \o <<Need(bodySize, at + 16 + c.authPolicySize)>>

\* An NV_Write whose offset may be missing.
Unmarshal_NV_Write_no_offset(c, bodySize) ==
  <<Need(bodySize, 4), Need(bodySize, 8), Need(bodySize, 10),
    Fail(c.authSize # 0, "TPM_RC_VALUE")>>
  \o Unmarshal_TPM2B(bodySize, 10, c.data.size, MAX_NV_BUFFER_SIZE)

Unmarshal_NV_Write(c, bodySize) ==
  <<Need(bodySize, 4), Need(bodySize, 8), Need(bodySize, 10),
    Fail(c.authSize # 0, "TPM_RC_VALUE")>>
  \o Unmarshal_TPM2B(bodySize, 10, c.data.size, MAX_NV_BUFFER_SIZE)
  \o <<Need(bodySize, 14 + c.data.size)>>

Unmarshal_NV_Read(c, bodySize) ==
  <<Need(bodySize, 4), Need(bodySize, 8), Need(bodySize, 10),
    Fail(c.authSize # 0, "TPM_RC_VALUE"),
    Need(bodySize, 12), Need(bodySize, 14)>>

Unmarshal(c, bodySize) ==
  CASE c.code = "TPM_CC_GetRandom"      -> Unmarshal_GetRandom(c, bodySize)
    [] c.code = "TPM_CC_CreatePrimary"  -> Unmarshal_CreatePrimary(c, bodySize)
    [] c.code = "TPM_CC_NV_DefineSpace" -> Unmarshal_NV_DefineSpace(c, bodySize)
    [] c.code = "TPM_CC_NV_Write"       -> Unmarshal_NV_Write(c, bodySize)
    [] c.code = "TPM_CC_NV_Read"        -> Unmarshal_NV_Read(c, bodySize)
    [] OTHER                            -> <<"TPM_RC_COMMAND_CODE">>

-----------------------------------------------------------------------------
VARIABLE command        \* the command in command_buffer

chainVars == <<vars, command>>

\* Everything that is refused before a handler acts.
ChainChecks(c) ==
  TPM2_ValidateCommandHeader(c, c.size) \o TPM2_ValidateMode(c)
  \o Unmarshal(c, c.size - HEADER_SIZE)

\* The type of the public area is read from the two bytes behind inPublicSize
\* even when inPublic is shorter: c.ecc is what these bytes say as long as
\* they belong to the command, else they are whatever command_buffer holds.
TypeIsEcc(c) ==
  IF c.size >= HEADER_SIZE + inPublicAt(c) + 4 THEN {c.ecc} ELSE BOOLEAN

MAX_SYM_DATA == 128

\* handle_CreatePrimary copies dataSize bytes, of which Unmarshal_CreatePrimary
\* lets pass more than inSensitive has room for.
\* BOUND: copies of more than MAX_SYM_DATA bytes are left out.
\* Without an inSensitive nothing assigns userAuthSize and dataSize of params,
\* which are read all the same: the build fills local variables with zero
\* (-ftrivial-auto-var-init=zero in meson.build), so nothing is copied.
CopiesFit(c) == c.inSensitiveSize > 0 => c.dataSize <= MAX_SYM_DATA

\* The handler behind the unmarshalling.
Dispatch(c) ==
  \/ /\ c.code = "TPM_CC_GetRandom"
     /\ handle_GetRandom(c.bytesRequested)
  \/ /\ c.code = "TPM_CC_CreatePrimary" /\ CopiesFit(c)
     /\ \E ecc \in TypeIsEcc(c) : handle_CreatePrimary(c.primaryHandle, ecc)
  \/ /\ c.code = "TPM_CC_NV_DefineSpace"
     /\ handle_NV_DefineSpace(c.authHandle, c.nvIndex, c.attributes, c.dataSize)
  \/ /\ c.code = "TPM_CC_NV_Write"
     /\ handle_NV_Write(c.authHandle, c.nvIndex, c.data, c.offset)
  \/ /\ c.code = "TPM_CC_NV_Read"
     /\ handle_NV_Read(c.nvIndex, c.sizeToRead, c.offset)

\* A chain that takes the transient handle before it validates the command.
tpm2_process_command_early(c) ==
  \/ /\ Passes(ChainChecks(c))
     /\ Dispatch(c)
  \/ /\ ~Passes(ChainChecks(c))
     /\ rsp' = ErrorResponse(FirstFailure(ChainChecks(c)))
     /\ next_transient_handle' = (next_transient_handle + 1) % HandleSpace
     /\ UNCHANGED <<nvState, primary>>

tpm2_process_command(c) ==
  \/ /\ Passes(ChainChecks(c))
     /\ Dispatch(c)
  \/ /\ ~Passes(ChainChecks(c))
     /\ rsp' = ErrorResponse(FirstFailure(ChainChecks(c)))
     /\ UNCHANGED <<nvState, primary, next_transient_handle>>

ChainInit == Init /\ command \in Command

\* The guest sends any command; tpm2_mmio_write cut it to its announced size.
ChainNext == \E c \in Command : command' = c /\ tpm2_process_command(c)

ChainSpec == ChainInit /\ [][ChainNext]_chainVars

-----------------------------------------------------------------------------
\* The length of the parameters of a command as TPM 2.0 lays them out, from
\* the sizes they announce.
BodyLength(c) ==
  CASE c.code = "TPM_CC_GetRandom" -> 2
    [] c.code = "TPM_CC_CreatePrimary" ->
         8 + c.inPublicSize + (IF c.inSensitiveSize = 0 THEN 0
                               ELSE 4 + c.userAuthSize + c.dataSize)
    [] c.code = "TPM_CC_NV_DefineSpace" -> 22 + c.authSize + c.authPolicySize
    [] c.code = "TPM_CC_NV_Write" -> 14 + c.data.size
    [] c.code = "TPM_CC_NV_Read" -> 14
    [] OTHER -> 0

\* The command is large enough for the parameters it announces.
Complete(c) == c.size >= HEADER_SIZE + BodyLength(c)

\* GetRandom and the NV commands are not carried out on parameters that were not
\* sent: after a success the command that was processed had all of its parameters
\* within its announced size, whatever the sizes inside it claim (the offset
\* arithmetic of Unmarshal_*, which stops at the first parameter that does not
\* fit).  CreatePrimary is not among them: its handler takes the type and the
\* curve of the key from behind inPublicSize, however short inPublic is.
SuccessMeansComplete ==
  rsp.code = "TPM_RC_SUCCESS" /\ command.code # "TPM_CC_CreatePrimary" =>
    Complete(command)

\* A refused command has no effect: an error response means that the NV indexes,
\* the bank, the primary key and the handle counter are as before, except that
\* a CreatePrimary whose announced sizes fit uses up a handle and, with a key type
\* other than ECC, has already wiped the old primary key (handle_CreatePrimary,
\* tpm2_CreatePrimary).
RefusedHasNoEffect ==
  [][rsp'.code # "TPM_RC_SUCCESS" =>
       /\ UNCHANGED nvState
       /\ \/ UNCHANGED <<primary, next_transient_handle>>
          \/ /\ command'.code = "TPM_CC_CreatePrimary" /\ Complete(command')
             /\ primary' \in {primary, NoKey}]_chainVars
=============================================================================
