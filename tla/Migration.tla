----------------------------- MODULE Migration ------------------------------
(***************************************************************************)
(* The machine of Firmware when it is migrated between any two register    *)
(* accesses, to a file or to another QEMU.  The destination realizes a new *)
(* TPM device, resets it, and loads the stream: the RAM blocks, the NV     *)
(* bank among them (memory_region_init_ram registers it), and the fields   *)
(* that vmstate_tpm2 names, none of which a command looks at.  The guest   *)
(* does not notice: the firmware goes on where it was.                     *)
(***************************************************************************)
EXTENDS Firmware

\* A destination that takes the state of the window from the stream, and its
\* buffers not.
MigrateState ==
  /\ inq' = <<>> /\ outq' = <<>>
  /\ nv_map' = [i \in {TEST_INDEX} |-> Entry(TestAttrs, TEST_SIZE, 0)]
  /\ nv_count' = 1 /\ nv_alloc_offset' = AES_BLOCK + TEST_SIZE /\ nv_dirty' = TRUE
  /\ primary' = "TPM_RH_OWNER" /\ next_transient_handle' = 1
  /\ live' = {}
  /\ UNCHANGED <<mode, rdata, nv_bank, rsp, command, firmwareVars>>

\* tpm2_realize and tpm2_reset at the destination, then the stream: of the
\* state of the TPM it brings the bytes of the bank only.  The history starts
\* anew.
Migrate ==
  /\ F!Reset
  /\ nv_map' = [i \in {TEST_INDEX} |-> Entry(TestAttrs, TEST_SIZE, 0)]
  /\ nv_count' = 1 /\ nv_alloc_offset' = AES_BLOCK + TEST_SIZE /\ nv_dirty' = TRUE
  /\ primary' = "TPM_RH_OWNER" /\ next_transient_handle' = 1
  /\ live' = {}
  /\ UNCHANGED <<nv_bank, rsp, command, firmwareVars>>

MigrationNext == FirmwareNext \/ Migrate

\* As in Firmware, the CPU keeps running the firmware.
MigrationSpec ==
  FirmwareInit /\ [][MigrationNext]_allVars /\ WF_allVars(FirmwareStep)

-----------------------------------------------------------------------------
\* A command that a migration cuts in two is never carried out: when the
\* firmware writes CMD_REG the device either has every word of the command in
\* order, or it is not receiving and ignores the write (the state, the size and
\* the buffer of a command are not in vmstate_tpm2, so they start at zero).
WholeOrIgnored ==
  pc = "cmd" =>
    \/ /\ mode = "RECEIVING"
       /\ inq = [k \in 1 .. (F!Padded(Menu[c].len) \div 4) |-> CommandWord(c, k - 1)]
    \/ mode = "IDLE" /\ inq = <<>>

\* What the firmware prints after a migration in the middle of an answer is the
\* beginning of that answer and zeros after it.  Zeros take the place of the
\* header, whose three words tpm_read_response reads without looking at the
\* state, or of the last word shown, which was read after the state was: never
\* of more, and bytes of two answers never come together.
AnswerPrefix ==
  pc = "show" /\ resp_size > 0 =>
    \E n \in 0 .. resp_size :
      /\ resp_size <= 12 \/ resp_size - n <= 4
      /\ \A i \in 0 .. ((resp_size - 1) \div 2) :
           got[(i \div 2) + 1][(i % 2) + 1] = IF 2 * i < n THEN <<rsp, i>> ELSE F!Stale
=============================================================================
