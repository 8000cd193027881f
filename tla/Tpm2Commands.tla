---------------------------- MODULE Tpm2Commands ----------------------------
(***************************************************************************)
(* The commands of the TPM device: the handlers of tpm_hw.c, the NV        *)
(* indexes of tpm_nv.c and the primary key of tpm_crypto.c that encrypts   *)
(* them.  Each action is one handler, from its unmarshalled parameters to  *)
(* its response.                                                           *)
(*                                                                         *)
(* Bytes of the bank are symbolic.  A ciphertext byte is the tuple <<key,  *)
(* iv, i, p>>: byte i of the AES-CFB encryption under that key and that    *)
(* initialisation vector of a text that starts with p[0] .. p[i].  The     *)
(* cipher is taken to be perfect: two such bytes are equal only if these   *)
(* four agree, and decrypting with anything else gives Garbled.            *)
(***************************************************************************)
EXTENDS Naturals, Sequences, FiniteSets

CONSTANTS
  TPM2_NVSTORAGE_SIZE,  \* bytes of the NV bank (6962)
  TPM2_MAX_NV_INDEXES,  \* 16
  MAX_NV_BUFFER_SIZE,   \* 1024
  BufSize,              \* sizeof(response_buffer) (1024)
  RANDOM_SIZE,          \* sizeof(random_data) (32)
  PRIMARY_BODY,         \* bytes of the body that answers CreatePrimary (140)
  AES_BLOCK,            \* bytes of an AES block, and of an IV (16)
  HandleSpace,          \* values of next_transient_handle (2^32)
  TEST_INDEX,           \* the index tpm2_realize defines (0x1500016)
  TEST_SIZE,            \* its size (32)
  Byte, Garbled,        \* plaintext bytes, and what a wrong key decrypts to
  NvIndex,              \* inputs: nvIndex, including 0
  Attributes,           \* inputs: TPMA_NV
  DataSize,             \* inputs: dataSize, sizeToRead and bytesRequested
  Offset,               \* inputs: offset
  Buffer,               \* inputs: TPM2B_MAX_NV_BUFFER
  Handle                \* inputs: hierarchy handles, valid or not

Hierarchy == {"TPM_RH_OWNER", "TPM_RH_PLATFORM", "TPM_RH_ENDORSEMENT"}

NoKey == "no key"

ASSUME SizeAssumption ==
  /\ TPM2_NVSTORAGE_SIZE \in Nat /\ TPM2_MAX_NV_INDEXES \in Nat \ {0}
  /\ MAX_NV_BUFFER_SIZE \in Nat /\ BufSize \in Nat
  /\ RANDOM_SIZE \in Nat /\ 12 + RANDOM_SIZE <= BufSize
  /\ PRIMARY_BODY \in Nat /\ 10 + PRIMARY_BODY <= BufSize
  /\ AES_BLOCK \in Nat \ {0} /\ HandleSpace \in Nat \ {0, 1}
  /\ TEST_SIZE \in Nat /\ AES_BLOCK + TEST_SIZE <= TPM2_NVSTORAGE_SIZE

ASSUME GarbledAssumption == Garbled \notin Byte

-----------------------------------------------------------------------------
\* TPM_NT
TPM_NT_ORDINARY == 0
TPM_NT_COUNTER == 1
TPM_NT_BITS == 2
TPM_NT_EXTEND == 4
TPM_NT_PIN_FAIL == 8
TPM_NT_PIN_PASS == 9

\* TPMA_NV is its type and the set of its bits that are set.
ReadBits == {"ppRead", "ownerRead", "authRead", "policyRead"}
WriteBits == {"ppWrite", "ownerWrite", "authWrite", "policyWrite"}

AttrBit == ReadBits \cup WriteBits \cup
  {"written", "readLocked", "writeLocked", "writeAll", "platformCreate",
   "policyDelete", "clearStClear", "noDA"}

\* A buffer is a size and as many bytes, numbered from 0 as in C.
ASSUME InputAssumption ==
  /\ DataSize \subseteq Nat /\ Offset \subseteq Nat
  /\ TEST_INDEX \in NvIndex
  /\ Attributes \subseteq [nvType : Nat, bits : SUBSET AttrBit]
  /\ \A b \in Buffer : b.size \in Nat /\ b.buffer \in [0 .. (b.size - 1) -> Byte]

any_read_bit(a) == a.bits \cap ReadBits # {}

any_write_bit(a) == a.bits \cap WriteBits # {}

\* A handler's checks, in the order it makes them: each gives a response code.
Fail(condition, rc) == IF condition THEN rc ELSE "TPM_RC_SUCCESS"

Passes(checks) == \A k \in DOMAIN checks : checks[k] = "TPM_RC_SUCCESS"

FirstFailure(checks) ==
  checks[CHOOSE k \in DOMAIN checks :
           /\ checks[k] # "TPM_RC_SUCCESS"
           /\ \A j \in DOMAIN checks : checks[j] # "TPM_RC_SUCCESS" => k <= j]

ErrorResponse(rc) == [code |-> rc, size |-> 10, body |-> <<>>]

SuccessResponse(bodySize, body) ==
  [code |-> "TPM_RC_SUCCESS", size |-> 10 + bodySize, body |-> body]

-----------------------------------------------------------------------------
VARIABLES
  nv_map,                 \* nvIndex -> NVEntry, for the defined indexes
  nv_bank,                \* the bytes of the bank
  nv_count,
  nv_alloc_offset,
  nv_dirty,
  primary,                \* whose hierarchy primary_sensitive belongs to
  next_transient_handle,
  rsp,                    \* the last response
  live                    \* history: the writes not overwritten since

nvState == <<nv_map, nv_bank, nv_count, nv_alloc_offset, nv_dirty, live>>

vars == <<nvState, primary, next_transient_handle, rsp>>

Zero == <<>>

Entry(attrs, dataSize, base) ==
  [attrs |-> attrs, dataSize |-> dataSize, base |-> base,
   written |-> FALSE, readLocked |-> FALSE, writeLocked |-> FALSE]

\* The attributes of tpm2_test_definespace.
TestAttrs == [nvType |-> TPM_NT_ORDINARY,
              bits |-> {"ownerRead", "ownerWrite", "authRead", "authWrite", "noDA"}]

\* The state tpm2_realize leaves: one index defined and never written, and the
\* owner's primary key.
Init ==
  /\ nv_map = [i \in {TEST_INDEX} |-> Entry(TestAttrs, TEST_SIZE, 0)]
  /\ nv_bank = [a \in 0 .. (TPM2_NVSTORAGE_SIZE - 1) |-> Zero]
  /\ nv_count = 1
  /\ nv_alloc_offset = AES_BLOCK + TEST_SIZE
  /\ nv_dirty = TRUE
  /\ primary = "TPM_RH_OWNER"
  /\ next_transient_handle = 1
  /\ rsp = ErrorResponse("none")
  /\ live = {}

-----------------------------------------------------------------------------
(***************************************************************************)
(* TPM2_AES_CFB_Crypt.  CFB-128 turns each block of text into ciphertext   *)
(* with the encryption of its feedback block: the IV for the first block,  *)
(* the ciphertext of the block before for the others.                      *)
(***************************************************************************)
FirstBytes(buffer, n) == [x \in 0 .. (n - 1) |-> buffer[x]]

EncryptedByte(key, iv, buffer, i) == <<key, iv, i, [x \in 0 .. i |-> buffer[x]]>>

Encrypted(key, iv, buffer, n) ==
  [i \in 0 .. (n - 1) |-> EncryptedByte(key, iv, buffer, i)]

Feedback(iv, c, i) ==
  IF i < AES_BLOCK THEN iv
  ELSE [x \in 0 .. (AES_BLOCK - 1) |-> c[(i \div AES_BLOCK - 1) * AES_BLOCK + x]]

\* Byte i of ciphertext c decrypts to what was encrypted there only under the
\* same key, with the same feedback block, and at the same place in the block.
DecryptedByte(key, iv, c, i) ==
  IF /\ c[i] # Zero
     /\ c[i][1] = key
     /\ c[i][3] % AES_BLOCK = i % AES_BLOCK
     /\ Feedback(c[i][2], Encrypted(key, c[i][2], c[i][4], c[i][3]), c[i][3])
          = Feedback(iv, c, i)
  THEN c[i][4][c[i][3]] ELSE Garbled

Decrypted(key, iv, c, n) == [i \in 0 .. (n - 1) |-> DecryptedByte(key, iv, c, i)]

\* It returns no bytes without a key of a known length or without input.
CryptFails(key, n) == key = NoKey \/ n = 0

-----------------------------------------------------------------------------
NoEntry == Entry(TestAttrs, 0, 0)

Lookup(index) == IF index \in DOMAIN nv_map THEN nv_map[index] ELSE NoEntry

iv_ptr(e) == [k \in 0 .. (AES_BLOCK - 1) |-> nv_bank[e.base + k]]

\* The bank address of byte 0 of the entry's data.
data_ptr(e) == e.base + AES_BLOCK

\* The handles the NV handlers accept as authHandle.
Provision == {"TPM_RH_OWNER", "TPM_RH_PLATFORM"}

\* The checks of handle_NV_DefineSpace and tpm2_nv_define_space; the last one
\* is nv_entry_alloc's.
DefineChecks(authHandle, index, attrs, dataSize) ==
  LET has(b) == b \in attrs.bits
      type == attrs.nvType
      pin == type \in {TPM_NT_PIN_FAIL, TPM_NT_PIN_PASS}
  IN <<Fail(authHandle \notin Provision, "TPM_RC_HANDLE"),
       Fail(index = 0 \/ dataSize > TPM2_NVSTORAGE_SIZE, "TPM_RC_SIZE"),
       Fail(index \in DOMAIN nv_map, "TPM_RC_NV_DEFINED"),
       Fail(nv_count >= TPM2_MAX_NV_INDEXES, "TPM_RC_NV_SPACE"),
       Fail(has("written") \/ has("readLocked") \/ has("writeLocked"),
          "TPM_RC_ATTRIBUTES"),
       Fail(type > TPM_NT_PIN_PASS, "TPM_RC_ATTRIBUTES"),
       Fail(~any_read_bit(attrs) \/ ~any_write_bit(attrs), "TPM_RC_ATTRIBUTES"),
       Fail((authHandle = "TPM_RH_PLATFORM") # has("platformCreate"),
          "TPM_RC_ATTRIBUTES"),
       Fail(has("policyDelete") /\ authHandle # "TPM_RH_PLATFORM",
          "TPM_RC_ATTRIBUTES"),
       Fail(type = TPM_NT_COUNTER /\ has("clearStClear"), "TPM_RC_ATTRIBUTES"),
       Fail(type = TPM_NT_PIN_FAIL /\ ~has("noDA"), "TPM_RC_ATTRIBUTES"),
       Fail((pin \/ type \in {TPM_NT_COUNTER, TPM_NT_BITS}) /\ dataSize # 8,
          "TPM_RC_SIZE"),
       Fail(pin /\ (has("authWrite") \/ attrs.bits \cap WriteBits = {}),
          "TPM_RC_ATTRIBUTES"),
       Fail(type = TPM_NT_ORDINARY /\ has("writeAll")
            /\ dataSize > MAX_NV_BUFFER_SIZE, "TPM_RC_SIZE"),
       Fail(nv_alloc_offset + AES_BLOCK + dataSize > TPM2_NVSTORAGE_SIZE,
          "TPM_RC_MEMORY")>>

\* An nv_entry_alloc that forgets the IV when it advances the cursor.
nv_entry_alloc_no_iv(index, attrs, dataSize) ==
  /\ nv_map' = [i \in DOMAIN nv_map \cup {index} |->
                  IF i = index THEN Entry(attrs, dataSize, nv_alloc_offset)
                               ELSE nv_map[i]]
  /\ nv_bank' = [a \in DOMAIN nv_bank |->
                   IF /\ nv_alloc_offset <= a
                      /\ a < nv_alloc_offset + AES_BLOCK + dataSize
                   THEN Zero ELSE nv_bank[a]]
  /\ nv_alloc_offset' = nv_alloc_offset + dataSize

\* An nv_entry_alloc that zeroes from the start of the bank.
nv_entry_alloc_wipe(index, attrs, dataSize) ==
  /\ nv_map' = [i \in DOMAIN nv_map \cup {index} |->
                  IF i = index THEN Entry(attrs, dataSize, nv_alloc_offset)
                               ELSE nv_map[i]]
  /\ nv_bank' = [a \in DOMAIN nv_bank |->
                   IF a < nv_alloc_offset + AES_BLOCK + dataSize
                   THEN Zero ELSE nv_bank[a]]
  /\ nv_alloc_offset' = nv_alloc_offset + AES_BLOCK + dataSize

\* nv_entry_alloc: the next slice of the bank, zeroed; slices are never freed.
nv_entry_alloc(index, attrs, dataSize) ==
  /\ nv_map' = [i \in DOMAIN nv_map \cup {index} |->
                  IF i = index THEN Entry(attrs, dataSize, nv_alloc_offset)
                               ELSE nv_map[i]]
  /\ nv_bank' = [a \in DOMAIN nv_bank |->
                   IF /\ nv_alloc_offset <= a
                      /\ a < nv_alloc_offset + AES_BLOCK + dataSize
                   THEN Zero ELSE nv_bank[a]]
  /\ nv_alloc_offset' = nv_alloc_offset + AES_BLOCK + dataSize

handle_NV_DefineSpace(authHandle, index, attrs, dataSize) ==
  LET checks == DefineChecks(authHandle, index, attrs, dataSize)
  IN \/ /\ Passes(checks)
        /\ nv_entry_alloc(index, attrs, dataSize)
        /\ nv_count' = nv_count + 1 /\ nv_dirty' = TRUE
        /\ rsp' = SuccessResponse(0, <<>>)
        /\ UNCHANGED <<live, primary, next_transient_handle>>
     \/ /\ ~Passes(checks)
        /\ rsp' = ErrorResponse(FirstFailure(checks))
        /\ UNCHANGED <<nvState, primary, next_transient_handle>>

-----------------------------------------------------------------------------
\* The checks of handle_NV_Write and TPM2_NV_Write.
WriteChecks(authHandle, index, data, offset) ==
  LET e == Lookup(index)
  IN <<Fail(index \notin DOMAIN nv_map, "TPM_RC_HANDLE"),
       Fail(offset + data.size > e.dataSize, "TPM_RC_NV_RANGE"),
       Fail(authHandle \notin Provision, "TPM_RC_HANDLE"),
       Fail(e.writeLocked, "TPM_RC_NV_LOCKED"),
       Fail(e.attrs.nvType \in {TPM_NT_COUNTER, TPM_NT_BITS, TPM_NT_EXTEND},
          "TPM_RC_ATTRIBUTES"),
       Fail("writeAll" \in e.attrs.bits /\ data.size # e.dataSize,
          "TPM_RC_NV_RANGE"),
       Fail(~any_write_bit(e.attrs), "TPM_RC_AUTH_FAIL"),
       Fail(data.size > MAX_NV_BUFFER_SIZE, "TPM_RC_SIZE"),
       Fail(CryptFails(primary, data.size), "TPM_RC_FAILURE")>>

\* A store that ignores the offset.
StoreCiphertextAtStart(e, data, offset) ==
  LET ciphertext == Encrypted(primary, iv_ptr(e), data.buffer, data.size)
      dst == data_ptr(e)
  IN nv_bank' = [a \in DOMAIN nv_bank |->
                   IF dst <= a /\ a < dst + data.size
                   THEN ciphertext[a - dst] ELSE nv_bank[a]]

\* The data bytes from offset on are encrypted as a text of their own: the
\* IV is the entry's, whatever the offset.
StoreCiphertext(e, data, offset) ==
  LET ciphertext == Encrypted(primary, iv_ptr(e), data.buffer, data.size)
      dst == data_ptr(e) + offset
  IN nv_bank' = [a \in DOMAIN nv_bank |->
                   IF dst <= a /\ a < dst + data.size
                   THEN ciphertext[a - dst] ELSE nv_bank[a]]

\* The bytes of write w and those of a write of n bytes at offset are apart.
Apart(w, index, offset, n) ==
  \/ w.index # index
  \/ w.offset + w.data.size <= offset
  \/ offset + n <= w.offset

\* A TPM2_NV_Write that leaves the public attributes alone.
TPM2_NV_Write_flag_only(index, data, offset) ==
  LET e == nv_map[index]
  IN /\ StoreCiphertext(e, data, offset)
     /\ nv_map' = [nv_map EXCEPT ![index] = [e EXCEPT !.written = TRUE]]
     /\ live' = {w \in live : Apart(w, index, offset, data.size)}
                 \cup {[index |-> index, key |-> primary,
                        offset |-> offset, data |-> data]}

TPM2_NV_Write(index, data, offset) ==
  LET e == nv_map[index]
      attrs == [e.attrs EXCEPT !.bits = @ \cup {"written"}]
  IN /\ StoreCiphertext(e, data, offset)
     /\ nv_map' = [nv_map EXCEPT ![index] =
                     [e EXCEPT !.written = TRUE, !.attrs = attrs]]
     /\ live' = {w \in live : Apart(w, index, offset, data.size)}
                 \cup {[index |-> index, key |-> primary,
                        offset |-> offset, data |-> data]}

handle_NV_Write(authHandle, index, data, offset) ==
  LET checks == WriteChecks(authHandle, index, data, offset)
  IN \/ /\ Passes(checks)
        /\ TPM2_NV_Write(index, data, offset)
        /\ nv_dirty' = TRUE
        /\ rsp' = SuccessResponse(0, <<>>)
        /\ UNCHANGED <<nv_count, nv_alloc_offset, primary, next_transient_handle>>
     \/ /\ ~Passes(checks)
        /\ rsp' = ErrorResponse(FirstFailure(checks))
        /\ UNCHANGED <<nvState, primary, next_transient_handle>>

\* Read checks that forget the two bytes of the size field.
ReadChecksNoSizeField(key, index, sizeToRead, offset) ==
  LET e == Lookup(index)
  IN <<Fail(index \notin DOMAIN nv_map, "TPM_RC_HANDLE"),
       Fail(~e.written, "TPM_RC_NV_UNINITIALIZED"),
       Fail(offset + sizeToRead > e.dataSize, "TPM_RC_NV_RANGE"),
       Fail(e.readLocked, "TPM_RC_NV_LOCKED"),
       Fail(CryptFails(key, sizeToRead), "TPM_RC_FAILURE"),
       Fail(10 + sizeToRead > BufSize, "TPM_RC_INSUFFICIENT")>>

\* The checks of handle_NV_Read, of nv_read_decrypt_from_bank, and of
\* Marshal_NV_Read_Response.  authHandle is not one of them.
ReadChecks(key, index, sizeToRead, offset) ==
  LET e == Lookup(index)
  IN <<Fail(index \notin DOMAIN nv_map, "TPM_RC_HANDLE"),
       Fail(~e.written, "TPM_RC_NV_UNINITIALIZED"),
       Fail(offset + sizeToRead > e.dataSize, "TPM_RC_NV_RANGE"),
       Fail(e.readLocked, "TPM_RC_NV_LOCKED"),
       Fail(CryptFails(key, sizeToRead), "TPM_RC_FAILURE"),
       Fail(12 + sizeToRead > BufSize, "TPM_RC_INSUFFICIENT")>>

nv_read_decrypt_from_bank(key, e, len, offset) ==
  LET ct == [i \in 0 .. (len - 1) |-> nv_bank[data_ptr(e) + offset + i]]
  IN Decrypted(key, iv_ptr(e), ct, len)

\* What NV_Read answers when the primary key is that of key.
ReadResult(key, index, sizeToRead, offset) ==
  LET checks == ReadChecks(key, index, sizeToRead, offset)
  IN IF Passes(checks)
     THEN SuccessResponse(2 + sizeToRead,
            nv_read_decrypt_from_bank(key, Lookup(index), sizeToRead, offset))
     ELSE ErrorResponse(FirstFailure(checks))

\* BOUND: reads of more than MAX_NV_BUFFER_SIZE bytes of a defined index, within
\* its size, are left out: the buffer they are decrypted into is not modelled.
handle_NV_Read(index, sizeToRead, offset) ==
  /\ index \in DOMAIN nv_map /\ offset + sizeToRead <= nv_map[index].dataSize
       => sizeToRead <= MAX_NV_BUFFER_SIZE
  /\ rsp' = ReadResult(primary, index, sizeToRead, offset)
  /\ UNCHANGED <<nvState, primary, next_transient_handle>>

-----------------------------------------------------------------------------
\* tpm2_CreatePrimary: an unknown hierarchy is refused before the old key is
\* wiped, a type other than ECC after.  The key depends on the hierarchy only.
tpm2_CreatePrimary(primaryHandle, ecc, objectHandle) ==
  \/ /\ primaryHandle \notin Hierarchy
     /\ rsp' = ErrorResponse("TPM_RC_HIERARCHY")
     /\ UNCHANGED primary
  \/ /\ primaryHandle \in Hierarchy /\ ~ecc
     /\ rsp' = ErrorResponse("TPM_RC_ASYMMETRIC")
     /\ primary' = NoKey
  \/ /\ primaryHandle \in Hierarchy /\ ecc
     /\ rsp' = SuccessResponse(PRIMARY_BODY, <<objectHandle>>)
     /\ primary' = primaryHandle

\* The object handle is 0x80000000 | next_transient_handle: the top bit of
\* the counter is lost.  The counter advances also when the command fails.
handle_CreatePrimary(primaryHandle, ecc) ==
  /\ tpm2_CreatePrimary(primaryHandle, ecc,
                        next_transient_handle % (HandleSpace \div 2))
  /\ next_transient_handle' = (next_transient_handle + 1) % HandleSpace
  /\ UNCHANGED nvState

\* A GetRandom that sends what it has instead of refusing.
handle_GetRandom_capped(bytesRequested) ==
  /\ rsp' = SuccessResponse(2 + RANDOM_SIZE, <<>>)
  /\ UNCHANGED <<nvState, primary, next_transient_handle>>

handle_GetRandom(bytesRequested) ==
  /\ rsp' = IF bytesRequested > RANDOM_SIZE
               THEN ErrorResponse("TPM_RC_SIZE")
               ELSE SuccessResponse(2 + bytesRequested, <<>>)
  /\ UNCHANGED <<nvState, primary, next_transient_handle>>

Next ==
  \/ \E h \in Handle, i \in NvIndex, a \in Attributes, n \in DataSize :
       handle_NV_DefineSpace(h, i, a, n)
  \/ \E h \in Handle, i \in NvIndex, d \in Buffer, o \in Offset :
       handle_NV_Write(h, i, d, o)
  \/ \E i \in NvIndex, n \in DataSize, o \in Offset : handle_NV_Read(i, n, o)
  \/ \E h \in Handle, ecc \in BOOLEAN : handle_CreatePrimary(h, ecc)
  \/ \E n \in DataSize : handle_GetRandom(n)

Spec == Init /\ [][Next]_vars
-----------------------------------------------------------------------------
EntryType == [attrs : [nvType : Nat, bits : SUBSET AttrBit], dataSize : Nat,
              base : Nat, written : BOOLEAN, readLocked : BOOLEAN,
              writeLocked : BOOLEAN]

TypeOK ==
  /\ DOMAIN nv_map \subseteq NvIndex /\ nv_map \in [DOMAIN nv_map -> EntryType]
  /\ nv_bank = [a \in 0 .. (TPM2_NVSTORAGE_SIZE - 1) |-> nv_bank[a]]
  /\ nv_count \in Nat /\ nv_alloc_offset \in Nat /\ nv_dirty \in BOOLEAN
  /\ primary \in Hierarchy \cup {NoKey}
  /\ next_transient_handle \in 0 .. (HandleSpace - 1)
  /\ live \subseteq [index : NvIndex, key : Hierarchy, offset : Nat, data : Buffer]

\* No NV command ever leaves the bank or another index's slice: nv_count is
\* the number of entries and within its limit, every entry has its IV and data
\* inside the allocated part of the bank, and no two entries overlap
\* (nv_entry_alloc hands out slices by advancing nv_alloc_offset).
NvLayout ==
  /\ IsFiniteSet(DOMAIN nv_map) /\ nv_count = Cardinality(DOMAIN nv_map)
  /\ nv_count <= TPM2_MAX_NV_INDEXES
  /\ nv_alloc_offset <= TPM2_NVSTORAGE_SIZE
  /\ \A i \in DOMAIN nv_map :
       /\ data_ptr(nv_map[i]) + nv_map[i].dataSize <= nv_alloc_offset
       /\ \A j \in DOMAIN nv_map \ {i} :
            \/ data_ptr(nv_map[i]) + nv_map[i].dataSize <= nv_map[j].base
            \/ data_ptr(nv_map[j]) + nv_map[j].dataSize <= nv_map[i].base

\* What was written can be read back: whatever commands came since, as long
\* as none wrote over those bytes, NV_Read from the offset of the write, of up
\* to as many bytes, answers the bytes that were written, once the primary key
\* is again the one of the hierarchy that was primary at the write (TPM2_NV_Write
\* against nv_read_decrypt_from_bank, and the keys of tpm2_CreatePrimary).
ReadBack ==
  \A w \in live : \A n \in 1 .. w.data.size :
    12 + n <= BufSize =>
      ReadResult(w.key, w.index, n, w.offset)
        = SuccessResponse(2 + n, FirstBytes(w.data.buffer, n))

\* The flag that NV_Read looks at, the WRITTEN attribute of the public area and
\* the history agree: an index counts as written exactly when some write of it
\* succeeded (NVEntry says its flags are mirrors of the TPMA_NV bits).
WrittenMirror ==
  \A i \in DOMAIN nv_map :
    /\ nv_map[i].written <=> "written" \in nv_map[i].attrs.bits
    /\ nv_map[i].written <=> \E w \in live : w.index = i

\* Every answer fits response_buffer, and one that is not a success is a bare
\* header: what the transport relies on when it sends a response.
ResponseFits ==
  /\ rsp.size \in 10 .. BufSize
  /\ rsp.code # "TPM_RC_SUCCESS" => rsp.size = 10

\* What a step leaves of index i: its slice where it was, and its bytes, unless
\* a new write of i succeeded.
IndexKept(i) ==
  /\ i \in DOMAIN nv_map'
  /\ nv_map'[i].base = nv_map[i].base
  /\ nv_map'[i].dataSize = nv_map[i].dataSize
  /\ nv_map[i].written => nv_map'[i].written
  /\ \/ \A a \in nv_map[i].base .. (data_ptr(nv_map[i]) + nv_map[i].dataSize - 1) :
          nv_bank'[a] = nv_bank[a]
     \/ /\ \E w \in live' \ live : w.index = i
        /\ \A j \in DOMAIN nv_map \ {i} : nv_map'[j] = nv_map[j]
        /\ rsp'.code = "TPM_RC_SUCCESS"

\* An index is permanent: no command removes it, moves or resizes its slice,
\* makes it unwritten, or changes its bytes, except NV_Write of that index
\* with a success (there is no NV_UndefineSpace).
NvPermanent == [][\A i \in DOMAIN nv_map : IndexKept(i)]_vars

MAX_LOADED_OBJECTS == 32

\* The handle that CreatePrimary answers is in TRANSIENT_FIRST .. TRANSIENT_LAST,
\* the "Transient object range" of tpm2_handles.h (rsp.body is the handle without
\* its 0x80 type byte; no other answer has this size in the run).
TransientRange == rsp.size = 10 + PRIMARY_BODY => rsp.body[1] < MAX_LOADED_OBJECTS
=============================================================================
