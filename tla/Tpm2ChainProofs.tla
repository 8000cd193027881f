-------------------------- MODULE Tpm2ChainProofs ---------------------------
(***************************************************************************)
(* Proofs about the commands and the chain that leads to them, for every   *)
(* set of commands and every size of the bank and its buffers: the         *)
(* handlers keep the layout of the bank and what is written in it, the     *)
(* chain keeps that too, carries out complete commands only, and refuses   *)
(* without an effect.                                                      *)
(***************************************************************************)
EXTENDS Tpm2Chain, FiniteSetTheorems, WellFoundedInduction, TLAPS

(* The handlers of Tpm2Commands *)

\* No command locks an index.
NoLocks == \A i \in DOMAIN nv_map : ~nv_map[i].readLocked

\* The bank holds the ciphertext of every write that nothing overwrote, made
\* with the IV the entry still has.
LiveCells ==
  \A w \in live :
    /\ w.index \in DOMAIN nv_map
    /\ w.data.size >= 1
    /\ w.offset + w.data.size <= nv_map[w.index].dataSize
    /\ nv_map[w.index].written
    /\ \A i \in 0 .. (w.data.size - 1) :
         nv_bank[data_ptr(nv_map[w.index]) + w.offset + i]
           = EncryptedByte(w.key, iv_ptr(nv_map[w.index]), w.data.buffer, i)

IInv == TypeOK /\ NvLayout /\ WrittenMirror /\ ResponseFits /\ NoLocks /\ LiveCells

-----------------------------------------------------------------------------
\* What the checks of NV_DefineSpace leave to nv_entry_alloc.
LEMMA DefinePasses ==
  ASSUME NEW h, NEW i, NEW a, NEW n, Passes(DefineChecks(h, i, a, n))
  PROVE /\ i \notin DOMAIN nv_map
        /\ ~(nv_count >= TPM2_MAX_NV_INDEXES)
        /\ ~(nv_alloc_offset + AES_BLOCK + n > TPM2_NVSTORAGE_SIZE)
        /\ "written" \notin a.bits
<1> DEFINE c == DefineChecks(h, i, a, n)
<1>1. DOMAIN c = 1 .. 15
  BY DEF DefineChecks
<1>2. /\ c[3] = Fail(i \in DOMAIN nv_map, "TPM_RC_NV_DEFINED")
      /\ c[4] = Fail(nv_count >= TPM2_MAX_NV_INDEXES, "TPM_RC_NV_SPACE")
      /\ c[5] = Fail("written" \in a.bits \/ "readLocked" \in a.bits
                       \/ "writeLocked" \in a.bits, "TPM_RC_ATTRIBUTES")
      /\ c[15] = Fail(nv_alloc_offset + AES_BLOCK + n > TPM2_NVSTORAGE_SIZE,
                      "TPM_RC_MEMORY")
  BY Zenon DEF DefineChecks
<1>3. \A k \in {3, 4, 5, 15} : c[k] = "TPM_RC_SUCCESS"
  <2> HIDE DEF c
  <2>1. Passes(c)
    BY Zenon DEF c
  <2> QED
    BY <2>1, <1>1 DEF Passes
<1> HIDE DEF c
<1> QED
  BY Zenon, <1>2, <1>3 DEF Fail

\* What the checks of NV_Write leave to TPM2_NV_Write.
LEMMA WritePasses ==
  ASSUME NEW h, NEW i, NEW d, NEW o, Passes(WriteChecks(h, i, d, o))
  PROVE /\ i \in DOMAIN nv_map
        /\ ~(o + d.size > nv_map[i].dataSize)
        /\ primary # NoKey /\ d.size # 0
  BY DEF Passes, Fail, WriteChecks, Lookup, CryptFails

\* When NV_Read succeeds.
LEMMA ReadPasses ==
  ASSUME NEW k, NEW i, NEW n, NEW o
  PROVE Passes(ReadChecks(k, i, n, o)) <=>
          /\ i \in DOMAIN nv_map
          /\ nv_map[i].written
          /\ ~(o + n > nv_map[i].dataSize)
          /\ ~nv_map[i].readLocked
          /\ k # NoKey /\ n # 0
          /\ ~(12 + n > BufSize)
<1>1. CASE i \in DOMAIN nv_map
  BY <1>1 DEF Passes, Fail, ReadChecks, Lookup, CryptFails
<1>2. CASE i \notin DOMAIN nv_map
  BY <1>2 DEF Passes, Fail, ReadChecks
<1> QED
  BY Zenon, <1>1, <1>2

-----------------------------------------------------------------------------
\* The device realized by tpm2_realize satisfies the invariant.
LEMMA InitInv == Init => IInv
<1> SUFFICES ASSUME Init PROVE IInv
  BY Zenon
<1>1. Entry(TestAttrs, TEST_SIZE, 0) \in EntryType
  BY Zenon, SizeAssumption DEF Entry, TestAttrs, EntryType, AttrBit, ReadBits, WriteBits,
     TPM_NT_ORDINARY
<1>2. TypeOK
  BY <1>1, SizeAssumption, InputAssumption DEF Init, TypeOK, Hierarchy
<1>3. NvLayout
  <2>1. DOMAIN nv_map = {TEST_INDEX}
    BY Zenon DEF Init
  <2>2. IsFiniteSet(DOMAIN nv_map) /\ Cardinality(DOMAIN nv_map) = 1
    BY Zenon, <2>1, FS_Singleton
  <2> QED
    BY <2>1, <2>2, SizeAssumption DEF Init, NvLayout, data_ptr, Entry
<1>4. WrittenMirror /\ NoLocks /\ LiveCells
  BY Zenon DEF Init, WrittenMirror, NoLocks, LiveCells, Entry, TestAttrs
<1>5. ResponseFits
  BY SizeAssumption DEF Init, ResponseFits, ErrorResponse
<1> QED
  BY Zenon, <1>2, <1>3, <1>4, <1>5 DEF IInv

\* A command that leaves the NV state alone keeps the invariant.
LEMMA NvUnchanged ==
  ASSUME IInv, UNCHANGED nvState, ResponseFits',
         primary' \in Hierarchy \cup {NoKey},
         next_transient_handle' \in 0 .. (HandleSpace - 1)
  PROVE IInv'
<1>1. /\ nv_map' = nv_map /\ nv_bank' = nv_bank /\ nv_count' = nv_count
      /\ nv_alloc_offset' = nv_alloc_offset /\ nv_dirty' = nv_dirty
      /\ live' = live
  BY Zenon DEF nvState
<1>2. TypeOK'
  BY Zenon, <1>1 DEF IInv, TypeOK
<1>3. NvLayout'
  BY Zenon, <1>1 DEF IInv, NvLayout, data_ptr
<1>4. WrittenMirror' /\ NoLocks'
  BY Zenon, <1>1 DEF IInv, WrittenMirror, NoLocks
<1>5. LiveCells'
  BY Zenon, <1>1 DEF IInv, LiveCells, data_ptr, iv_ptr
<1> QED
  BY Zenon, <1>2, <1>3, <1>4, <1>5 DEF IInv

\* NV_DefineSpace keeps the invariant: the new slice starts where the
\* allocated part of the bank ended.
LEMMA DefineStep ==
  ASSUME IInv, NEW h \in Handle, NEW i \in NvIndex, NEW a \in Attributes,
         NEW n \in DataSize, handle_NV_DefineSpace(h, i, a, n)
  PROVE IInv'
<1>0. n \in Nat /\ nv_alloc_offset \in Nat /\ nv_count \in Nat
  BY Zenon, InputAssumption DEF IInv, TypeOK
<1>1. CASE ~Passes(DefineChecks(h, i, a, n))
  <2>1. /\ UNCHANGED <<nvState, primary, next_transient_handle>>
        /\ rsp' = ErrorResponse(FirstFailure(DefineChecks(h, i, a, n)))
    BY Zenon, <1>1 DEF handle_NV_DefineSpace
  <2>2. ResponseFits'
    BY <2>1, SizeAssumption DEF ResponseFits, ErrorResponse
  <2> QED
    BY Zenon, <2>1, <2>2, NvUnchanged DEF IInv, TypeOK
<1>2. CASE Passes(DefineChecks(h, i, a, n))
  <2> DEFINE e == Entry(a, n, nv_alloc_offset)
             top == nv_alloc_offset + AES_BLOCK + n
  <2>1. /\ i \notin DOMAIN nv_map /\ nv_count < TPM2_MAX_NV_INDEXES
        /\ top <= TPM2_NVSTORAGE_SIZE /\ top \in Nat /\ nv_alloc_offset <= top
        /\ "written" \notin a.bits
    BY <1>2, <1>0, DefinePasses, SizeAssumption
  <2>2. /\ nv_entry_alloc(i, a, n) /\ nv_count' = nv_count + 1 /\ nv_dirty' = TRUE
        /\ rsp' = SuccessResponse(0, <<>>)
        /\ live' = live /\ primary' = primary
        /\ next_transient_handle' = next_transient_handle
    BY Zenon, <1>2 DEF handle_NV_DefineSpace
  <2>3. /\ DOMAIN nv_map' = DOMAIN nv_map \cup {i}
        /\ nv_map'[i] = e
        /\ \A j \in DOMAIN nv_map : nv_map'[j] = nv_map[j]
        /\ nv_alloc_offset' = top
    BY Zenon, <2>1, <2>2 DEF nv_entry_alloc
  <2>4. e \in EntryType /\ e.base = nv_alloc_offset /\ e.dataSize = n /\ ~e.written
        /\ ~e.readLocked /\ e.attrs = a
    BY Zenon, <1>0, InputAssumption DEF Entry, EntryType
  <2>5. /\ nv_bank' = [b \in 0 .. (TPM2_NVSTORAGE_SIZE - 1) |-> nv_bank'[b]]
        /\ \A b \in 0 .. (nv_alloc_offset - 1) : nv_bank'[b] = nv_bank[b]
    <3>1. DOMAIN nv_bank = 0 .. (TPM2_NVSTORAGE_SIZE - 1)
      BY Zenon DEF IInv, TypeOK
    <3>2. \A b \in 0 .. (nv_alloc_offset - 1) :
             b \in DOMAIN nv_bank /\ ~(nv_alloc_offset <= b)
      <4> HIDE DEF e, top
      <4>1. nv_alloc_offset \in Nat /\ TPM2_NVSTORAGE_SIZE \in Nat
        BY Zenon, <1>0, SizeAssumption
      <4>2. nv_alloc_offset <= TPM2_NVSTORAGE_SIZE
        BY <4>1, <2>1
      <4> QED
        BY <4>1, <4>2, <3>1
    <3> QED
      BY Zenon, <3>1, <3>2, <2>2 DEF nv_entry_alloc
  <2> HIDE DEF e, top
  <2>6. TypeOK'
    <3>1. nv_map' = [j \in DOMAIN nv_map' |-> nv_map'[j]]
      BY Zenon, <2>2, <2>3 DEF nv_entry_alloc
    <3>2. \A j \in DOMAIN nv_map' : nv_map'[j] \in EntryType
      BY Zenon, <2>3, <2>4 DEF IInv, TypeOK
    <3>3. nv_map' \in [DOMAIN nv_map' -> EntryType]
      BY Zenon, <3>1, <3>2
    <3>4. DOMAIN nv_map' \subseteq NvIndex
      BY Zenon, <2>3 DEF IInv, TypeOK
    <3> QED
      BY <3>3, <3>4, <2>1, <2>2, <2>3, <2>5 DEF IInv, TypeOK
  <2>7. NvLayout'
    <3>1. /\ IsFiniteSet(DOMAIN nv_map')
          /\ nv_count' = Cardinality(DOMAIN nv_map')
      BY Zenon, <2>1, <2>2, <2>3, FS_AddElement DEF IInv, NvLayout
    <3>2. nv_count' <= TPM2_MAX_NV_INDEXES /\ nv_alloc_offset' <= TPM2_NVSTORAGE_SIZE
      BY <2>1, <2>2, <2>3, <1>0, SizeAssumption
    <3>3. ASSUME NEW j \in DOMAIN nv_map'
          PROVE data_ptr(nv_map'[j]) + nv_map'[j].dataSize <= nv_alloc_offset'
      <4>1. CASE j = i
        BY <4>1, <2>3, <2>4, <1>0, SizeAssumption DEF data_ptr, top
      <4>2. CASE j \in DOMAIN nv_map
        <5>1. /\ nv_map[j].base \in Nat /\ nv_map[j].dataSize \in Nat
              /\ nv_map[j].base + AES_BLOCK + nv_map[j].dataSize <= nv_alloc_offset
          BY Zenon, <4>2 DEF IInv, TypeOK, NvLayout, EntryType, data_ptr
        <5> QED
          BY <4>2, <5>1, <2>1, <2>3, <1>0, SizeAssumption DEF data_ptr
      <4> QED
        BY Zenon, <4>1, <4>2, <2>3
    <3>4. ASSUME NEW j \in DOMAIN nv_map', NEW k \in DOMAIN nv_map' \ {j}
          PROVE \/ data_ptr(nv_map'[j]) + nv_map'[j].dataSize <= nv_map'[k].base
                \/ data_ptr(nv_map'[k]) + nv_map'[k].dataSize <= nv_map'[j].base
      <4>1. CASE j = i
        BY Zenon, <4>1, <2>3, <2>4 DEF IInv, NvLayout
      <4>2. CASE k = i
        BY Zenon, <4>2, <2>3, <2>4 DEF IInv, NvLayout
      <4>3. CASE j \in DOMAIN nv_map /\ k \in DOMAIN nv_map
        BY Zenon, <4>3, <2>3 DEF IInv, NvLayout
      <4> QED
        BY Zenon, <4>1, <4>2, <4>3, <2>3
    <3> QED
      BY Zenon, <3>1, <3>2, <3>3, <3>4 DEF NvLayout, data_ptr
  <2>8. WrittenMirror'
    <3>1. \A w \in live : w.index # i
      BY Zenon, <2>1 DEF IInv, LiveCells
    <3> QED
      BY Zenon, <3>1, <2>1, <2>2, <2>3, <2>4 DEF IInv, WrittenMirror
  <2>9. NoLocks' /\ ResponseFits'
    BY <2>2, <2>3, <2>4, SizeAssumption DEF IInv, NoLocks, ResponseFits, SuccessResponse
  <2>10. LiveCells'
    <3> SUFFICES ASSUME NEW w \in live
                 PROVE /\ w.index \in DOMAIN nv_map'
                       /\ w.data.size >= 1
                       /\ w.offset + w.data.size <= nv_map'[w.index].dataSize
                       /\ nv_map'[w.index].written
                       /\ \A x \in 0 .. (w.data.size - 1) :
                            nv_bank'[data_ptr(nv_map'[w.index]) + w.offset + x]
                              = EncryptedByte(w.key, iv_ptr(nv_map[w.index])',
                                              w.data.buffer, x)
      BY Zenon, <2>2 DEF LiveCells, data_ptr
    <3>1. /\ w.index \in DOMAIN nv_map /\ nv_map'[w.index] = nv_map[w.index]
          /\ w.offset \in Nat /\ w.data.size \in Nat
          /\ nv_map[w.index].base \in Nat /\ nv_map[w.index].dataSize \in Nat
      BY Zenon, <2>3, InputAssumption DEF IInv, LiveCells, TypeOK, EntryType
    <3>2. nv_map[w.index].base + AES_BLOCK + nv_map[w.index].dataSize <= nv_alloc_offset
      BY Zenon, <3>1 DEF IInv, NvLayout, data_ptr
    <3>3. iv_ptr(nv_map[w.index])' = iv_ptr(nv_map[w.index])
      <4>1. \A k \in 0 .. (AES_BLOCK - 1) :
              nv_map[w.index].base + k \in 0 .. (nv_alloc_offset - 1)
        BY <3>1, <3>2, <1>0, SizeAssumption
      <4> QED
        BY Zenon, <4>1, <3>1, <2>5 DEF iv_ptr
    <3>4. \A x \in 0 .. (w.data.size - 1) :
            nv_bank'[data_ptr(nv_map[w.index]) + w.offset + x]
              = nv_bank[data_ptr(nv_map[w.index]) + w.offset + x]
      <4>1. w.offset + w.data.size <= nv_map[w.index].dataSize
        BY Zenon DEF IInv, LiveCells
      <4>2. \A x \in 0 .. (w.data.size - 1) :
              data_ptr(nv_map[w.index]) + w.offset + x \in 0 .. (nv_alloc_offset - 1)
        BY <4>1, <3>1, <3>2, <1>0, SizeAssumption DEF data_ptr
      <4> QED
        BY Zenon, <4>2, <2>5
    <3> QED
      BY <3>1, <3>3, <3>4, <2>3 DEF IInv, LiveCells, data_ptr
  <2> QED
    BY Zenon, <2>6, <2>7, <2>8, <2>9, <2>10 DEF IInv
<1> QED
  BY Zenon, <1>1, <1>2
\* What a successful NV_Write does: it changes its entry's attributes and the
\* bytes from the offset on.
LEMMA WriteEffect ==
  ASSUME IInv, NEW h \in Handle, NEW i \in NvIndex, NEW d \in Buffer,
         NEW o \in Offset, handle_NV_Write(h, i, d, o),
         Passes(WriteChecks(h, i, d, o))
  PROVE  /\ i \in DOMAIN nv_map /\ primary \in Hierarchy
         /\ nv_map[i] \in EntryType
         /\ nv_map[i].base \in Nat /\ nv_map[i].dataSize \in Nat
         /\ o + d.size <= nv_map[i].dataSize /\ d.size >= 1
         /\ data_ptr(nv_map[i]) + o \in Nat
         /\ live' = {w \in live : Apart(w, i, o, d.size)}
                      \cup {[index |-> i, key |-> primary, offset |-> o, data |-> d]}
         /\ nv_dirty' = TRUE /\ rsp' = SuccessResponse(0, <<>>)
         /\ nv_count' = nv_count /\ nv_alloc_offset' = nv_alloc_offset
         /\ primary' = primary /\ next_transient_handle' = next_transient_handle
         /\ DOMAIN nv_map' = DOMAIN nv_map
         /\ nv_map' = [j \in DOMAIN nv_map |-> nv_map'[j]]
         /\ \A j \in DOMAIN nv_map : j # i => nv_map'[j] = nv_map[j]
         /\ nv_map'[i] \in EntryType
         /\ nv_map'[i].written /\ "written" \in nv_map'[i].attrs.bits
         /\ \A j \in DOMAIN nv_map :
              /\ nv_map'[j].base = nv_map[j].base
              /\ nv_map'[j].dataSize = nv_map[j].dataSize
              /\ nv_map'[j].readLocked = nv_map[j].readLocked
              /\ nv_map[j].written => nv_map'[j].written
         /\ nv_bank' = [a \in 0 .. (TPM2_NVSTORAGE_SIZE - 1) |-> nv_bank'[a]]
         /\ data_ptr(nv_map[i]) + o + d.size <= TPM2_NVSTORAGE_SIZE
         /\ \A a \in 0 .. (TPM2_NVSTORAGE_SIZE - 1) :
              ~(/\ data_ptr(nv_map[i]) + o <= a
                /\ a < data_ptr(nv_map[i]) + o + d.size) => nv_bank'[a] = nv_bank[a]
         /\ \A x \in 0 .. (d.size - 1) :
              nv_bank'[data_ptr(nv_map[i]) + o + x]
                = EncryptedByte(primary, iv_ptr(nv_map[i]), d.buffer, x)
<1> DEFINE e == nv_map[i]
           dst == data_ptr(e) + o
           a2 == [e.attrs EXCEPT !.bits = @ \cup {"written"}]
           e2 == [e EXCEPT !.written = TRUE, !.attrs = a2]
           new == [index |-> i, key |-> primary, offset |-> o, data |-> d]
<1>0. o \in Nat /\ d.size \in Nat
  BY Zenon, InputAssumption
<1>1. i \in DOMAIN nv_map /\ primary \in Hierarchy
  BY Zenon, WritePasses DEF IInv, TypeOK
<1>2. /\ e \in EntryType /\ e.base \in Nat /\ e.dataSize \in Nat
      /\ o + d.size <= e.dataSize /\ d.size >= 1 /\ dst \in Nat
  <2>1. e \in EntryType
    BY Zenon, <1>1 DEF IInv, TypeOK
  <2>2. e.base \in Nat /\ e.dataSize \in Nat
    BY Zenon, <2>1 DEF EntryType
  <2>3. ~(o + d.size > e.dataSize) /\ d.size # 0
    BY Zenon, WritePasses
  <2> QED
    BY <2>1, <2>2, <2>3, <1>0, SizeAssumption DEF data_ptr
<1>3. /\ StoreCiphertext(e, d, o)
      /\ nv_map' = [nv_map EXCEPT ![i] = e2]
      /\ live' = {w \in live : Apart(w, i, o, d.size)} \cup {new}
      /\ nv_dirty' = TRUE /\ rsp' = SuccessResponse(0, <<>>)
      /\ nv_count' = nv_count /\ nv_alloc_offset' = nv_alloc_offset
      /\ primary' = primary /\ next_transient_handle' = next_transient_handle
  BY Zenon DEF handle_NV_Write, TPM2_NV_Write
<1>4. /\ DOMAIN nv_map' = DOMAIN nv_map
      /\ nv_map' = [j \in DOMAIN nv_map |-> nv_map'[j]]
      /\ \A j \in DOMAIN nv_map : j # i => nv_map'[j] = nv_map[j]
      /\ nv_map'[i] \in EntryType
      /\ nv_map'[i].written /\ "written" \in nv_map'[i].attrs.bits
      /\ \A j \in DOMAIN nv_map :
           /\ nv_map'[j].base = nv_map[j].base
           /\ nv_map'[j].dataSize = nv_map[j].dataSize
           /\ nv_map'[j].readLocked = nv_map[j].readLocked
           /\ nv_map[j].written => nv_map'[j].written
  <2>1. /\ e2 \in EntryType /\ e2.written /\ "written" \in e2.attrs.bits
        /\ e2.base = e.base /\ e2.dataSize = e.dataSize
        /\ e2.readLocked = e.readLocked
    <3>1. e.attrs \in [nvType : Nat, bits : SUBSET AttrBit]
      BY Zenon, <1>2 DEF EntryType
    <3>2. "written" \in AttrBit
      BY Zenon DEF AttrBit
    <3>3. a2 \in [nvType : Nat, bits : SUBSET AttrBit] /\ "written" \in a2.bits
      BY Zenon, <3>1, <3>2
    <3> HIDE DEF a2, e
    <3> QED
      BY Zenon, <1>2, <3>3 DEF EntryType
  <2> HIDE DEF e2
  <2>2. nv_map = [j \in DOMAIN nv_map |-> nv_map[j]]
    BY Zenon DEF IInv, TypeOK
  <2> QED
    BY Zenon, <1>1, <1>3, <2>1, <2>2
<1>5. DOMAIN nv_bank = 0 .. (TPM2_NVSTORAGE_SIZE - 1)
  BY Zenon DEF IInv, TypeOK
<1>6. /\ nv_bank' = [a \in 0 .. (TPM2_NVSTORAGE_SIZE - 1) |-> nv_bank'[a]]
      /\ \A a \in 0 .. (TPM2_NVSTORAGE_SIZE - 1) :
           ~(dst <= a /\ a < dst + d.size) => nv_bank'[a] = nv_bank[a]
  BY Zenon, <1>3, <1>5 DEF StoreCiphertext
<1>7. dst + d.size <= TPM2_NVSTORAGE_SIZE
  <2>1. data_ptr(e) + e.dataSize <= nv_alloc_offset
        /\ nv_alloc_offset <= TPM2_NVSTORAGE_SIZE /\ nv_alloc_offset \in Nat
    BY Zenon, <1>1 DEF IInv, NvLayout, TypeOK
  <2> QED
    BY <2>1, <1>2, <1>0, SizeAssumption DEF data_ptr
<1>8. \A x \in 0 .. (d.size - 1) :
        nv_bank'[dst + x] = EncryptedByte(primary, iv_ptr(e), d.buffer, x)
  <2> TAKE x \in 0 .. (d.size - 1)
  <2>1. /\ dst + x \in DOMAIN nv_bank /\ dst <= dst + x /\ dst + x < dst + d.size
        /\ (dst + x) - dst = x
    <3>1. dst \in Nat /\ d.size \in Nat /\ TPM2_NVSTORAGE_SIZE \in Nat
      BY Zenon, <1>0, <1>2, SizeAssumption
    <3> HIDE DEF dst
    <3>2. PICK v \in Nat : v = d.size
      BY Zenon, <3>1
    <3>3. x \in 0 .. (v - 1) /\ dst + v <= TPM2_NVSTORAGE_SIZE
      BY Zenon, <3>2, <1>7
    <3>4. /\ dst + x \in 0 .. (TPM2_NVSTORAGE_SIZE - 1)
          /\ dst <= dst + x /\ dst + x < dst + v /\ (dst + x) - dst = x
      BY <3>1, <3>3
    <3> QED
      BY Zenon, <3>2, <3>4, <1>5
  <2>2. nv_bank'[dst + x] = Encrypted(primary, iv_ptr(e), d.buffer, d.size)[(dst + x) - dst]
    BY Zenon, <2>1, <1>3 DEF StoreCiphertext
  <2> QED
    BY Zenon, <2>1, <2>2 DEF Encrypted
<1> HIDE DEF e2, a2
<1> QED
  BY Zenon, <1>1, <1>2, <1>3, <1>4, <1>6, <1>7, <1>8

\* NV_Write keeps the invariant: it changes data bytes of its index only, so
\* every IV and every write it does not overlap stay as they are.
LEMMA WriteStep ==
  ASSUME IInv, NEW h \in Handle, NEW i \in NvIndex, NEW d \in Buffer,
         NEW o \in Offset, handle_NV_Write(h, i, d, o)
  PROVE IInv'
<1>0. o \in Nat /\ d.size \in Nat
  BY Zenon, InputAssumption
<1>1. CASE ~Passes(WriteChecks(h, i, d, o))
  <2>1. /\ UNCHANGED <<nvState, primary, next_transient_handle>>
        /\ rsp' = ErrorResponse(FirstFailure(WriteChecks(h, i, d, o)))
    BY Zenon, <1>1 DEF handle_NV_Write
  <2>2. ResponseFits'
    BY <2>1, SizeAssumption DEF ResponseFits, ErrorResponse
  <2> QED
    BY Zenon, <2>1, <2>2, NvUnchanged DEF IInv, TypeOK
<1>2. CASE Passes(WriteChecks(h, i, d, o))
  <2> DEFINE e == nv_map[i]
             dst == data_ptr(e) + o
             new == [index |-> i, key |-> primary, offset |-> o, data |-> d]
  <2>1. i \in DOMAIN nv_map /\ primary \in Hierarchy
    BY Zenon, <1>2, WriteEffect
  <2>2. /\ e.base \in Nat /\ e.dataSize \in Nat
        /\ o + d.size <= e.dataSize /\ d.size >= 1 /\ dst \in Nat
    BY Zenon, <1>2, WriteEffect
  <2>3. /\ live' = {w \in live : Apart(w, i, o, d.size)} \cup {new}
        /\ nv_dirty' = TRUE /\ rsp' = SuccessResponse(0, <<>>)
        /\ nv_count' = nv_count /\ nv_alloc_offset' = nv_alloc_offset
        /\ primary' = primary /\ next_transient_handle' = next_transient_handle
    BY Zenon, <1>2, WriteEffect
  <2>4. /\ DOMAIN nv_map' = DOMAIN nv_map
        /\ nv_map' = [j \in DOMAIN nv_map |-> nv_map'[j]]
        /\ \A j \in DOMAIN nv_map : j # i => nv_map'[j] = nv_map[j]
        /\ nv_map'[i] \in EntryType
        /\ nv_map'[i].written /\ "written" \in nv_map'[i].attrs.bits
        /\ \A j \in DOMAIN nv_map :
             /\ nv_map'[j].base = nv_map[j].base
             /\ nv_map'[j].dataSize = nv_map[j].dataSize
             /\ nv_map'[j].readLocked = nv_map[j].readLocked
             /\ nv_map[j].written => nv_map'[j].written
    BY Zenon, <1>2, WriteEffect
  <2>6. /\ nv_bank' = [a \in 0 .. (TPM2_NVSTORAGE_SIZE - 1) |-> nv_bank'[a]]
        /\ \A a \in 0 .. (TPM2_NVSTORAGE_SIZE - 1) :
             ~(dst <= a /\ a < dst + d.size) => nv_bank'[a] = nv_bank[a]
    BY Zenon, <1>2, WriteEffect
  <2>8. \A x \in 0 .. (d.size - 1) :
          nv_bank'[dst + x] = EncryptedByte(primary, iv_ptr(e), d.buffer, x)
    BY Zenon, <1>2, WriteEffect
  <2>9. ASSUME NEW j \in DOMAIN nv_map
        PROVE iv_ptr(nv_map[j])' = iv_ptr(nv_map[j])
    <3>1. /\ nv_map[j].base \in Nat /\ nv_map[j].dataSize \in Nat
          /\ nv_map[j].base + AES_BLOCK + nv_map[j].dataSize <= TPM2_NVSTORAGE_SIZE
      <4>1. nv_map[j].base \in Nat /\ nv_map[j].dataSize \in Nat
        BY Zenon DEF IInv, TypeOK, EntryType
      <4>2. /\ nv_map[j].base + AES_BLOCK + nv_map[j].dataSize <= nv_alloc_offset
            /\ nv_alloc_offset <= TPM2_NVSTORAGE_SIZE /\ nv_alloc_offset \in Nat
        BY Zenon DEF IInv, NvLayout, TypeOK, data_ptr
      <4> QED
        BY <4>1, <4>2, SizeAssumption
    <3>2. j = i \/ nv_map[j].base + AES_BLOCK + nv_map[j].dataSize <= e.base
                \/ e.base + AES_BLOCK + e.dataSize <= nv_map[j].base
      BY Zenon, <2>1 DEF IInv, NvLayout, data_ptr
    <3>3. \A k \in 0 .. (AES_BLOCK - 1) :
            /\ nv_map[j].base + k \in 0 .. (TPM2_NVSTORAGE_SIZE - 1)
            /\ ~(/\ dst <= nv_map[j].base + k
                 /\ nv_map[j].base + k < dst + d.size)
      BY <3>1, <3>2, <2>2, <1>0, SizeAssumption DEF data_ptr
    <3>4. \A k \in 0 .. (AES_BLOCK - 1) :
            nv_bank'[nv_map'[j].base + k] = nv_bank[nv_map[j].base + k]
      BY Zenon, <3>3, <2>4, <2>6
    <3> QED
      BY Zenon, <3>4 DEF iv_ptr
  <2>10. TypeOK'
    <3>1. nv_map' \in [DOMAIN nv_map' -> EntryType]
      BY Zenon, <2>4 DEF IInv, TypeOK
    <3>2. new \in [index : NvIndex, key : Hierarchy, offset : Nat, data : Buffer]
      BY Zenon, <2>1, <1>0
    <3>3. live' \subseteq [index : NvIndex, key : Hierarchy, offset : Nat, data : Buffer]
      BY Zenon, <3>2, <2>3 DEF IInv, TypeOK
    <3> QED
      BY Zenon, <3>1, <3>3, <2>3, <2>4, <2>6 DEF IInv, TypeOK
  <2>11. NvLayout'
    BY Zenon, <2>3, <2>4 DEF IInv, NvLayout, data_ptr
  <2>12. WrittenMirror'
    <3> SUFFICES ASSUME NEW j \in DOMAIN nv_map
                 PROVE /\ nv_map'[j].written <=> "written" \in nv_map'[j].attrs.bits
                       /\ nv_map'[j].written <=> \E w \in live' : w.index = j
      BY Zenon, <2>4 DEF WrittenMirror
    <3>1. CASE j = i
      <4>1. new \in live' /\ new.index = i
        BY Zenon, <2>3
      <4> HIDE DEF new
      <4> QED
        BY Zenon, <3>1, <4>1, <2>4
    <3>2. CASE j # i
      <4>1. (\E w \in live' : w.index = j) <=> (\E w \in live : w.index = j)
        BY <3>2, <2>3 DEF Apart
      <4> QED
        BY Zenon, <3>2, <4>1, <2>4 DEF IInv, WrittenMirror
    <3> QED
      BY Zenon, <3>1, <3>2
  <2>13. NoLocks' /\ ResponseFits'
    BY SMTT(30), <2>3, <2>4, SizeAssumption DEF IInv, NoLocks, ResponseFits, SuccessResponse
  <2>14. LiveCells'
    <3> SUFFICES ASSUME NEW w \in live'
                 PROVE /\ w.index \in DOMAIN nv_map
                       /\ w.data.size >= 1
                       /\ w.offset + w.data.size <= nv_map[w.index].dataSize
                       /\ nv_map'[w.index].written
                       /\ \A x \in 0 .. (w.data.size - 1) :
                            nv_bank'[data_ptr(nv_map[w.index]) + w.offset + x]
                              = EncryptedByte(w.key, iv_ptr(nv_map[w.index]),
                                              w.data.buffer, x)
      BY Zenon, <2>4, <2>9 DEF LiveCells, data_ptr
    <3>1. CASE w = new
      BY Zenon, <3>1, <2>1, <2>2, <2>4, <2>8
    <3>2. CASE w \in live /\ Apart(w, i, o, d.size)
      <4> DEFINE f == nv_map[w.index]
      <4>1. /\ w.index \in DOMAIN nv_map /\ w.data.size >= 1 /\ f.written
            /\ w.offset + w.data.size <= f.dataSize
            /\ \A x \in 0 .. (w.data.size - 1) :
                 nv_bank[data_ptr(f) + w.offset + x]
                   = EncryptedByte(w.key, iv_ptr(f), w.data.buffer, x)
        BY Zenon, <3>2 DEF IInv, LiveCells
      <4>2. /\ w.offset \in Nat /\ w.data.size \in Nat
            /\ f.base \in Nat /\ f.dataSize \in Nat
        BY Zenon, <3>2, <4>1, InputAssumption DEF IInv, TypeOK, EntryType
      <4>3. f.base + AES_BLOCK + f.dataSize <= TPM2_NVSTORAGE_SIZE
        <5>1. f.base + AES_BLOCK + f.dataSize <= nv_alloc_offset
              /\ nv_alloc_offset <= TPM2_NVSTORAGE_SIZE /\ nv_alloc_offset \in Nat
          BY Zenon, <4>1 DEF IInv, NvLayout, TypeOK, data_ptr
        <5> QED
          BY <5>1, <4>2, SizeAssumption
      <4>4. \/ w.index = i /\ (w.offset + w.data.size <= o \/ o + d.size <= w.offset)
            \/ f.base + AES_BLOCK + f.dataSize <= e.base
            \/ e.base + AES_BLOCK + e.dataSize <= f.base
        BY Zenon, <3>2, <4>1, <2>1 DEF Apart, IInv, NvLayout, data_ptr
      <4>5. \A x \in 0 .. (w.data.size - 1) :
              /\ data_ptr(f) + w.offset + x \in 0 .. (TPM2_NVSTORAGE_SIZE - 1)
              /\ ~(/\ dst <= data_ptr(f) + w.offset + x
                   /\ data_ptr(f) + w.offset + x < dst + d.size)
        BY <4>1, <4>2, <4>3, <4>4, <2>2, <1>0, SizeAssumption DEF data_ptr
      <4>6. \A x \in 0 .. (w.data.size - 1) :
              nv_bank'[data_ptr(f) + w.offset + x] = nv_bank[data_ptr(f) + w.offset + x]
        BY Zenon, <4>5, <2>6
      <4> QED
        BY Zenon, <4>1, <4>6, <2>4
    <3> QED
      BY Zenon, <3>1, <3>2, <2>3
  <2> QED
    BY Zenon, <2>10, <2>11, <2>12, <2>13, <2>14 DEF IInv
<1> QED
  BY Zenon, <1>1, <1>2
\* The other commands change no NV state: NV_Read answers within the buffer.
LEMMA OtherStep ==
  ASSUME IInv,
         \/ \E i \in NvIndex, n \in DataSize, o \in Offset : handle_NV_Read(i, n, o)
         \/ \E h \in Handle, ecc \in BOOLEAN : handle_CreatePrimary(h, ecc)
         \/ \E n \in DataSize : handle_GetRandom(n)
  PROVE IInv'
<1>1. ASSUME NEW i \in NvIndex, NEW n \in DataSize, NEW o \in Offset,
             handle_NV_Read(i, n, o)
      PROVE IInv'
  <2>1. n \in Nat
    BY Zenon, InputAssumption
  <2>2. ResponseFits'
    <3>1. CASE Passes(ReadChecks(primary, i, n, o))
      <4>1. ~(12 + n > BufSize)
        BY Zenon, <3>1, ReadPasses
      <4>2. rsp'.size = 10 + (2 + n) /\ rsp'.code = "TPM_RC_SUCCESS"
        BY Zenon, <1>1, <3>1 DEF handle_NV_Read, ReadResult, SuccessResponse
      <4> QED
        BY <4>1, <4>2, <2>1, SizeAssumption DEF ResponseFits
    <3>2. CASE ~Passes(ReadChecks(primary, i, n, o))
      <4>1. rsp'.size = 10
        BY Zenon, <1>1, <3>2 DEF handle_NV_Read, ReadResult, ErrorResponse
      <4> QED
        BY <4>1, SizeAssumption DEF ResponseFits
    <3> QED
      BY Zenon, <3>1, <3>2
  <2> QED
    BY Zenon, <1>1, <2>2, NvUnchanged DEF handle_NV_Read, IInv, TypeOK
<1>2. ASSUME NEW h \in Handle, NEW ecc \in BOOLEAN, handle_CreatePrimary(h, ecc)
      PROVE IInv'
  <2>1. UNCHANGED nvState
    BY Zenon, <1>2 DEF handle_CreatePrimary
  <2>2. ResponseFits'
    BY <1>2, SizeAssumption DEF handle_CreatePrimary, tpm2_CreatePrimary, ResponseFits,
       ErrorResponse, SuccessResponse
  <2>3. primary' \in Hierarchy \cup {NoKey}
    BY Zenon, <1>2 DEF handle_CreatePrimary, tpm2_CreatePrimary, IInv, TypeOK
  <2>4. next_transient_handle' \in 0 .. (HandleSpace - 1)
    <3>1. /\ next_transient_handle' = (next_transient_handle + 1) % HandleSpace
          /\ next_transient_handle \in 0 .. (HandleSpace - 1)
      BY Zenon, <1>2 DEF handle_CreatePrimary, IInv, TypeOK
    <3> QED
      BY <3>1, SizeAssumption
  <2> QED
    BY Zenon, <2>1, <2>2, <2>3, <2>4, NvUnchanged
<1>3. ASSUME NEW n \in DataSize, handle_GetRandom(n)
      PROVE IInv'
  <2>1. ResponseFits'
    BY <1>3, SizeAssumption, InputAssumption DEF handle_GetRandom, ResponseFits,
       ErrorResponse, SuccessResponse
  <2> QED
    BY Zenon, <1>3, <2>1, NvUnchanged DEF handle_GetRandom, IInv, TypeOK
<1> QED
  BY Zenon, <1>1, <1>2, <1>3

\* Every command of the device keeps the invariant.
LEMMA StepInv == IInv /\ [Next]_vars => IInv'
<1> SUFFICES ASSUME IInv, [Next]_vars PROVE IInv'
  BY Zenon
<1>1. CASE UNCHANGED vars
  <2>1. UNCHANGED nvState /\ UNCHANGED <<primary, next_transient_handle, rsp>>
    BY Zenon, <1>1 DEF vars
  <2>2. ResponseFits'
    BY Zenon, <2>1 DEF IInv, ResponseFits
  <2> QED
    BY Zenon, <2>1, <2>2, NvUnchanged DEF IInv, TypeOK
<1>2. CASE Next
  BY Zenon, <1>2, DefineStep, WriteStep, OtherStep DEF Next
<1> QED
  BY Zenon, <1>1, <1>2

-----------------------------------------------------------------------------
\* The first n bytes of c are those of an encryption of buffer.
IsEncryption(key, iv, buffer, n, c) ==
  \A i \in 0 .. (n - 1) : c[i] = EncryptedByte(key, iv, buffer, i)

\* Decrypting the first n bytes of what was encrypted under the same key and
\* IV gives the text: each feedback block is the one of the encryption.
LEMMA DecryptEncrypted ==
  ASSUME NEW key, NEW iv, NEW buffer, NEW n \in Nat, NEW c,
         IsEncryption(key, iv, buffer, n, c)
  PROVE Decrypted(key, iv, c, n) = FirstBytes(buffer, n)
<1>1. ASSUME NEW i \in 0 .. (n - 1)
      PROVE DecryptedByte(key, iv, c, i) = buffer[i]
  <2> DEFINE p == [x \in 0 .. i |-> buffer[x]]
  <2>1. c[i] = <<key, iv, i, p>>
    BY Zenon DEF EncryptedByte, IsEncryption
  <2>2. c[i] # Zero /\ c[i][1] = key /\ c[i][2] = iv /\ c[i][3] = i /\ c[i][4] = p
    <3> HIDE DEF p
    <3> QED
      BY <2>1 DEF Zero
  <2>3. p[i] = buffer[i]
    OBVIOUS
  <2>4. ASSUME NEW x \in 0 .. (i - 1)
        PROVE Encrypted(key, iv, p, i)[x] = c[x]
    <3>1. Encrypted(key, iv, p, i)[x] = EncryptedByte(key, iv, p, x)
      BY Zenon DEF Encrypted
    <3>2. [y \in 0 .. x |-> p[y]] = [y \in 0 .. x |-> buffer[y]]
      OBVIOUS
    <3>3. EncryptedByte(key, iv, p, x) = EncryptedByte(key, iv, buffer, x)
      BY Zenon, <3>2 DEF EncryptedByte
    <3>4. x \in 0 .. (n - 1)
      OBVIOUS
    <3> QED
      BY Zenon, <3>1, <3>3, <3>4 DEF IsEncryption
  <2> HIDE DEF p
  <2>5. Feedback(iv, Encrypted(key, iv, p, i), i) = Feedback(iv, c, i)
    <3>1. CASE i < AES_BLOCK
      BY Zenon, <3>1 DEF Feedback
    <3>2. CASE ~(i < AES_BLOCK)
      <4> DEFINE b == (i \div AES_BLOCK - 1) * AES_BLOCK
      <4>1. b \in Nat /\ b + AES_BLOCK <= i
        BY <3>2, SizeAssumption
      <4> HIDE DEF b
      <4>2. \A x \in 0 .. (AES_BLOCK - 1) : b + x \in 0 .. (i - 1)
        BY <4>1, SizeAssumption
      <4>3. \A x \in 0 .. (AES_BLOCK - 1) :
              Encrypted(key, iv, p, i)[b + x] = c[b + x]
        BY Zenon, <4>2, <2>4
      <4> QED
        BY Zenon, <3>2, <4>3 DEF Feedback, b
    <3> QED
      BY Zenon, <3>1, <3>2
  <2> QED
    BY Zenon, <2>2, <2>3, <2>5 DEF DecryptedByte
<1> QED
  BY Zenon, <1>1 DEF Decrypted, FirstBytes

\* The invariant makes every write readable.
LEMMA InvReadBack == IInv => ReadBack
<1> SUFFICES ASSUME IInv, NEW w \in live, NEW n \in 1 .. w.data.size,
                    12 + n <= BufSize
             PROVE ReadResult(w.key, w.index, n, w.offset)
                     = SuccessResponse(2 + n, FirstBytes(w.data.buffer, n))
  BY Zenon DEF ReadBack
<1> DEFINE e == nv_map[w.index]
           ct == [i \in 0 .. (n - 1) |-> nv_bank[data_ptr(e) + w.offset + i]]
<1>1. /\ w.index \in DOMAIN nv_map /\ e.written
      /\ w.offset + w.data.size <= e.dataSize
      /\ \A i \in 0 .. (w.data.size - 1) :
           nv_bank[data_ptr(e) + w.offset + i]
             = EncryptedByte(w.key, iv_ptr(e), w.data.buffer, i)
  BY Zenon DEF IInv, LiveCells
<1>2. /\ w.offset \in Nat /\ w.data.size \in Nat /\ e.dataSize \in Nat
      /\ w.key \in Hierarchy /\ ~e.readLocked
  BY Zenon, <1>1, InputAssumption DEF IInv, TypeOK, EntryType, NoLocks
<1>3. Passes(ReadChecks(w.key, w.index, n, w.offset))
  <2>1. ~(w.offset + n > e.dataSize) /\ n # 0 /\ ~(12 + n > BufSize)
    BY <1>1, <1>2, SizeAssumption
  <2>2. w.key # NoKey
    BY Zenon, <1>2 DEF Hierarchy, NoKey
  <2> QED
    BY Zenon, <2>1, <2>2, <1>1, <1>2, ReadPasses
<1>4. \A i \in 0 .. (n - 1) : ct[i] = EncryptedByte(w.key, iv_ptr(e), w.data.buffer, i)
  BY <1>1, <1>2
<1>5. Decrypted(w.key, iv_ptr(e), ct, n) = FirstBytes(w.data.buffer, n)
  <2> DEFINE iv == iv_ptr(e)
             buffer == w.data.buffer
  <2>1. n \in Nat /\ IsEncryption(w.key, iv, buffer, n, ct)
    BY <1>2, <1>4 DEF IsEncryption
  <2> HIDE DEF ct, iv, buffer
  <2>2. Decrypted(w.key, iv, ct, n) = FirstBytes(buffer, n)
    BY <2>1, DecryptEncrypted
  <2> QED
    BY Zenon, <2>2 DEF iv, buffer
<1>6. nv_read_decrypt_from_bank(w.key, e, n, w.offset)
        = Decrypted(w.key, iv_ptr(e), ct, n)
  BY Zenon DEF nv_read_decrypt_from_bank
<1> QED
  BY Zenon, <1>1, <1>3, <1>5, <1>6 DEF ReadResult, Lookup

-----------------------------------------------------------------------------
\* The slice of a defined index lies in the allocated part of the bank.
LEMMA SliceInside ==
  ASSUME IInv, NEW j \in DOMAIN nv_map
  PROVE  /\ nv_map[j].base \in Nat /\ nv_map[j].dataSize \in Nat
         /\ data_ptr(nv_map[j]) = nv_map[j].base + AES_BLOCK
         /\ nv_map[j].base + AES_BLOCK + nv_map[j].dataSize <= nv_alloc_offset
         /\ nv_alloc_offset <= TPM2_NVSTORAGE_SIZE /\ nv_alloc_offset \in Nat
<1>1. nv_map[j].base \in Nat /\ nv_map[j].dataSize \in Nat
  BY Zenon DEF IInv, TypeOK, EntryType
<1>2. /\ nv_map[j].base + AES_BLOCK + nv_map[j].dataSize <= nv_alloc_offset
      /\ nv_alloc_offset <= TPM2_NVSTORAGE_SIZE /\ nv_alloc_offset \in Nat
  BY Zenon DEF IInv, NvLayout, TypeOK, data_ptr
<1> QED
  BY Zenon, <1>1, <1>2 DEF data_ptr

\* A command that leaves the NV state alone keeps every index.
LEMMA QuietKept ==
  ASSUME UNCHANGED nvState, NEW j \in DOMAIN nv_map PROVE IndexKept(j)
BY Zenon DEF nvState, IndexKept

\* NV_DefineSpace zeroes bytes that belong to no index.
LEMMA DefineKept ==
  ASSUME IInv, NEW h \in Handle, NEW i \in NvIndex, NEW a \in Attributes,
         NEW n \in DataSize, handle_NV_DefineSpace(h, i, a, n), NEW j \in DOMAIN nv_map
  PROVE  IndexKept(j)
<1>1. CASE ~Passes(DefineChecks(h, i, a, n))
  <2>1. UNCHANGED nvState
    BY Zenon, <1>1 DEF handle_NV_DefineSpace
  <2> QED
    BY Zenon, <2>1, QuietKept
<1>2. CASE Passes(DefineChecks(h, i, a, n))
  <2>1. i \notin DOMAIN nv_map /\ nv_entry_alloc(i, a, n)
    BY Zenon, <1>2, DefinePasses DEF handle_NV_DefineSpace
  <2>2. j \in DOMAIN nv_map' /\ nv_map'[j] = nv_map[j]
    BY Zenon, <2>1 DEF nv_entry_alloc
  <2>3. ASSUME NEW b \in nv_map[j].base .. (data_ptr(nv_map[j]) + nv_map[j].dataSize - 1)
        PROVE  nv_bank'[b] = nv_bank[b]
    <3>1. b \in 0 .. (TPM2_NVSTORAGE_SIZE - 1) /\ ~(nv_alloc_offset <= b)
      BY SliceInside, SizeAssumption
    <3>2. b \in DOMAIN nv_bank
      BY Zenon, <3>1 DEF IInv, TypeOK
    <3> QED
      BY Zenon, <2>1, <3>1, <3>2 DEF nv_entry_alloc
  <2> QED
    BY Zenon, <2>2, <2>3 DEF IndexKept
<1> QED
  BY Zenon, <1>1, <1>2

\* NV_Write changes bytes of its own index only; a write that repeats one whose
\* bytes are still there changes none.
LEMMA WriteKept ==
  ASSUME IInv, NEW h \in Handle, NEW i \in NvIndex, NEW d \in Buffer,
         NEW o \in Offset, handle_NV_Write(h, i, d, o), NEW j \in DOMAIN nv_map
  PROVE  IndexKept(j)
<1>1. CASE ~Passes(WriteChecks(h, i, d, o))
  <2>1. UNCHANGED nvState
    BY Zenon, <1>1 DEF handle_NV_Write
  <2> QED
    BY Zenon, <2>1, QuietKept
<1>2. CASE Passes(WriteChecks(h, i, d, o))
  <2> DEFINE e == nv_map[i]
             dst == data_ptr(e) + o
             new == [index |-> i, key |-> primary, offset |-> o, data |-> d]
             Slice(k) == nv_map[k].base .. (data_ptr(nv_map[k]) + nv_map[k].dataSize - 1)
  <2>1. /\ i \in DOMAIN nv_map /\ o \in Nat /\ d.size \in Nat
        /\ o + d.size <= e.dataSize /\ d.size >= 1 /\ dst \in Nat
    BY Zenon, <1>2, WriteEffect, InputAssumption
  <2>2. /\ j \in DOMAIN nv_map' /\ nv_map'[j].base = nv_map[j].base
        /\ nv_map'[j].dataSize = nv_map[j].dataSize
        /\ nv_map[j].written => nv_map'[j].written
    BY Zenon, <1>2, WriteEffect
  <2>3. \A a \in 0 .. (TPM2_NVSTORAGE_SIZE - 1) :
          ~(dst <= a /\ a < dst + d.size) => nv_bank'[a] = nv_bank[a]
    BY ZenonT(30), <1>2, WriteEffect
  <2>4. \A a \in Slice(j) : a \in 0 .. (TPM2_NVSTORAGE_SIZE - 1)
    BY SliceInside, SizeAssumption
  <2>5. CASE j # i
    <3>1. \/ nv_map[j].base + AES_BLOCK + nv_map[j].dataSize <= e.base
          \/ e.base + AES_BLOCK + e.dataSize <= nv_map[j].base
      BY Zenon, <2>1, <2>5 DEF IInv, NvLayout, data_ptr
    <3>2. /\ e.base \in Nat /\ e.dataSize \in Nat /\ dst = e.base + AES_BLOCK + o
          /\ nv_map[j].base \in Nat /\ nv_map[j].dataSize \in Nat
          /\ data_ptr(nv_map[j]) = nv_map[j].base + AES_BLOCK
      BY Zenon, <2>1, SliceInside
    <3>3. \A a \in Slice(j) : ~(dst <= a /\ a < dst + d.size)
      <4> HIDE DEF e, dst
      <4> QED
        BY <2>1, <3>1, <3>2, SizeAssumption
    <3>4. \A a \in Slice(j) : nv_bank'[a] = nv_bank[a]
      BY Zenon, <2>3, <2>4, <3>3
    <3> QED
      BY Zenon, <2>2, <3>4 DEF IndexKept
  <2>6. CASE j = i /\ new \notin live
    <3>1. /\ new \in live' /\ rsp'.code = "TPM_RC_SUCCESS"
          /\ \A k \in DOMAIN nv_map \ {i} : nv_map'[k] = nv_map[k]
      <4>1. /\ live' = {w \in live : Apart(w, i, o, d.size)} \cup {new}
            /\ rsp' = SuccessResponse(0, <<>>)
            /\ \A k \in DOMAIN nv_map : k # i => nv_map'[k] = nv_map[k]
        BY Zenon, <1>2, WriteEffect
      <4> HIDE DEF new
      <4> QED
        BY Zenon, <4>1 DEF SuccessResponse
    <3>2. \E w \in live' \ live : w.index = i
      BY <2>6, <3>1
    <3> QED
      BY Zenon, <2>2, <2>6, <3>1, <3>2 DEF IndexKept
  <2>7. CASE j = i /\ new \in live
    <3>1. \A x \in 0 .. (d.size - 1) :
            nv_bank[dst + x] = EncryptedByte(primary, iv_ptr(e), d.buffer, x)
      <4> DEFINE Cells(w) == \A x \in 0 .. (w.data.size - 1) :
                   nv_bank[data_ptr(nv_map[w.index]) + w.offset + x]
                     = EncryptedByte(w.key, iv_ptr(nv_map[w.index]), w.data.buffer, x)
      <4>1. Cells(new)
        <5>1. \A w \in live : Cells(w)
          BY Zenon DEF IInv, LiveCells
        <5> HIDE DEF Cells, new
        <5> QED
          BY Zenon, <2>7, <5>1
      <4>2. new.index = i /\ new.key = primary /\ new.offset = o /\ new.data = d
        BY Zenon
      <4> HIDE DEF new
      <4> QED
        BY Zenon, <4>1, <4>2
    <3>2. \A x \in 0 .. (d.size - 1) :
            nv_bank'[dst + x] = EncryptedByte(primary, iv_ptr(e), d.buffer, x)
      BY Zenon, <1>2, WriteEffect
    <3>3. ASSUME NEW a \in Slice(j) PROVE nv_bank'[a] = nv_bank[a]
      <4>1. a \in Int /\ a \in 0 .. (TPM2_NVSTORAGE_SIZE - 1)
        BY <2>4
      <4>2. CASE dst <= a /\ a < dst + d.size
        <5>1. a - dst \in 0 .. (d.size - 1) /\ a = dst + (a - dst)
          <6> HIDE DEF dst
          <6> QED
            BY <2>1, <4>1, <4>2
        <5> QED
          BY Zenon, <3>1, <3>2, <5>1
      <4>3. CASE ~(dst <= a /\ a < dst + d.size)
        BY Zenon, <2>3, <4>1, <4>3
      <4> QED
        BY Zenon, <4>2, <4>3
    <3> QED
      BY Zenon, <2>2, <3>3 DEF IndexKept
  <2> QED
    BY Zenon, <2>5, <2>6, <2>7
<1> QED
  BY Zenon, <1>1, <1>2

\* Every command keeps every index.
LEMMA StepKept ==
  ASSUME IInv, [Next]_vars, NEW j \in DOMAIN nv_map PROVE IndexKept(j)
<1>1. ASSUME \/ \E i \in NvIndex, n \in DataSize, o \in Offset : handle_NV_Read(i, n, o)
             \/ \E h \in Handle, ecc \in BOOLEAN : handle_CreatePrimary(h, ecc)
             \/ \E n \in DataSize : handle_GetRandom(n)
             \/ UNCHANGED vars
      PROVE  IndexKept(j)
  <2>1. UNCHANGED nvState
    BY Zenon, <1>1 DEF handle_NV_Read, handle_CreatePrimary, handle_GetRandom, vars
  <2> QED
    BY Zenon, <2>1, QuietKept
<1> QED
  BY Zenon, <1>1, DefineKept, WriteKept DEF Next

\* The strengthened invariant holds in every reachable state of the device.
THEOREM CommandsInvariant == Spec => []IInv
  BY InitInv, StepInv, PTL DEF Spec

\* The layout of the NV bank is sound for every bank size and index limit: no
\* sequence of commands makes two indexes overlap or leave the bank.
THEOREM NvLayoutAlways == Spec => []NvLayout
<1>1. IInv => NvLayout
  BY Zenon DEF IInv
<1> QED
  BY <1>1, CommandsInvariant, PTL

\* What NV_Write stored, NV_Read returns, whatever the block size, the bank and
\* the commands in between, once the primary key is that of the write again.
THEOREM ReadBackAlways == Spec => []ReadBack
  BY InvReadBack, CommandsInvariant, PTL

\* Every answer of every command fits response_buffer, as Tpm2Mmio assumes.
THEOREM ResponseFitsAlways == Spec => []ResponseFits
<1>1. IInv => ResponseFits
  BY Zenon DEF IInv
<1> QED
  BY <1>1, CommandsInvariant, PTL

\* The written flag, the WRITTEN attribute and the history of writes agree.
THEOREM WrittenMirrorAlways == Spec => []WrittenMirror
<1>1. IInv => WrittenMirror
  BY Zenon DEF IInv
<1> QED
  BY <1>1, CommandsInvariant, PTL

\* An index is permanent, for every bank and every sequence of commands: only a
\* successful NV_Write of it changes its bytes.
THEOREM NvPermanentAlways == Spec => NvPermanent
<1> DEFINE A == \A i \in DOMAIN nv_map : IndexKept(i)
<1>1. IInv /\ [Next]_vars => [A]_vars
  BY Zenon, StepKept
<1>2. NvPermanent <=> [][A]_vars
  BY Zenon DEF NvPermanent
<1> QED
  BY <1>1, <1>2, CommandsInvariant, PTL DEF Spec

-----------------------------------------------------------------------------
(* The chain *)

\* What the checks of the chain can give.
ResponseCode ==
  {"TPM_RC_SUCCESS", "TPM_RC_COMMAND_SIZE", "TPM_RC_BAD_TAG", "TPM_RC_COMMAND_CODE",
   "TPM_RC_FAILURE", "TPM_RC_UPGRADE", "TPM_RC_INITIALIZE", "TPM_RC_INSUFFICIENT",
   "TPM_RC_SIZE", "TPM_RC_VALUE"}

\* Every check gives a response code.
LEMMA FailType ==
  ASSUME NEW condition, NEW rc \in ResponseCode PROVE Fail(condition, rc) \in ResponseCode
<1>1. "TPM_RC_SUCCESS" \in ResponseCode
  BY Zenon DEF ResponseCode
<1> QED
  BY <1>1, Zenon DEF Fail

\* The checks made before bytes are read give response codes too.
LEMMA NeedType ==
  ASSUME NEW bodySize, NEW n PROVE Need(bodySize, n) \in ResponseCode
<1>1. "TPM_RC_INSUFFICIENT" \in ResponseCode
  BY Zenon DEF ResponseCode
<1> QED
  BY <1>1, FailType, Zenon DEF Need

\* Checks listed one by one are a sequence of response codes, and all of them
\* pass when the list does.
LEMMA PassesList ==
  ASSUME NEW c1 \in ResponseCode, NEW c2 \in ResponseCode, NEW c3 \in ResponseCode,
         NEW c4 \in ResponseCode
  PROVE /\ <<c1>> \in Seq(ResponseCode) /\ <<c1, c2>> \in Seq(ResponseCode)
        /\ <<c1, c2, c3>> \in Seq(ResponseCode) /\ <<c1, c2, c3, c4>> \in Seq(ResponseCode)
        /\ Passes(<<c1>>) => c1 = "TPM_RC_SUCCESS"
        /\ Passes(<<c1, c2>>) => c2 = "TPM_RC_SUCCESS"
        /\ Passes(<<c1, c2, c3>>) => c3 = "TPM_RC_SUCCESS"
        /\ Passes(<<c1, c2, c3, c4>>) => c3 = "TPM_RC_SUCCESS" /\ c4 = "TPM_RC_SUCCESS"
<1>1. <<c1>> \in Seq(ResponseCode) /\ <<c1, c2>> \in Seq(ResponseCode)
  OBVIOUS
<1>2. <<c1, c2, c3>> \in Seq(ResponseCode)
  OBVIOUS
<1>3. <<c1, c2, c3, c4>> \in Seq(ResponseCode)
  OBVIOUS
<1>4. /\ Passes(<<c1>>) => c1 = "TPM_RC_SUCCESS"
      /\ Passes(<<c1, c2>>) => c2 = "TPM_RC_SUCCESS"
      /\ Passes(<<c1, c2, c3>>) => c3 = "TPM_RC_SUCCESS"
  BY DEF Passes
<1>5. Passes(<<c1, c2, c3, c4>>) => c3 = "TPM_RC_SUCCESS" /\ c4 = "TPM_RC_SUCCESS"
  BY DEF Passes
<1> QED
  BY Zenon, <1>1, <1>2, <1>3, <1>4, <1>5

\* A check that was passed.
LEMMA NeedPasses ==
  ASSUME NEW bodySize, NEW n, Need(bodySize, n) = "TPM_RC_SUCCESS"
  PROVE ~(bodySize < n)
  BY Zenon DEF Need, Fail

\* The checks of a chain pass exactly when those of both parts do.
LEMMA PassesConcat ==
  ASSUME NEW s \in Seq(ResponseCode), NEW t \in Seq(ResponseCode)
  PROVE /\ s \o t \in Seq(ResponseCode)
        /\ Passes(s \o t) <=> Passes(s) /\ Passes(t)
<1>1. s \o t \in Seq(ResponseCode) /\ Len(s \o t) = Len(s) + Len(t)
  OBVIOUS
<1>2. ASSUME Passes(s \o t) PROVE Passes(s) /\ Passes(t)
  <2>1. ASSUME NEW k \in DOMAIN s PROVE s[k] = "TPM_RC_SUCCESS"
    <3>1. k \in DOMAIN (s \o t) /\ (s \o t)[k] = s[k]
      OBVIOUS
    <3> QED
      BY Zenon, <3>1, <1>2 DEF Passes
  <2>2. ASSUME NEW k \in DOMAIN t PROVE t[k] = "TPM_RC_SUCCESS"
    <3>1. Len(s) + k \in DOMAIN (s \o t) /\ (s \o t)[Len(s) + k] = t[k]
      OBVIOUS
    <3> QED
      BY Zenon, <3>1, <1>2 DEF Passes
  <2> QED
    BY Zenon, <2>1, <2>2 DEF Passes
<1>3. ASSUME Passes(s), Passes(t) PROVE Passes(s \o t)
  <2> SUFFICES ASSUME NEW k \in DOMAIN (s \o t) PROVE (s \o t)[k] = "TPM_RC_SUCCESS"
    BY Zenon DEF Passes
  <2>1. CASE k <= Len(s)
    <3>1. k \in DOMAIN s /\ (s \o t)[k] = s[k]
      BY <2>1
    <3> QED
      BY Zenon, <3>1, <1>3 DEF Passes
  <2>2. CASE ~(k <= Len(s))
    <3>1. k - Len(s) \in DOMAIN t /\ (s \o t)[k] = t[k - Len(s)]
      BY <2>2
    <3> QED
      BY Zenon, <3>1, <1>3 DEF Passes
  <2> QED
    BY Zenon, <2>1, <2>2
<1> QED
  BY Zenon, <1>1, <1>2, <1>3

\* A refusal never carries the code of a success: there is a first check that
\* fails.
LEMMA FirstFailureFails ==
  ASSUME NEW S, NEW checks \in Seq(S), ~Passes(checks)
  PROVE FirstFailure(checks) # "TPM_RC_SUCCESS"
<1> DEFINE T == {k \in DOMAIN checks : checks[k] # "TPM_RC_SUCCESS"}
<1>1. T \subseteq Nat /\ T # {}
  BY DEF Passes
<1>2. \E x \in T : \A y \in T : ~(<<y, x>> \in OpToRel(<, Nat))
  <2> HIDE DEF T
  <2> QED
    BY Zenon, <1>1, WFMin, NatLessThanWellFounded
<1>3. PICK x \in T : \A y \in T : ~(<<y, x>> \in OpToRel(<, Nat))
  BY Zenon, <1>2
<1>4. \A y \in T : ~(y < x)
  BY Zenon, <1>1, <1>3 DEF OpToRel
<1>5. \A y \in T : x <= y
  BY <1>1, <1>4
<1> QED
  BY Zenon, <1>5 DEF FirstFailure

-----------------------------------------------------------------------------
\* A complete TPM2B lies within the body, size field and all.
LEMMA TPM2BPasses ==
  ASSUME NEW bodySize, NEW offset, NEW size, NEW max
  PROVE /\ Unmarshal_TPM2B(bodySize, offset, size, max) \in Seq(ResponseCode)
        /\ Passes(Unmarshal_TPM2B(bodySize, offset, size, max)) =>
             ~(bodySize < offset + 2 + size)
<1> DEFINE n1 == Need(bodySize, offset + 2)
           n2 == Fail(size > max, "TPM_RC_SIZE")
           n3 == Need(bodySize, offset + 2 + size)
<1>1. n1 \in ResponseCode /\ n2 \in ResponseCode /\ n3 \in ResponseCode
  <2>1. "TPM_RC_SIZE" \in ResponseCode
    BY Zenon DEF ResponseCode
  <2> QED
    BY <2>1, NeedType, FailType, Zenon
<1>2. n3 = "TPM_RC_SUCCESS" => ~(bodySize < offset + 2 + size)
  BY NeedPasses, Zenon
<1>3. Unmarshal_TPM2B(bodySize, offset, size, max) = <<n1, n2, n3>>
  BY Zenon DEF Unmarshal_TPM2B
<1> HIDE DEF n1, n2, n3
<1>4. <<n1, n2, n3>> \in Seq(ResponseCode) /\ (Passes(<<n1, n2, n3>>) => n3 = "TPM_RC_SUCCESS")
  BY Zenon, <1>1, PassesList
<1> QED
  BY <1>2, <1>3, <1>4, Zenon

\* The checks of Unmarshal_CreatePrimary; inSensitive may be empty.
LEMMA CreatePrimaryPasses ==
  ASSUME NEW c \in Command, NEW b \in Int, c.code = "TPM_CC_CreatePrimary"
  PROVE /\ Unmarshal_CreatePrimary(c, b) \in Seq(ResponseCode)
        /\ Passes(Unmarshal_CreatePrimary(c, b)) => b >= BodyLength(c)
<1> DEFINE s == <<Need(b, 4), Need(b, 6)>>
           t == IF c.inSensitiveSize > 0
                THEN Unmarshal_TPM2B(b, 6, c.userAuthSize, 64)
                     \o Unmarshal_TPM2B(b, 8 + c.userAuthSize, c.dataSize, 256)
                ELSE <<>>
           n1 == Need(b, inPublicAt(c) + 2)
           n2 == Need(b, inPublicAt(c) + 2 + c.inPublicSize)
<1>1. s \in Seq(ResponseCode) /\ n1 \in ResponseCode /\ n2 \in ResponseCode
  BY Zenon, NeedType, PassesList
<1>2. t \in Seq(ResponseCode)
  <2>1. Unmarshal_TPM2B(b, 6, c.userAuthSize, 64) \in Seq(ResponseCode)
    BY Zenon, TPM2BPasses
  <2>2. Unmarshal_TPM2B(b, 8 + c.userAuthSize, c.dataSize, 256) \in Seq(ResponseCode)
    BY TPM2BPasses
  <2> QED
    BY <2>1, <2>2
<1>3. n2 = "TPM_RC_SUCCESS" => ~(b < inPublicAt(c) + 2 + c.inPublicSize)
  BY NeedPasses, Zenon
<1>4. Unmarshal_CreatePrimary(c, b) = s \o t \o <<n1, n2>>
  BY Zenon DEF Unmarshal_CreatePrimary
<1>5. ~(b < inPublicAt(c) + 2 + c.inPublicSize) => b >= BodyLength(c)
  BY CommandAssumption DEF BodyLength, inPublicAt
<1> HIDE DEF s, t, n1, n2
<1>6. <<n1, n2>> \in Seq(ResponseCode) /\ (Passes(<<n1, n2>>) => n2 = "TPM_RC_SUCCESS")
  BY Zenon, <1>1, PassesList
<1>7. s \o t \in Seq(ResponseCode)
  BY Zenon, <1>1, <1>2, PassesConcat
<1>8. /\ s \o t \o <<n1, n2>> \in Seq(ResponseCode)
      /\ Passes(s \o t \o <<n1, n2>>) => Passes(<<n1, n2>>)
  BY Zenon, <1>6, <1>7, PassesConcat
<1> QED
  BY <1>3, <1>4, <1>5, <1>6, <1>8, Zenon

\* The checks of Unmarshal_NV_DefineSpace.
LEMMA DefineSpacePasses ==
  ASSUME NEW c \in Command, NEW b \in Int, c.code = "TPM_CC_NV_DefineSpace"
  PROVE /\ Unmarshal_NV_DefineSpace(c, b) \in Seq(ResponseCode)
        /\ Passes(Unmarshal_NV_DefineSpace(c, b)) => b >= BodyLength(c)
<1> DEFINE at == 6 + c.authSize
           s1 == <<Need(b, 4)>>
           s2 == Unmarshal_TPM2B(b, 4, c.authSize, 64)
           s3 == <<Need(b, at + 2), Need(b, at + 6), Need(b, at + 8), Need(b, at + 12)>>
           s4 == Unmarshal_TPM2B(b, at + 12, c.authPolicySize, 64)
           n == Need(b, at + 16 + c.authPolicySize)
<1>1. s1 \in Seq(ResponseCode) /\ n \in ResponseCode
  BY Zenon, NeedType, PassesList
<1>2. s3 \in Seq(ResponseCode)
  BY NeedType, PassesList
<1>3. s2 \in Seq(ResponseCode) /\ s4 \in Seq(ResponseCode)
  BY Zenon, TPM2BPasses
<1>4. n = "TPM_RC_SUCCESS" => ~(b < at + 16 + c.authPolicySize)
  BY NeedPasses, Zenon
<1>5. ~(b < at + 16 + c.authPolicySize) => b >= BodyLength(c)
  BY CommandAssumption DEF BodyLength
<1>6. Unmarshal_NV_DefineSpace(c, b) = s1 \o s2 \o s3 \o s4 \o <<n>>
  BY Zenon DEF Unmarshal_NV_DefineSpace
<1> HIDE DEF at, s1, s2, s3, s4, n
<1>7. <<n>> \in Seq(ResponseCode) /\ (Passes(<<n>>) => n = "TPM_RC_SUCCESS")
  BY Zenon, <1>1, PassesList
<1>8. s1 \o s2 \o s3 \o s4 \in Seq(ResponseCode)
  BY <1>1, <1>2, <1>3
<1>9. /\ s1 \o s2 \o s3 \o s4 \o <<n>> \in Seq(ResponseCode)
      /\ Passes(s1 \o s2 \o s3 \o s4 \o <<n>>) => Passes(<<n>>)
  BY Zenon, <1>7, <1>8, PassesConcat
<1> QED
  BY <1>4, <1>5, <1>6, <1>7, <1>9, Zenon

\* The checks of Unmarshal_NV_Write.
LEMMA NvWritePasses ==
  ASSUME NEW c \in Command, NEW b \in Int, c.code = "TPM_CC_NV_Write"
  PROVE /\ Unmarshal_NV_Write(c, b) \in Seq(ResponseCode)
        /\ Passes(Unmarshal_NV_Write(c, b)) => b >= BodyLength(c)
<1> DEFINE f == Fail(c.authSize # 0, "TPM_RC_VALUE")
           s1 == <<Need(b, 4), Need(b, 8), Need(b, 10), f>>
           s2 == Unmarshal_TPM2B(b, 10, c.data.size, MAX_NV_BUFFER_SIZE)
           n == Need(b, 14 + c.data.size)
<1>1. f \in ResponseCode
  BY Zenon, FailType DEF ResponseCode
<1>2. s1 \in Seq(ResponseCode) /\ n \in ResponseCode
  <2> HIDE DEF f
  <2> QED
    BY <1>1, NeedType, PassesList
<1>3. s2 \in Seq(ResponseCode)
  BY Zenon, TPM2BPasses
<1>4. n = "TPM_RC_SUCCESS" => ~(b < 14 + c.data.size)
  BY NeedPasses, Zenon
<1>5. ~(b < 14 + c.data.size) => b >= BodyLength(c)
  BY CommandAssumption, InputAssumption DEF BodyLength
<1>6. Unmarshal_NV_Write(c, b) = s1 \o s2 \o <<n>>
  BY Zenon DEF Unmarshal_NV_Write
<1> HIDE DEF s1, s2, n
<1>7. <<n>> \in Seq(ResponseCode) /\ (Passes(<<n>>) => n = "TPM_RC_SUCCESS")
  BY Zenon, <1>2, PassesList
<1>8. /\ s1 \o s2 \o <<n>> \in Seq(ResponseCode)
      /\ Passes(s1 \o s2 \o <<n>>) => Passes(<<n>>)
  BY Zenon, <1>2, <1>3, <1>7, PassesConcat
<1> QED
  BY <1>4, <1>5, <1>6, <1>7, <1>8, Zenon

\* The checks of Unmarshal_NV_Read.
LEMMA NvReadPasses ==
  ASSUME NEW c \in Command, NEW b \in Int, c.code = "TPM_CC_NV_Read"
  PROVE /\ Unmarshal_NV_Read(c, b) \in Seq(ResponseCode)
        /\ Passes(Unmarshal_NV_Read(c, b)) => b >= BodyLength(c)
<1> DEFINE f == Fail(c.authSize # 0, "TPM_RC_VALUE")
           n4 == Need(b, 4)
           n8 == Need(b, 8)
           n10 == Need(b, 10)
           n12 == Need(b, 12)
           n14 == Need(b, 14)
<1>1. f \in ResponseCode
  BY Zenon, FailType DEF ResponseCode
<1>2. /\ n4 \in ResponseCode /\ n8 \in ResponseCode /\ n10 \in ResponseCode
      /\ n12 \in ResponseCode /\ n14 \in ResponseCode
  BY Zenon, NeedType
<1>3. n14 = "TPM_RC_SUCCESS" => ~(b < 14)
  BY NeedPasses, Zenon
<1>4. ~(b < 14) => b >= BodyLength(c)
  BY DEF BodyLength
<1>5. Unmarshal_NV_Read(c, b) = <<n4, n8, n10, f, n12, n14>>
  BY Zenon DEF Unmarshal_NV_Read
<1> HIDE DEF f, n4, n8, n10, n12, n14
<1>6. <<n4, n8, n10, f, n12, n14>> \in Seq(ResponseCode)
  BY <1>1, <1>2
<1>7. Passes(<<n4, n8, n10, f, n12, n14>>) => n14 = "TPM_RC_SUCCESS"
  BY DEF Passes
<1> QED
  BY <1>3, <1>4, <1>5, <1>6, <1>7, Zenon

\* The checks of every Unmarshal_* are response codes, and when they pass the
\* body is as long as the parameters say.
LEMMA UnmarshalPasses ==
  ASSUME NEW c \in Command, NEW b \in Int
  PROVE /\ Unmarshal(c, b) \in Seq(ResponseCode)
        /\ Passes(Unmarshal(c, b)) => b >= BodyLength(c)
<1>1. CASE c.code = "TPM_CC_GetRandom"
  <2>1. Unmarshal(c, b) = <<Need(b, 2)>>
    BY Zenon, <1>1 DEF Unmarshal, Unmarshal_GetRandom
  <2>2. /\ <<Need(b, 2)>> \in Seq(ResponseCode)
        /\ Passes(<<Need(b, 2)>>) => Need(b, 2) = "TPM_RC_SUCCESS"
    BY Zenon, NeedType, PassesList
  <2>3. Passes(<<Need(b, 2)>>) => ~(b < 2)
    BY <2>2, NeedPasses, Zenon
  <2> QED
    BY <1>1, <2>1, <2>2, <2>3 DEF BodyLength
<1>2. CASE c.code = "TPM_CC_CreatePrimary"
  BY Zenon, <1>2, CreatePrimaryPasses DEF Unmarshal
<1>3. CASE c.code = "TPM_CC_NV_DefineSpace"
  BY Zenon, <1>3, DefineSpacePasses DEF Unmarshal
<1>4. CASE c.code = "TPM_CC_NV_Write"
  BY Zenon, <1>4, NvWritePasses DEF Unmarshal
<1>5. CASE c.code = "TPM_CC_NV_Read"
  BY Zenon, <1>5, NvReadPasses DEF Unmarshal
<1>6. CASE c.code \notin Implemented
  <2>1. Unmarshal(c, b) = <<"TPM_RC_COMMAND_CODE">>
    BY Zenon, <1>6 DEF Unmarshal, Implemented
  <2>2. <<"TPM_RC_COMMAND_CODE">> \in Seq(ResponseCode)
    BY DEF ResponseCode
  <2>3. ~Passes(<<"TPM_RC_COMMAND_CODE">>)
    BY DEF Passes
  <2> QED
    BY Zenon, <2>1, <2>2, <2>3
<1> QED
  BY Zenon, <1>1, <1>2, <1>3, <1>4, <1>5, <1>6 DEF Implemented

\* A command that passes the whole chain is as large as its parameters announce.
LEMMA ChainPasses ==
  ASSUME NEW c \in Command
  PROVE /\ ChainChecks(c) \in Seq(ResponseCode)
        /\ Passes(ChainChecks(c)) => Complete(c)
<1> DEFINE h == TPM2_ValidateCommandHeader(c, c.size)
           v == TPM2_ValidateMode(c)
           b == c.size - HEADER_SIZE
           u == Unmarshal(c, b)
<1>1. h \in Seq(ResponseCode)
  <2>1. /\ "TPM_RC_COMMAND_SIZE" \in ResponseCode /\ "TPM_RC_BAD_TAG" \in ResponseCode
        /\ "TPM_RC_COMMAND_CODE" \in ResponseCode
    BY Zenon DEF ResponseCode
  <2> DEFINE f1 == Fail(c.size < HEADER_SIZE, "TPM_RC_COMMAND_SIZE")
             f2 == Fail(c.tag \notin {"TPM_ST_NO_SESSIONS", "TPM_ST_SESSIONS"},
                        "TPM_RC_BAD_TAG")
             f3 == Fail(c.size < HEADER_SIZE \/ c.size # c.size, "TPM_RC_COMMAND_SIZE")
             f4 == Fail(~is_valid_cc_command(c.code), "TPM_RC_COMMAND_CODE")
  <2>2. /\ f1 \in ResponseCode /\ f2 \in ResponseCode
        /\ f3 \in ResponseCode /\ f4 \in ResponseCode
    BY <2>1, FailType, Zenon
  <2>3. h = <<f1, f2, f3, f4>>
    BY Zenon DEF TPM2_ValidateCommandHeader
  <2> HIDE DEF f1, f2, f3, f4
  <2> QED
    BY <2>2, <2>3
<1>2. v \in Seq(ResponseCode)
  <2>1. /\ "TPM_RC_FAILURE" \in ResponseCode /\ "TPM_RC_UPGRADE" \in ResponseCode
        /\ "TPM_RC_INITIALIZE" \in ResponseCode
    BY Zenon DEF ResponseCode
  <2> QED
    BY Zenon, <2>1, FailType, PassesList DEF TPM2_ValidateMode
<1>3. c.size \in Nat /\ b \in Int
  BY CommandAssumption DEF HEADER_SIZE
<1> HIDE DEF b
<1>4. u \in Seq(ResponseCode) /\ (Passes(u) => b >= BodyLength(c))
  BY Zenon, <1>3, UnmarshalPasses
<1>5. BodyLength(c) \in Int
  BY CommandAssumption, InputAssumption DEF BodyLength
<1>6. b >= BodyLength(c) => Complete(c)
  BY <1>3, <1>5 DEF b, Complete, HEADER_SIZE
<1>7. ChainChecks(c) = h \o v \o u
  BY Zenon DEF ChainChecks, b
<1> HIDE DEF h, v, u
<1>8. h \o v \in Seq(ResponseCode)
  BY <1>1, <1>2
<1>9. /\ h \o v \o u \in Seq(ResponseCode)
      /\ Passes(h \o v \o u) => Passes(u)
  BY Zenon, <1>4, <1>8, PassesConcat
<1> QED
  BY <1>4, <1>6, <1>7, <1>9, Zenon

-----------------------------------------------------------------------------
\* A handler called by the chain is a step of Tpm2Commands.
LEMMA DispatchIsNext ==
  ASSUME NEW c \in Command, Dispatch(c) PROVE Next
<1>1. CASE c.code = "TPM_CC_GetRandom"
  BY Zenon, <1>1, CommandAssumption DEF Dispatch, Next
<1>2. CASE c.code = "TPM_CC_CreatePrimary"
  <2>1. PICK ecc \in TypeIsEcc(c) : handle_CreatePrimary(c.primaryHandle, ecc)
    BY Zenon, <1>2 DEF Dispatch
  <2>2. ecc \in BOOLEAN /\ c.primaryHandle \in Handle
    BY Zenon, <1>2, <2>1, CommandAssumption DEF TypeIsEcc
  <2> QED
    BY Zenon, <2>1, <2>2 DEF Next
<1>3. CASE c.code = "TPM_CC_NV_DefineSpace"
  BY Zenon, <1>3, CommandAssumption DEF Dispatch, Next
<1>4. CASE c.code = "TPM_CC_NV_Write"
  BY Zenon, <1>4, CommandAssumption DEF Dispatch, Next
<1>5. CASE c.code = "TPM_CC_NV_Read"
  BY Zenon, <1>5, CommandAssumption DEF Dispatch, Next
<1> QED
  BY Zenon, <1>1, <1>2, <1>3, <1>4, <1>5 DEF Dispatch

\* tpm2_process_command keeps the invariant of the handlers.
LEMMA ProcessInv ==
  ASSUME IInv, NEW c \in Command, tpm2_process_command(c) PROVE IInv'
<1>1. CASE Dispatch(c)
  BY Zenon, <1>1, DispatchIsNext, StepInv
<1>2. CASE ~Dispatch(c)
  <2>1. /\ rsp' = ErrorResponse(FirstFailure(ChainChecks(c)))
        /\ UNCHANGED nvState /\ UNCHANGED <<primary, next_transient_handle>>
    BY Zenon, <1>2 DEF tpm2_process_command
  <2>2. ResponseFits'
    BY <2>1, SizeAssumption DEF ResponseFits, ErrorResponse
  <2> QED
    BY Zenon, <2>1, <2>2, NvUnchanged DEF IInv, TypeOK
<1> QED
  BY Zenon, <1>1, <1>2

\* tpm2_process_command keeps every NV index.
LEMMA ProcessKept ==
  ASSUME IInv, NEW c \in Command, tpm2_process_command(c), NEW j \in DOMAIN nv_map
  PROVE  IndexKept(j)
<1>1. CASE Dispatch(c)
  BY Zenon, <1>1, DispatchIsNext, StepKept
<1>2. CASE ~Dispatch(c)
  BY Zenon, <1>2, QuietKept DEF tpm2_process_command
<1> QED
  BY Zenon, <1>1, <1>2

\* The invariant of the handlers holds whatever commands a guest sends, well
\* formed or not.
THEOREM ChainInvariant == ChainSpec => []IInv
<1>1. ChainInit => IInv
  BY Zenon, InitInv DEF ChainInit
<1>2. IInv /\ [ChainNext]_chainVars => IInv'
  <2> SUFFICES ASSUME IInv, [ChainNext]_chainVars PROVE IInv'
    BY Zenon
  <2>1. CASE ChainNext
    BY Zenon, <2>1, ProcessInv DEF ChainNext
  <2>2. CASE UNCHANGED chainVars
    BY Zenon, <2>2, StepInv DEF chainVars
  <2> QED
    BY Zenon, <2>1, <2>2
<1> QED
  BY <1>1, <1>2, PTL DEF ChainSpec

\* No command the guest can send breaks the layout of the NV bank.
THEOREM ChainNvLayout == ChainSpec => []NvLayout
<1>1. IInv => NvLayout
  BY Zenon DEF IInv
<1> QED
  BY <1>1, ChainInvariant, PTL

\* What was written can be read back, whatever commands the guest sends.
THEOREM ChainReadBack == ChainSpec => []ReadBack
  BY InvReadBack, ChainInvariant, PTL

\* A success of GetRandom or of an NV command answers one whose parameters were
\* all within its announced size: the offset arithmetic of Unmarshal_* lets no
\* other pass, whatever the sizes.
THEOREM SuccessMeansCompleteAlways == ChainSpec => []SuccessMeansComplete
<1>1. ChainInit => SuccessMeansComplete
  BY DEF ChainInit, Init, SuccessMeansComplete, ErrorResponse
<1>2. SuccessMeansComplete /\ [ChainNext]_chainVars => SuccessMeansComplete'
  <2> SUFFICES ASSUME SuccessMeansComplete, [ChainNext]_chainVars
               PROVE SuccessMeansComplete'
    BY Zenon
  <2>1. CASE UNCHANGED chainVars
    BY Zenon, <2>1 DEF chainVars, vars, SuccessMeansComplete, Complete
  <2>2. CASE ChainNext
    <3>1. PICK c \in Command : command' = c /\ tpm2_process_command(c)
      BY Zenon, <2>2 DEF ChainNext
    <3>2. CASE Passes(ChainChecks(c))
      BY Zenon, <3>1, <3>2, ChainPasses DEF SuccessMeansComplete, Complete
    <3>3. CASE ~Passes(ChainChecks(c))
      <4>1. rsp' = ErrorResponse(FirstFailure(ChainChecks(c)))
        BY Zenon, <3>1, <3>3 DEF tpm2_process_command
      <4>2. FirstFailure(ChainChecks(c)) # "TPM_RC_SUCCESS"
        BY Zenon, <3>3, ChainPasses, FirstFailureFails
      <4> QED
        BY Zenon, <4>1, <4>2 DEF ErrorResponse, SuccessMeansComplete
    <3> QED
      BY Zenon, <3>2, <3>3
  <2> QED
    BY Zenon, <2>1, <2>2
<1> QED
  BY <1>1, <1>2, PTL DEF ChainSpec

\* A refusal has no effect, except that of a CreatePrimary that is unmarshalled.
THEOREM RefusedHasNoEffectAlways == ChainSpec => RefusedHasNoEffect
<1> DEFINE A == rsp'.code # "TPM_RC_SUCCESS" =>
                  /\ UNCHANGED nvState
                  /\ \/ UNCHANGED <<primary, next_transient_handle>>
                     \/ /\ command'.code = "TPM_CC_CreatePrimary" /\ Complete(command')
                        /\ primary' \in {primary, NoKey}
<1>1. ChainNext => A
  <2> SUFFICES ASSUME NEW c \in Command, command' = c, tpm2_process_command(c),
                      rsp'.code # "TPM_RC_SUCCESS"
               PROVE /\ UNCHANGED nvState
                     /\ \/ UNCHANGED <<primary, next_transient_handle>>
                        \/ /\ command'.code = "TPM_CC_CreatePrimary"
                           /\ Complete(command')
                           /\ primary' \in {primary, NoKey}
    BY Zenon DEF ChainNext
  <2>1. CASE ~Passes(ChainChecks(c))
    BY Zenon, <2>1 DEF tpm2_process_command
  <2>2. CASE Passes(ChainChecks(c))
    <3>1. Dispatch(c) /\ Complete(c)
      BY Zenon, <2>2, ChainPasses DEF tpm2_process_command
    <3>2. CASE c.code = "TPM_CC_CreatePrimary"
      <4>1. PICK ecc \in TypeIsEcc(c) : handle_CreatePrimary(c.primaryHandle, ecc)
        BY Zenon, <3>1, <3>2 DEF Dispatch
      <4>2. UNCHANGED nvState /\ primary' \in {primary, NoKey}
        BY <4>1 DEF handle_CreatePrimary, tpm2_CreatePrimary, SuccessResponse
      <4> QED
        BY Zenon, <3>1, <3>2, <4>2
    <3>3. CASE c.code = "TPM_CC_NV_DefineSpace"
      BY <3>1, <3>3 DEF Dispatch, handle_NV_DefineSpace, SuccessResponse
    <3>4. CASE c.code = "TPM_CC_NV_Write"
      BY <3>1, <3>4 DEF Dispatch, handle_NV_Write, SuccessResponse
    <3>5. CASE c.code = "TPM_CC_NV_Read"
      BY Zenon, <3>1, <3>5 DEF Dispatch, handle_NV_Read
    <3>6. CASE c.code = "TPM_CC_GetRandom"
      BY Zenon, <3>1, <3>6 DEF Dispatch, handle_GetRandom
    <3> QED
      BY Zenon, <3>1, <3>2, <3>3, <3>4, <3>5, <3>6 DEF Dispatch
  <2> QED
    BY Zenon, <2>1, <2>2
<1>2. [ChainNext]_chainVars => [A]_chainVars
  BY Zenon, <1>1
<1>3. RefusedHasNoEffect <=> [][A]_chainVars
  BY Zenon DEF RefusedHasNoEffect
<1> QED
  BY <1>2, <1>3, PTL DEF ChainSpec

\* An index is permanent, whatever commands the guest sends.
THEOREM ChainNvPermanent == ChainSpec => NvPermanent
<1> DEFINE A == \A i \in DOMAIN nv_map : IndexKept(i)
<1>1. IInv /\ [ChainNext]_chainVars => [A]_vars
  <2> SUFFICES ASSUME IInv, [ChainNext]_chainVars, NEW j \in DOMAIN nv_map
               PROVE  IndexKept(j)
    BY Zenon
  <2>1. CASE ChainNext
    BY Zenon, <2>1, ProcessKept DEF ChainNext
  <2>2. CASE UNCHANGED chainVars
    BY Zenon, <2>2, QuietKept DEF chainVars, vars
  <2> QED
    BY Zenon, <2>1, <2>2
<1>2. NvPermanent <=> [][A]_vars
  BY Zenon DEF NvPermanent
<1> QED
  BY <1>1, <1>2, ChainInvariant, PTL DEF ChainSpec
=============================================================================
