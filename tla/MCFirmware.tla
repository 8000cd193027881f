----------------------------- MODULE MCFirmware -----------------------------
(* The twelve commands of main.c, with their real sizes.  The bank is just *)
(* large enough for the index of tpm2_realize, 0x1500016, and the one of  *)
(* option 3, 0x01000001.                                                   *)
EXTENDS Firmware, TLC

B(s) == [size |-> Len(s), buffer |-> [i \in 0 .. (Len(s) - 1) |-> s[i + 1]]]

TEST == B(<<"T", "E", "S", "T">>)

As == B([i \in 1 .. 33 |-> "A"])

FmtStr == B([i \in 1 .. 11 |-> "%"])

MCBuffer == {TEST, As, FmtStr}

\* 0x024C0006
MCAttributes == {[nvType |-> TPM_NT_ORDINARY,
                  bits |-> {"ownerWrite", "authWrite", "ownerRead", "authRead"}]}

Header(code, size) ==
  [tag |-> "TPM_ST_NO_SESSIONS", code |-> code, size |-> size]

GetRandom(size, n) == Header("TPM_CC_GetRandom", size) @@ [bytesRequested |-> n]

Write(size, data) ==
  Header("TPM_CC_NV_Write", size) @@
  [authHandle |-> "TPM_RH_PLATFORM", nvIndex |-> 16777217, authSize |-> 0,
   data |-> data, offset |-> 0]

Read(index, n) ==
  Header("TPM_CC_NV_Read", 24) @@
  [authHandle |-> "TPM_RH_PLATFORM", nvIndex |-> index, authSize |-> 0,
   sizeToRead |-> n, offset |-> 0]

CreatePrimary ==
  Header("TPM_CC_CreatePrimary", 68) @@
  [primaryHandle |-> "TPM_RH_OWNER", inSensitiveSize |-> 10, userAuthSize |-> 6,
   dataSize |-> 0, inPublicSize |-> 34, ecc |-> TRUE]

DefineSpace ==
  Header("TPM_CC_NV_DefineSpace", 32) @@
  [authHandle |-> "TPM_RH_OWNER", authSize |-> 0, nvIndex |-> 16777217,
   attributes |-> CHOOSE a \in MCAttributes : TRUE, authPolicySize |-> 0,
   dataSize |-> 32]

Item(len, cmd) == [len |-> len, command |-> cmd]

MCMenu ==
  "1" :> Item(12, GetRandom(12, 32)) @@
  "2" :> Item(68, CreatePrimary) @@
  "3" :> Item(32, DefineSpace) @@
  "4" :> Item(28, Write(28, TEST)) @@
  "5" :> Item(24, Read(16777217, 4)) @@
  "6" :> Item(12, GetRandom(48, 4)) @@
  "7" :> Item(12, GetRandom(12, 65535)) @@
  "8" :> Item(24, Read(16777217, 1024)) @@
  "9" :> Item(55, Write(61, As)) @@
  "a" :> Item(35, Write(43, FmtStr)) @@
  "b" :> Item(24, Read(16777218, 4)) @@
  "c" :> Item(12, GetRandom(12, 65535))

MCOption == DOMAIN MCMenu

MCCommand == {MCMenu[o].command : o \in MCOption}
=============================================================================
