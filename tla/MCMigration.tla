---------------------------- MODULE MCMigration -----------------------------
(* Three commands of main.c that change or show the NV storage, and        *)
(* CreatePrimary, whose answer is longer than a header; the bank has room  *)
(* for the index of option 3.                                              *)
EXTENDS Migration, TLC

TEST == [size |-> 4, buffer |-> [i \in 0 .. 3 |-> "T"]]

MCBuffer == {TEST}

MCAttributes == {[nvType |-> TPM_NT_ORDINARY,
                  bits |-> {"ownerWrite", "authWrite", "ownerRead", "authRead"}]}

Header(code, size) ==
  [tag |-> "TPM_ST_NO_SESSIONS", code |-> code, size |-> size]

MCMenu ==
  "2" :> [len |-> 68, command |-> Header("TPM_CC_CreatePrimary", 68) @@
          [primaryHandle |-> "TPM_RH_OWNER", inSensitiveSize |-> 10,
           userAuthSize |-> 6, dataSize |-> 0, inPublicSize |-> 34, ecc |-> TRUE]] @@
  "3" :> [len |-> 32, command |-> Header("TPM_CC_NV_DefineSpace", 32) @@
          [authHandle |-> "TPM_RH_OWNER", authSize |-> 0, nvIndex |-> 16777217,
           attributes |-> CHOOSE a \in MCAttributes : TRUE, authPolicySize |-> 0,
           dataSize |-> 32]] @@
  "4" :> [len |-> 28, command |-> Header("TPM_CC_NV_Write", 28) @@
          [authHandle |-> "TPM_RH_PLATFORM", nvIndex |-> 16777217, authSize |-> 0,
           data |-> TEST, offset |-> 0]] @@
  "5" :> [len |-> 24, command |-> Header("TPM_CC_NV_Read", 24) @@
          [authHandle |-> "TPM_RH_PLATFORM", nvIndex |-> 16777217, authSize |-> 0,
           sizeToRead |-> 4, offset |-> 0]]

MCOption == DOMAIN MCMenu

MCCommand == {MCMenu[o].command : o \in MCOption}
=============================================================================
