----------------------------- MODULE MCConsole ------------------------------
(***************************************************************************)
(* The console for TLC: a multiplexer that stores two keys, and five keys, *)
(* two more than the console holds.                                        *)
(***************************************************************************)
EXTENDS Console

Keys == 1 .. 5

NoModem == {}

NoMask == {{}}
=============================================================================
