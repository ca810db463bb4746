---------------------------- MODULE MCXbeeAtcmd ----------------------------
(***************************************************************************)
(* XbeeAtcmd for TLC: which address a module is given makes no difference. *)
(***************************************************************************)
EXTENDS XbeeAtcmd, TLC

AddressSymmetry == Permutations(Address)
=============================================================================
