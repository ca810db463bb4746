--------------------------- MODULE MCXbeeFirmware ---------------------------
(***************************************************************************)
(* XbeeFirmware for TLC: an image of more blocks than a block number can   *)
(* tell apart, no two of them the same.                                    *)
(***************************************************************************)
EXTENDS XbeeFirmware

Image == <<1, 2, 3, 4, 5>>
=============================================================================
