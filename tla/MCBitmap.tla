-------------------------------- MODULE MCBitmap --------------------------------
(***************************************************************************)
(* An instance of Bitmap for TLC: words of two bits, up to three of them,  *)
(* so that a range can have a word between those of its ends.              *)
(***************************************************************************)
EXTENDS Bitmap, TLC

MCSymmetry == Permutations(Owned)

\* The history does not tell states apart; every call is still checked.
MCView == bitmap
===============================================================================
