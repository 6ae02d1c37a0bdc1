---------------------------- MODULE MCPageAlloc ----------------------------
(* Instances of PageAlloc: a pool of a few pages and one spare descriptor. *)
EXTENDS PageAlloc

(* Every size a pool of NumPages pages could serve.                        *)
ServableSizes == 1 .. NumPages

(* ... and one that it could not.                                          *)
OversizedToo == 1 .. (NumPages + 1)
=============================================================================
