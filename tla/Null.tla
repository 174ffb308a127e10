-------------------------------- MODULE Null --------------------------------
(***************************************************************************)
(* What a pointer or an identifier is that stands for no object.  Modules  *)
(* that are composed extend this one, so that they mean the same by it.    *)
(***************************************************************************)
CONSTANT None
=============================================================================
