---------------------------- MODULE MCTokenReload ----------------------------
(***************************************************************************)
(* Instances of TokenReload for TLC: two keys, so that a table can be half *)
(* old and half new, and one key can be bad while the other is revoked.    *)
(***************************************************************************)
EXTENDS TokenReload
=============================================================================
