-------------------------- MODULE MCRendererProcess --------------------------
(***************************************************************************)
(* An instance of RendererProcess for TLC.                                 *)
(***************************************************************************)
EXTENDS RendererProcess
=============================================================================
