----------------------------- MODULE MCRenderer -----------------------------
(***************************************************************************)
(* Instances of Renderer for TLC.  One token for more than one worker, so  *)
(* that requests wait for a tab and interfere through Restart.             *)
(***************************************************************************)
EXTENDS Renderer
=============================================================================
