---------------------------- MODULE MCRenderReady ----------------------------
(***************************************************************************)
(* An instance of RenderReady for TLC: a service whose timeout ends before *)
(* the deadline of the page does, and one whose timeout ends after it.     *)
(***************************************************************************)
EXTENDS RenderReady

ShortAndLong == {3, 8}
=============================================================================
