---------------------------- MODULE MCChromePool ----------------------------
(***************************************************************************)
(* An instance of ChromePool for TLC: more workers than slots, so that    *)
(* some wait; restarts enough for one to begin while another cleans up.    *)
(***************************************************************************)
EXTENDS ChromePool
=============================================================================
