---------------------------- MODULE MCRateLimit ----------------------------
(***************************************************************************)
(* Instances of RateLimit for TLC.  One key and one user, on which all     *)
(* workers meet, and two limits, so that a key can change its limiter.     *)
(***************************************************************************)
EXTENDS RateLimit
=============================================================================
