----------------------------- MODULE MCExtAuthz -----------------------------
(***************************************************************************)
(* Instances of ExtAuthz for TLC.  Requests share nothing but the cache,   *)
(* which they only read, so that one or two of them and one key show what  *)
(* reloads can do to a request.                                            *)
(***************************************************************************)
EXTENDS ExtAuthz

Basic == [rateLimit |-> 1, ops |-> FALSE]
Admin == [rateLimit |-> 2, ops |-> TRUE]
Unlimited == [rateLimit |-> 0, ops |-> FALSE]

Plans == {Basic, Admin}
AllPlans == {Basic, Admin, Unlimited}
=============================================================================
