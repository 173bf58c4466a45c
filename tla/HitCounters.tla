----------------------------- MODULE HitCounters -----------------------------
(***************************************************************************)
(* What a rate limit means to its clients, whatever counts them: a sliding *)
(* window for each client, in which every request is counted at once and   *)
(* is let through only while the limit is not exceeded.  RateLimit shows   *)
(* that the user limiter keeps to it, although it reads an entry of the    *)
(* storage and writes it back in two calls.                                *)
(***************************************************************************)
EXTENDS Naturals

CONSTANTS Client, Max

VARIABLES
    hits,    \* requests of each client in this window and the one before
    through  \* requests let through in this window

counterVars == <<hits, through>>

Init ==
    /\ hits = [c \in Client |-> [curr |-> 0, prev |-> 0]]
    /\ through = [c \in Client |-> 0]

NewWindow(c) ==
    /\ hits' = [hits EXCEPT ![c] = [curr |-> 0, prev |-> hits[c].curr]]
    /\ through' = [through EXCEPT ![c] = 0]

Hit(c) == hits' = [hits EXCEPT ![c] = [curr |-> hits[c].curr + 1, prev |-> hits[c].prev]]

\* Some part of the previous window still counts.
LetThrough(c) ==
    /\ Hit(c)
    /\ \E p \in 0..hits[c].prev : hits[c].curr + 1 + p <= Max
    /\ through' = [through EXCEPT ![c] = through[c] + 1]

Refuse(c) ==
    /\ Hit(c)
    /\ \E p \in 0..hits[c].prev : hits[c].curr + 1 + p > Max
    /\ UNCHANGED through

Next == \E c \in Client : NewWindow(c) \/ LetThrough(c) \/ Refuse(c)

Spec == Init /\ [][Next]_counterVars
=============================================================================
