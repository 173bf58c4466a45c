---------------------------- MODULE RenderSlots ----------------------------
(***************************************************************************)
(* What the Chrome pool promises its callers, as the comment on type Pool  *)
(* puts it: the pool "limits concurrent renders".  A worker asks for a     *)
(* slot, is admitted or gives up, and leaves.  At most Slots workers are   *)
(* admitted at any time, and nobody who asks after the pool was shut is    *)
(* admitted.  How the slots are counted, what a slot is made of and when   *)
(* the browser behind it is replaced is left to ChromePool.                *)
(***************************************************************************)
EXTENDS Naturals, FiniteSets

CONSTANTS Worker,   \* the goroutines that render
          Slots     \* how many of them may render at a time

VARIABLES open,     \* the pool has not been shut
          asked,    \* workers waiting for a slot
          admitted  \* workers that hold a slot

slotVars == <<open, asked, admitted>>

Init ==
    /\ open = TRUE
    /\ asked = {}
    /\ admitted = {}

Ask(w) ==
    /\ open
    /\ w \notin asked \cup admitted
    /\ asked' = asked \cup {w}
    /\ UNCHANGED <<open, admitted>>

Admit(w) ==
    /\ w \in asked
    /\ Cardinality(admitted) < Slots
    /\ asked' = asked \ {w}
    /\ admitted' = admitted \cup {w}
    /\ UNCHANGED open

GiveUp(w) ==
    /\ w \in asked
    /\ asked' = asked \ {w}
    /\ UNCHANGED <<open, admitted>>

Leave(w) ==
    /\ w \in admitted
    /\ admitted' = admitted \ {w}
    /\ UNCHANGED <<open, asked>>

Shut ==
    /\ open' = FALSE
    /\ UNCHANGED <<asked, admitted>>

Next ==
    \/ \E w \in Worker : Ask(w) \/ Admit(w) \/ GiveUp(w) \/ Leave(w)
    \/ Shut

Spec == Init /\ [][Next]_slotVars
=============================================================================
