----------------------------- MODULE RenderReady -----------------------------
(***************************************************************************)
(* One render in a tab (renderPDFInExistingTab and waitForRenderReady of   *)
(* handlers/pdf.go): load the page, poll four conditions one after the     *)
(* other until a deadline they share, print.  The whole of it runs under   *)
(* a context that ends after timeout_secs, which only calls to Chrome      *)
(* notice: time.Sleep does not.                                            *)
(*                                                                         *)
(* Chrome may take any time for an answer, and the page may change while   *)
(* it is polled: fonts and images begin to load again, scripts run on.     *)
(* Whether a render starts a Chrome of its own first makes no difference.  *)
(***************************************************************************)
EXTENDS Naturals

CONSTANTS Wait,       \* the 15 seconds renderPDFInExistingTab waits for a page
          Poll,       \* the 100 milliseconds between two looks
          Timeouts    \* values of pdf.timeout_secs

ASSUME ReadyAssumption ==
    /\ Wait \in Nat
    /\ Poll \in Nat \ {0}
    /\ Timeouts \subseteq Nat

\* document.readyState, window.__HTML2PDF_READY__, document.fonts, document.images
Condition == 1..4

VARIABLES
    timeout,     \* pdf.timeout_secs of this service
    now,         \* time since the context was made
    slept,       \* how much of it was spent in time.Sleep
    deadline,    \* the deadline of waitForRenderReady
    step,        \* what the goroutine does
    phase,       \* the condition that is polled; 5 after the last one
    ready,       \* conditions the page satisfies
    lost         \* history: conditions that were seen and went again

vars == <<timeout, now, slept, deadline, step, phase, ready, lost>>
page == <<ready, lost>>

AskingChrome == {"loading", "evaluating", "printing"}
Ended == {"printed", "failed", "timedOut"}

TypeOK ==
    /\ timeout \in Timeouts
    /\ now \in Nat /\ slept \in 0..now /\ deadline \in Nat
    /\ step \in AskingChrome \cup Ended \cup {"polling", "sleeping"}
    /\ phase \in 1..5
    /\ ready \subseteq Condition
    /\ lost \subseteq Condition

Init ==
    /\ timeout \in Timeouts
    /\ now = 0
    /\ slept = 0
    /\ deadline = 0
    /\ step = "loading"
    /\ phase = 1
    /\ ready \in SUBSET Condition
    /\ lost = {}
-----------------------------------------------------------------------------
(* Mutated forms: definitions below with a bug that a change to pdf.go     *)
(* might bring in.  They are not part of the specification.                *)

\* The answer of Chrome is not looked at.
MutSeen ==
    /\ step = "evaluating"
    /\ now <= timeout
    /\ step' = "polling"
    /\ phase' = phase + 1
    /\ UNCHANGED <<timeout, now, slept, deadline, page>>

\* Every condition has a deadline of its own.
MutSeenNewDeadline ==
    /\ step = "evaluating"
    /\ now <= timeout
    /\ phase \in ready
    /\ step' = "polling"
    /\ phase' = phase + 1
    /\ deadline' = now + Wait
    /\ UNCHANGED <<timeout, now, slept, page>>

\* An error of Evaluate is taken for a page that is not ready.
MutTimeOut ==
    /\ step \in AskingChrome
    /\ now >= timeout
    /\ step' = IF step = "evaluating" THEN "sleeping" ELSE "timedOut"
    /\ UNCHANGED <<timeout, now, slept, deadline, phase, page>>

\* The polls go on although the last condition was seen.
MutGiveUp ==
    /\ step = "polling"
    /\ step' = IF now >= deadline THEN "printing" ELSE "evaluating"
    /\ phase' = phase + 1
    /\ UNCHANGED <<timeout, now, slept, deadline, page>>
-----------------------------------------------------------------------------
Go(from, to) == step = from /\ step' = to

\* Chrome's answer comes before the context has ended.
Answer(from, to) == now <= timeout /\ Go(from, to)

\* Navigate, SetDocumentContent for HTML, and WaitReady("body").
Load ==
    /\ Answer("loading", "polling")
    /\ deadline' = now + Wait
    /\ UNCHANGED <<timeout, now, slept, phase, page>>

Look ==
    /\ Go("polling", "evaluating")
    /\ phase \in Condition
    /\ now < deadline
    /\ UNCHANGED <<timeout, now, slept, deadline, phase, page>>

Seen ==
    /\ Answer("evaluating", "polling")
    /\ phase \in ready
    /\ phase' = phase + 1
    /\ UNCHANGED <<timeout, now, slept, deadline, page>>

NotSeen ==
    /\ Answer("evaluating", "sleeping")
    /\ phase \notin ready
    /\ UNCHANGED <<timeout, now, slept, deadline, phase, page>>

Sleep ==
    /\ Go("sleeping", "polling")
    /\ now' = now + Poll
    /\ slept' = slept + Poll
    /\ UNCHANGED <<timeout, deadline, phase, page>>

\* All four were seen, or the loops end one after the other.
GiveUp ==
    /\ Go("polling", "printing")
    /\ phase \notin Condition \/ now >= deadline
    /\ UNCHANGED <<timeout, now, slept, deadline, phase, page>>

Printed ==
    /\ Answer("printing", "printed")
    /\ UNCHANGED <<timeout, now, slept, deadline, phase, page>>

\* The context has ended: chromedp returns DeadlineExceeded.
TimeOut ==
    /\ step \in AskingChrome
    /\ now >= timeout
    /\ step' = "timedOut"
    /\ UNCHANGED <<timeout, now, slept, deadline, phase, page>>

\* Chrome refuses, or the session is interrupted.
Fail ==
    /\ step \in AskingChrome
    /\ step' = "failed"
    /\ UNCHANGED <<timeout, now, slept, deadline, phase, page>>

\* Chrome takes its time, but not when the context has ended.
Tick ==
    /\ step \in AskingChrome
    /\ now < timeout
    /\ now' = now + 1
    /\ UNCHANGED <<timeout, slept, deadline, step, phase, page>>

PageChanges ==
    /\ step \notin Ended
    /\ ready' \in SUBSET Condition \ {ready}
    /\ lost' = lost \cup {c \in ready \ ready' : c < phase}
    /\ UNCHANGED <<timeout, now, slept, deadline, step, phase>>

\* The next render, of another page.
Again ==
    /\ step \in Ended
    /\ now' = 0
    /\ slept' = 0
    /\ deadline' = 0
    /\ step' = "loading"
    /\ phase' = 1
    /\ ready' \in SUBSET Condition
    /\ lost' = {}
    /\ UNCHANGED timeout

Next ==
    \/ Load \/ Look \/ Seen \/ NotSeen \/ Sleep \/ GiveUp \/ Printed \/ TimeOut \/ Fail
    \/ Tick \/ PageChanges \/ Again

Spec == Init /\ [][Next]_vars
-----------------------------------------------------------------------------
(* Properties *)

\* What is missing when the page is printed was either seen before and went
\* again while later conditions were polled, or the deadline has passed.
PrintedWhenReady ==
    step = "printed" => \A c \in Condition : c \in ready \cup lost \/ now >= deadline

\* A render holds its tab no longer than timeout_secs and one sleep, however
\* deadline and timeout lie to each other.
EndsInTime == now <= timeout + Poll

\* A page that never gets ready is printed as it is rather than refused: what a
\* render that timed out had beyond the deadline and a sleep, Chrome has taken.
NotReadyIsNoTimeout ==
    step = "timedOut" => now - slept > timeout - (Wait + Poll)
=============================================================================
