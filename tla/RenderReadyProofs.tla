-------------------------- MODULE RenderReadyProofs --------------------------
(***************************************************************************)
(* Theorems about RenderReady for any deadline, any time between two looks *)
(* and any timeouts.                                                       *)
(*                                                                         *)
(* The bound on the time spent asleep holds because each sleep follows a   *)
(* look that came before the deadline: SleepInv says how much may have     *)
(* been slept in each step.                                                *)
(***************************************************************************)
EXTENDS RenderReady, TLAPS

\* Conditions behind the phase were seen; printing means done or late.
PollInv ==
    /\ \A c \in Condition : c < phase => c \in ready \cup lost
    /\ step \in {"printing", "printed"} => phase = 5 \/ now >= deadline

SleepInv ==
    /\ step # "loading" => slept + deadline <= now + Wait
    /\ step = "loading" => slept = 0 /\ deadline = 0
    /\ step \in {"evaluating", "sleeping"} => slept < Wait
    /\ slept < Wait + Poll

TimeInv ==
    /\ now <= timeout + Poll
    /\ step = "sleeping" => now <= timeout
    /\ step = "timedOut" => now >= timeout

IInv == TypeOK /\ PollInv /\ SleepInv /\ TimeInv

LEMMA Initial == Init => IInv
BY ReadyAssumption
DEF ReadyAssumption, Init, IInv, TypeOK, PollInv, SleepInv, TimeInv, AskingChrome, Ended, Condition

LEMMA Step == IInv /\ [Next]_vars => IInv'
<1> SUFFICES ASSUME IInv, [Next]_vars PROVE IInv'
    OBVIOUS
<1>0. timeout \in Nat /\ Wait \in Nat /\ Poll \in Nat \ {0}
    BY ReadyAssumption DEF ReadyAssumption, IInv, TypeOK
<1> USE <1>0 DEF IInv, TypeOK, PollInv, SleepInv, TimeInv, AskingChrome, Ended, Condition,
                 Go, Answer, page
<1>1. CASE Load
    BY <1>1 DEF Load
<1>2. CASE Look
    BY <1>2 DEF Look
<1>3. CASE Seen
    BY <1>3 DEF Seen
<1>4. CASE NotSeen
    BY <1>4 DEF NotSeen
<1>5. CASE Sleep
    BY <1>5 DEF Sleep
<1>6. CASE GiveUp
    BY <1>6 DEF GiveUp
<1>7. CASE Printed
    BY <1>7 DEF Printed
<1>8. CASE TimeOut
    BY <1>8 DEF TimeOut
<1>9. CASE Fail
    BY <1>9 DEF Fail
<1>10. CASE Tick
    BY <1>10 DEF Tick
\* A condition behind the phase that leaves ready is put into lost.
<1>11. CASE PageChanges
    BY <1>11 DEF PageChanges
<1>12. CASE Again
    BY <1>12 DEF Again
<1>13. CASE UNCHANGED vars
    BY <1>13 DEF vars
<1> QED
    BY <1>1, <1>2, <1>3, <1>4, <1>5, <1>6, <1>7, <1>8, <1>9, <1>10, <1>11, <1>12, <1>13 DEF Next

LEMMA Invariance == Spec => []IInv
BY Initial, Step, PTL DEF Spec

\* Every variable keeps its type.
THEOREM TypeCorrect == Spec => []TypeOK
BY Invariance, PTL DEF IInv

\* Whatever the page does, what is missing in a print was seen before, or the
\* deadline has passed.
THEOREM PrintsWhatIsReady == Spec => []PrintedWhenReady
<1>1. IInv => PrintedWhenReady
    BY DEF IInv, TypeOK, PollInv, PrintedWhenReady, Condition
<1> QED
    BY <1>1, Invariance, PTL

\* The goroutine overruns timeout_secs by one sleep at most.
THEOREM RenderEndsInTime == Spec => []EndsInTime
<1>1. IInv => EndsInTime
    BY DEF IInv, TimeInv, EndsInTime
<1> QED
    BY <1>1, Invariance, PTL

\* Waiting for a page takes no more than the deadline and a sleep of the time a
\* render has; the rest of what a timeout takes is Chrome's.
THEOREM WaitingIsBounded == Spec => []NotReadyIsNoTimeout
<1>1. IInv => NotReadyIsNoTimeout
    <2> SUFFICES ASSUME IInv, step = "timedOut"
                 PROVE  now - slept > timeout - (Wait + Poll)
        BY DEF NotReadyIsNoTimeout
    <2>1. timeout \in Nat /\ Wait \in Nat /\ Poll \in Nat /\ now \in Nat /\ slept \in Nat
        BY ReadyAssumption DEF ReadyAssumption, IInv, TypeOK
    <2>2. now >= timeout /\ slept < Wait + Poll
        BY DEF IInv, SleepInv, TimeInv
    <2> QED
        BY <2>1, <2>2
<1> QED
    BY <1>1, Invariance, PTL
=============================================================================
