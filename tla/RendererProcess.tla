--------------------------- MODULE RendererProcess ---------------------------
(***************************************************************************)
(* The process of the pdf-renderer (cmd/html2pdf/main.go): it starts,      *)
(* listens, serves requests as Renderer says, and ends on a signal or by a *)
(* crash.  Shutdown waits five seconds for the requests under way, then    *)
(* the process exits in any case, and it never closes the pool.            *)
(*                                                                         *)
(* With a process its memory and its Chromes are gone, but not what is on  *)
(* disk and in Redis.                                                      *)
(***************************************************************************)
EXTENDS Renderer

CONSTANT MaxRuns     \* bound of the model on the starts of the process

ASSUME ProcessAssumption == MaxRuns \in Nat

VARIABLES
    process,     \* whether it runs, waits for signals, or shuts down
    listener,    \* the listening socket
    exits,       \* history: ends of the process
    cutOff,      \* history: requests that were under way at an exit
    orphans      \* history: profile directories nobody will remove any more

memory == <<poolState, made, poolMu, stage, doc, attempt, outcome, failedIn, own>>
stored == <<cache, rendered, received, pooled>>
control == <<process, listener, exits, cutOff, orphans>>
processVars == <<memory, stored, control>>

Busy == {w \in Worker : stage[w] # "idle"}

ProcessTypeOK ==
    /\ TypeOK
    /\ process \in {"down", "started", "running", "stopping"}
    /\ listener \in {"none", "open", "failed", "closed"}
    /\ exits \in 0..MaxRuns /\ cutOff \in Nat /\ orphans \in Nat

ProcessInit ==
    /\ Init
    /\ process = "down"
    /\ listener = "none"
    /\ exits = 0
    /\ cutOff = 0
    /\ orphans = 0

Become(from, to) == process = from /\ process' = to

\* Memory is as in Init again.
Forget ==
    /\ sem' = ChromePoolSize /\ closed' = FALSE /\ mu' = None
    /\ restarts' = 0 /\ live' = {} /\ profiles' = {} /\ undeleted' = {}
    /\ made' = 0 /\ poolMu' = None /\ own' = {}
    /\ pc' = [w \in Worker |-> "idle"] /\ stage' = [w \in Worker |-> "idle"]
    /\ attempt' = [w \in Worker |-> 0]
    /\ tab' = [w \in Worker |-> None] /\ dir' = [w \in Worker |-> None]
    /\ doc' = [w \in Worker |-> None] /\ failedIn' = [w \in Worker |-> None]
    /\ outcome' = [w \in Worker |-> None]
-----------------------------------------------------------------------------
(* A mutated form of ForcedExit, not part of the specification: app.Shutdown *)
(* in place of ShutdownWithContext.                                        *)
MutForcedExit ==
    /\ Busy = {}
    /\ Become("stopping", "down")
    /\ listener' = "none"
    /\ exits' = exits + 1
    /\ orphans' = orphans + Cardinality(profiles \ undeleted) + Cardinality(own)
    /\ Forget
    /\ UNCHANGED <<stored, cutOff>>
-----------------------------------------------------------------------------
\* main: configuration, Redis client, routes.
Start ==
    /\ exits < MaxRuns
    /\ Become("down", "started")
    /\ UNCHANGED <<memory, stored, listener, exits, cutOff, orphans>>

\* The goroutine of startServer.  An error is logged, and the process goes on
\* without a listener.
Listen ==
    /\ process \in {"started", "running"}
    /\ listener = "none"
    /\ listener' \in {"open", "failed"}
    /\ UNCHANGED <<memory, stored, process, exits, cutOff, orphans>>

\* signal.Notify, which may come after the first requests.
Notify ==
    /\ Become("started", "running")
    /\ UNCHANGED <<memory, stored, listener, exits, cutOff, orphans>>

\* A request on one of the three routes.
Accept(w) ==
    /\ listener = "open"
    /\ ReceiveStats(w) \/ \E d \in Document : Receive(w, d)
    /\ UNCHANGED control

Serve(w) == Handle(w) /\ UNCHANGED control

Expire(d) == CacheExpire(d) /\ UNCHANGED control

\* SIGINT or SIGTERM: ShutdownWithContext closes the listener and waits.
Signal ==
    /\ Become("running", "stopping")
    /\ listener' = "closed"
    /\ UNCHANGED <<memory, stored, exits, cutOff, orphans>>

\* The end of a process, whatever it was doing.
Exit ==
    /\ process' = "down"
    /\ listener' = "none"
    /\ exits' = exits + 1
    /\ cutOff' = cutOff + Cardinality(Busy)
    /\ orphans' = orphans + Cardinality(profiles \ undeleted) + Cardinality(own)
    /\ Forget
    /\ UNCHANGED stored

\* All requests are answered in time.
DrainedExit == process = "stopping" /\ Busy = {} /\ Exit

\* The five seconds are over.
ForcedExit == process = "stopping" /\ Exit

\* A panic, SIGKILL, or a signal that comes before Notify.
Crash == process # "down" /\ Exit

ProcessNext ==
    \/ Start \/ Listen \/ Notify \/ Signal \/ DrainedExit \/ ForcedExit \/ Crash
    \/ \E w \in Worker : Accept(w) \/ Serve(w)
    \/ \E d \in Document : Expire(d)

\* The timer of the shutdown ends, whether or not the requests do.
ProcessSpec == ProcessInit /\ [][ProcessNext]_processVars /\ WF_processVars(ForcedExit)
-----------------------------------------------------------------------------
(* Properties *)

\* What processes leave on disk is bounded by what happened to them: one profile
\* directory for each exit with a pool, and at most one more for each request
\* that was cut off, besides those whose removal failed.  However often the
\* browser was restarted, restarts leave nothing.
LeftOnDisk == orphans <= cutOff + (IF pooled THEN exits ELSE 0)

\* A signal ends the process, even if some request hangs.
SignalEndsProcess == process = "stopping" ~> process = "down"
=============================================================================
