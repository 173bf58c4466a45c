----------------------------- MODULE ChromePool -----------------------------
(***************************************************************************)
(* The pool of Chrome tabs (internal/infra/chrome/pool.go): a channel of   *)
(* capacity tokens, one browser context shared by all tabs, and a mutex    *)
(* that guards closed, profileDir and the replacement of the browser.      *)
(*                                                                         *)
(* A worker is a goroutine that calls the pool's methods.  The workers of  *)
(* this module are the most general caller the API allows: each of them    *)
(* may at any time start an Acquire, a Restart or a Close, and releases a  *)
(* tab exactly once.  Renderer.tla restricts them to the calls that the    *)
(* request handlers make.                                                  *)
(*                                                                         *)
(* A step ends where another goroutine can observe the difference: at the  *)
(* release of the mutex, at a channel operation, and between the reads and *)
(* writes the code makes without holding the mutex.                        *)
(*                                                                         *)
(* The n-th Restart installs browser n and its profile directory n in one  *)
(* critical section, so `restarts` also names the current browser and the  *)
(* current profile directory (p.browserCtx, p.profileDir).                 *)
(***************************************************************************)
EXTENDS Naturals, FiniteSets

CONSTANTS Worker,          \* goroutines that call the pool
          ChromePoolSize,  \* pdf.chrome_pool_size
          MaxRestarts,     \* bound of the model on p.restarts
          None             \* no worker, no browser, no directory

ASSUME PoolAssumption ==
    /\ IsFiniteSet(Worker)
    /\ ChromePoolSize \in Nat \ {0}
    /\ MaxRestarts \in Nat
    /\ None \notin Worker
    /\ None \notin Nat

VARIABLES
    sem,         \* tokens in the channel p.sem
    closed,      \* p.closed
    mu,          \* the worker inside a critical section of more than one step
    restarts,    \* p.restarts, and the name of the current browser
    live,        \* browsers whose context has not been cancelled
    profiles,    \* profile directories on disk
    undeleted,   \* directories whose best-effort removal failed
    pc,          \* where each worker is
    tab,         \* the browser each worker's tab was opened in
    dir          \* the directory each worker is about to remove

poolVars == <<sem, closed, mu, restarts, live, profiles, undeleted, pc, tab, dir>>

Browser == Nat

Location == {"idle", "waiting", "admitted", "using", "released", "returning",
             "restarting", "cleaning", "closing"}

TypeOK ==
    /\ sem \in 0..ChromePoolSize
    /\ closed \in BOOLEAN
    /\ mu \in Worker \cup {None}
    /\ restarts \in Nat
    /\ live \subseteq Browser
    /\ profiles \subseteq Browser
    /\ undeleted \subseteq Browser
    /\ pc \in [Worker -> Location]
    /\ tab \in [Worker -> Browser \cup {None}]
    /\ dir \in [Worker -> Browser \cup {None}]

Goto(w, from, to) == pc[w] = from /\ pc' = [pc EXCEPT ![w] = to]

\* NewPool: a full channel of tokens, browser 0 and its profile directory.
Init ==
    /\ sem = ChromePoolSize
    /\ closed = FALSE
    /\ mu = None
    /\ restarts = 0
    /\ live = {0}
    /\ profiles = {0}
    /\ undeleted = {}
    /\ pc = [w \in Worker |-> "idle"]
    /\ tab = [w \in Worker |-> None]
    /\ dir = [w \in Worker |-> None]
-----------------------------------------------------------------------------
(* Mutated forms: each is an action below with a bug that a change to      *)
(* pool.go might bring in.  They are not part of the specification.        *)

\* The select of Acquire takes a token that is not there.
MutAcquireToken(w) ==
    /\ sem' = sem - 1
    /\ Goto(w, "waiting", "admitted")
    /\ UNCHANGED <<closed, mu, restarts, live, profiles, undeleted, tab, dir>>

\* The context ends while the token is being received, and the token is lost.
MutAcquireTimeout(w) ==
    /\ sem' = IF sem > 0 THEN sem - 1 ELSE sem
    /\ Goto(w, "waiting", "idle")
    /\ UNCHANGED <<closed, mu, restarts, live, profiles, undeleted, tab, dir>>

\* The token is put back once here and once more in Release.
MutCancelTab(w) ==
    /\ sem' = IF sem < ChromePoolSize THEN sem + 1 ELSE sem
    /\ Goto(w, "using", "released")
    /\ UNCHANGED <<closed, mu, restarts, live, profiles, undeleted, tab, dir>>

\* Restart forgets to look at p.closed.
MutRestartBegin(w) ==
    /\ mu = None
    /\ restarts < MaxRestarts
    /\ mu' = w
    /\ dir' = [dir EXCEPT ![w] = restarts]
    /\ live' = live \ {restarts}
    /\ Goto(w, "idle", "restarting")
    /\ UNCHANGED <<sem, closed, restarts, profiles, undeleted, tab>>

\* Restart does not cancel the old browser.
MutRestartBeginNoCancel(w) ==
    /\ mu = None
    /\ ~closed
    /\ restarts < MaxRestarts
    /\ mu' = w
    /\ dir' = [dir EXCEPT ![w] = restarts]
    /\ Goto(w, "idle", "restarting")
    /\ UNCHANGED <<sem, closed, restarts, live, profiles, undeleted, tab>>

\* Restart returns without removing the old directory.
MutRestartInstall(w) ==
    /\ restarts' = restarts + 1
    /\ live' = live \cup {restarts + 1}
    /\ profiles' = profiles \cup {restarts + 1}
    /\ mu' = None
    /\ Goto(w, "restarting", "idle")
    /\ UNCHANGED <<sem, closed, undeleted, tab, dir>>

\* The clean-up removes p.profileDir instead of the directory read earlier.
MutRemoveProfile(w) ==
    /\ profiles' = profiles \ {restarts}
    /\ dir' = [dir EXCEPT ![w] = None]
    /\ Goto(w, "cleaning", "idle")
    /\ UNCHANGED <<sem, closed, mu, restarts, live, undeleted, tab>>

\* The early return of Close keeps the mutex.
MutCloseAgain(w) ==
    /\ mu = None
    /\ closed
    /\ pc[w] = "idle"
    /\ mu' = w
    /\ UNCHANGED <<sem, closed, restarts, live, profiles, undeleted, pc, tab, dir>>

\* Close does not cancel the browser.
MutCloseCancel(w) ==
    /\ Goto(w, "closing", "cleaning")
    /\ UNCHANGED <<sem, closed, mu, restarts, live, profiles, undeleted, tab, dir>>
-----------------------------------------------------------------------------
(* Acquire *)

AcquireCheck(w) ==
    /\ mu = None
    /\ ~closed
    /\ Goto(w, "idle", "waiting")
    /\ UNCHANGED <<sem, closed, mu, restarts, live, profiles, undeleted, tab, dir>>

\* "chrome pool is closed": Acquire returns the error without a change.
AcquireRefused(w) ==
    /\ mu = None
    /\ closed
    /\ pc[w] = "idle"
    /\ UNCHANGED poolVars

\* The select may pick ctx.Done() whenever the caller's context has ended,
\* also while tokens are available.
AcquireTimeout(w) ==
    /\ Goto(w, "waiting", "idle")
    /\ UNCHANGED <<sem, closed, mu, restarts, live, profiles, undeleted, tab, dir>>

AcquireToken(w) ==
    /\ sem > 0
    /\ sem' = sem - 1
    /\ Goto(w, "waiting", "admitted")
    /\ UNCHANGED <<closed, mu, restarts, live, profiles, undeleted, tab, dir>>

\* p.browserCtx is read without the mutex: while a Restart is between its
\* cancel and its install, or after a Close, the tab is born cancelled.
NewTab(w) ==
    /\ tab' = [tab EXCEPT ![w] = restarts]
    /\ Goto(w, "admitted", "using")
    /\ UNCHANGED <<sem, closed, mu, restarts, live, profiles, undeleted, dir>>
-----------------------------------------------------------------------------
(* Release *)

CancelTab(w) ==
    /\ tab' = [tab EXCEPT ![w] = None]
    /\ Goto(w, "using", "released")
    /\ UNCHANGED <<sem, closed, mu, restarts, live, profiles, undeleted, dir>>

\* A closed pool does not take its token back.
ReleaseCheck(w) ==
    /\ mu = None
    /\ Goto(w, "released", IF closed THEN "idle" ELSE "returning")
    /\ UNCHANGED <<sem, closed, mu, restarts, live, profiles, undeleted, tab, dir>>

\* The select with a default branch: a full channel would drop the token.
ReturnToken(w) ==
    /\ sem' = IF sem < ChromePoolSize THEN sem + 1 ELSE sem
    /\ Goto(w, "returning", "idle")
    /\ UNCHANGED <<closed, mu, restarts, live, profiles, undeleted, tab, dir>>
-----------------------------------------------------------------------------
(* Restart.  The mutex is held from RestartBegin to RestartInstall or      *)
(* RestartFail; the old directory is removed after it is released.         *)

RestartRefused(w) ==
    /\ mu = None
    /\ closed
    /\ pc[w] = "idle"
    /\ UNCHANGED poolVars

RestartBegin(w) ==
    /\ mu = None
    /\ ~closed
    /\ restarts < MaxRestarts
    /\ mu' = w
    /\ dir' = [dir EXCEPT ![w] = restarts]
    /\ live' = live \ {restarts}
    /\ Goto(w, "idle", "restarting")
    /\ UNCHANGED <<sem, closed, restarts, profiles, undeleted, tab>>

RestartInstall(w) ==
    /\ restarts' = restarts + 1
    /\ live' = live \cup {restarts + 1}
    /\ profiles' = profiles \cup {restarts + 1}
    /\ mu' = None
    /\ Goto(w, "restarting", "cleaning")
    /\ UNCHANGED <<sem, closed, undeleted, tab, dir>>

\* createProfileDir fails: the cancelled browser and the old directory stay.
RestartFail(w) ==
    /\ mu' = None
    /\ dir' = [dir EXCEPT ![w] = None]
    /\ Goto(w, "restarting", "idle")
    /\ UNCHANGED <<sem, closed, restarts, live, profiles, undeleted, tab>>

\* os.RemoveAll at the end of Restart and of Close; its error is ignored.
RemoveProfile(w) ==
    /\ \/ profiles' = profiles \ {dir[w]} /\ UNCHANGED undeleted
       \/ undeleted' = undeleted \cup {dir[w]} /\ UNCHANGED profiles
    /\ dir' = [dir EXCEPT ![w] = None]
    /\ Goto(w, "cleaning", "idle")
    /\ UNCHANGED <<sem, closed, mu, restarts, live, tab>>
-----------------------------------------------------------------------------
(* Close *)

CloseBegin(w) ==
    /\ mu = None
    /\ ~closed
    /\ closed' = TRUE
    /\ dir' = [dir EXCEPT ![w] = restarts]
    /\ Goto(w, "idle", "closing")
    /\ UNCHANGED <<sem, mu, restarts, live, profiles, undeleted, tab>>

CloseAgain(w) ==
    /\ mu = None
    /\ closed
    /\ pc[w] = "idle"
    /\ UNCHANGED poolVars

\* The cancel functions are read and called without the mutex.
CloseCancel(w) ==
    /\ live' = live \ {restarts}
    /\ Goto(w, "closing", "cleaning")
    /\ UNCHANGED <<sem, closed, mu, restarts, profiles, undeleted, tab, dir>>
-----------------------------------------------------------------------------
Acquire(w) == AcquireCheck(w) \/ AcquireRefused(w) \/ AcquireTimeout(w)
                \/ AcquireToken(w) \/ NewTab(w)
Release(w) == CancelTab(w) \/ ReleaseCheck(w) \/ ReturnToken(w)
Restart(w) == RestartRefused(w) \/ RestartBegin(w) \/ RestartInstall(w)
                \/ RestartFail(w) \/ RemoveProfile(w)
Close(w) == CloseBegin(w) \/ CloseAgain(w) \/ CloseCancel(w)

Next == \E w \in Worker : Acquire(w) \/ Release(w) \/ Restart(w) \/ Close(w)

Spec == Init /\ [][Next]_poolVars

\* The calls that have begun go on: the select returns at the latest when the
\* caller's context ends, callers release their tab ("callers must Release
\* it"), and the calls to the file system and to chromedp return.
Finish(w) == AcquireTimeout(w) \/ AcquireToken(w) \/ NewTab(w) \/ CancelTab(w)
               \/ ReturnToken(w) \/ RestartInstall(w) \/ RestartFail(w)
               \/ RemoveProfile(w) \/ CloseCancel(w)

\* Release waits for a mutex that other workers may take again and again;
\* a sync.Mutex hands itself to a waiter that has waited for a millisecond.
Fairness == \A w \in Worker : WF_poolVars(Finish(w)) /\ SF_poolVars(ReleaseCheck(w))

FairSpec == Spec /\ Fairness
-----------------------------------------------------------------------------
(* Properties *)

\* Workers that hold a token: Acquire took it and Release has not put it back.
Holders == {w \in Worker : pc[w] \in {"admitted", "using", "released", "returning"}}

\* Stats.InUse
InUse == ChromePoolSize - sem

\* Whatever the order in which Acquire, its timeout, Release and Close meet,
\* no token is forged, and none is lost before the pool is closed: in_use of
\* the stats endpoint counts the holders.
CapacityConserved ==
    /\ Cardinality(Holders) <= InUse
    /\ ~closed => Cardinality(Holders) = InUse

\* A browser that was replaced or closed does not live on beside its
\* successor ("keeps one long-lived Chromium process").
OneLiveBrowser == live \subseteq {restarts}

\* The clean-up that Restart and Close do outside the mutex never removes the
\* directory of a browser that is still running.
LiveBrowserHasProfile == live \subseteq profiles

\* Every directory on disk is the current one or one that some worker is about
\* to remove, unless its removal failed; the last clean-up of a closed
\* pool leaves nothing behind.
NoProfileLeak ==
    LET doomed == {dir[w] : w \in {v \in Worker : pc[v] \in {"closing", "cleaning"}}}
        current == IF closed THEN {} ELSE {restarts}
    IN  profiles \subseteq current \cup doomed \cup undeleted

\* The mutex that Restart and Close unlock by hand is held only by a Restart that
\* is starting a browser, on no other way out, and a closed pool is unlocked.
LockHasHolder == mu # None => pc[mu] = "restarting" /\ ~closed

\* No browser is started once the pool is closed, and closed is for ever.
NoStartAfterClose == [][closed => closed' /\ live' \subseteq live]_poolVars

\* The tokens implement the slots that the pool promises.
Slots == INSTANCE RenderSlots WITH
             Slots <- ChromePoolSize,
             open <- ~closed,
             asked <- {w \in Worker : pc[w] = "waiting"},
             admitted <- Holders

ImplementsSlots == Slots!Spec

\* Every call returns, and so does every tab: nobody waits for ever for the
\* mutex or in the select, also when Close and Restart come in between.
CallsReturn == \A w \in Worker : pc[w] # "idle" ~> pc[w] = "idle"

\* Once the pool is closed its browser dies and its directories go, for good.
CloseCompletes == closed ~> [](live = {} /\ profiles \subseteq undeleted)
=============================================================================
