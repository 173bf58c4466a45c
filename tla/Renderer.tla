------------------------------ MODULE Renderer ------------------------------
(***************************************************************************)
(* The request handlers of the pdf-renderer (handlers/pdf.go) on top of    *)
(* one ChromePool: a request looks into the Redis cache, obtains the pool  *)
(* (created by the first request that needs it), renders in a tab, on a    *)
(* session failure restarts the browser and renders once more, stores the  *)
(* PDF and answers.  GET /v0/chrome/stats obtains the pool the same way.   *)
(* With chrome_pool_size 0 there is no pool: each request starts a Chrome  *)
(* of its own, in a profile directory of its own, and does not retry.      *)
(*                                                                         *)
(* A worker is the goroutine that serves one request at a time.  The       *)
(* handlers never call Close and never call Restart but for a retry.       *)
(*                                                                         *)
(* What Chrome does with a page is outside the code: a render in a live    *)
(* tab may succeed or fail in any of the ways the handlers tell apart, and *)
(* one in a cancelled tab cannot succeed.  A Redis call may fail at any    *)
(* time, which also stands for a service without a cache.                  *)
(***************************************************************************)
EXTENDS Naturals, FiniteSets

CONSTANTS Worker, ChromePoolSize, MaxRestarts, None,
          Document,     \* what a request asks to print; one cache key each
          Oversize,     \* documents whose PDF exceeds limits.max_pdf_bytes
          MaxRequests   \* bound of the model on the requests received

\* IsSessionInterrupted: a deadline counts, whatever it was a deadline for.
SessionInterrupted == {"deadline", "interrupted"}
Outcome == {"ok", "failed"} \cup SessionInterrupted

ASSUME RendererAssumption ==
    /\ IsFiniteSet(Worker)
    /\ ChromePoolSize \in Nat \ {0}
    /\ MaxRestarts \in Nat
    /\ None \notin Worker \cup Nat \cup Document \cup Outcome
    /\ Oversize \subseteq Document
    /\ MaxRequests \in Nat

VARIABLES sem, closed, mu, restarts, live, profiles, undeleted, pc, tab, dir

Pool == INSTANCE ChromePool

VARIABLES
    made,        \* pools NewPool has made
    poolMu,      \* the worker that holds svc.poolMu while NewPool runs
    stage,       \* where each request is in the handler
    doc,         \* what each request prints; None for chrome/stats
    attempt,     \* how often runOnce was called for the request
    outcome,     \* how the running attempt ended, None while it runs
    failedIn,    \* the browser the first attempt failed in, if it had a tab
    cache,       \* documents in Redis
    rendered,    \* history: documents that were printed successfully
    received,    \* history: the number of requests for a PDF
    pooled,      \* chrome_pool_size > 0
    own          \* requests that have a profile directory of their own on disk

poolState == <<sem, closed, mu, restarts, live, profiles, undeleted, pc, tab, dir>>
service == <<made, poolMu, stage, doc, attempt, outcome, failedIn,
             cache, rendered, received, pooled, own>>
mode == <<pooled, own>>
vars == <<poolState, service>>

Stage == {"idle", "lookup", "pool", "creating", "rendering", "alone"}

TypeOK ==
    /\ Pool!TypeOK
    /\ made \in Nat
    /\ poolMu \in Worker \cup {None}
    /\ stage \in [Worker -> Stage]
    /\ doc \in [Worker -> Document \cup {None}]
    /\ attempt \in [Worker -> 0..2]
    /\ outcome \in [Worker -> Outcome \cup {None}]
    /\ failedIn \in [Worker -> Nat \cup {None}]
    /\ cache \subseteq Document
    /\ rendered \subseteq Document
    /\ received \in 0..MaxRequests
    /\ pooled \in BOOLEAN
    /\ own \subseteq Worker

\* No pool yet: its variables are as NewPool will leave them, but there is
\* neither a browser nor a directory.
Init ==
    /\ sem = ChromePoolSize /\ closed = FALSE /\ mu = None
    /\ restarts = 0 /\ live = {} /\ profiles = {} /\ undeleted = {}
    /\ pc = [w \in Worker |-> "idle"]
    /\ tab = [w \in Worker |-> None]
    /\ dir = [w \in Worker |-> None]
    /\ made = 0 /\ poolMu = None
    /\ stage = [w \in Worker |-> "idle"]
    /\ doc = [w \in Worker |-> None]
    /\ attempt = [w \in Worker |-> 0]
    /\ outcome = [w \in Worker |-> None]
    /\ failedIn = [w \in Worker |-> None]
    /\ cache = {} /\ rendered = {} /\ received = 0
    /\ pooled \in BOOLEAN /\ own = {}

Move(w, from, to) == stage[w] = from /\ stage' = [stage EXCEPT ![w] = to]

\* The handler returns: the response is out and the locals are gone.
Respond(w) ==
    /\ stage' = [stage EXCEPT ![w] = "idle"]
    /\ doc' = [doc EXCEPT ![w] = None]
    /\ attempt' = [attempt EXCEPT ![w] = 0]
    /\ outcome' = [outcome EXCEPT ![w] = None]
    /\ failedIn' = [failedIn EXCEPT ![w] = None]
-----------------------------------------------------------------------------
(* Mutated forms: definitions below with a bug that a change to pdf.go     *)
(* might bring in.  They are not part of the specification.                *)

\* getChromePool without svc.poolMu.
MutCreateBegin(w) ==
    /\ pooled
    /\ made = 0
    /\ poolMu' = w
    /\ Move(w, "pool", "creating")
    /\ UNCHANGED <<poolState, made, doc, attempt, outcome, failedIn,
                   cache, rendered, received, mode>>

\* getChromePool returns the error of NewPool without unlocking.
MutCreateFail(w) ==
    /\ stage[w] = "creating"
    /\ Respond(w)
    /\ UNCHANGED <<poolState, made, poolMu, cache, rendered, received, mode>>

\* The answer waits for neither Release nor RemoveAll.
MutReturned(w) == stage[w] \in {"rendering", "alone"} /\ outcome[w] # None

\* Retrying in a loop rather than once.
MutRestartPool(w) ==
    /\ stage[w] = "rendering"
    /\ outcome[w] \in SessionInterrupted
    /\ Pool!RestartBegin(w)
    /\ UNCHANGED service

\* A tab that is opened although Acquire failed.
MutNoTabInTime(w) ==
    /\ stage[w] = "rendering"
    /\ outcome[w] = None
    /\ pc[w] = "waiting"
    /\ pc' = [pc EXCEPT ![w] = "admitted"]
    /\ UNCHANGED <<sem, closed, mu, restarts, live, profiles, undeleted, tab, dir, service>>

\* The PDF is stored before its size is looked at.
MutAnswerTooLarge(w) ==
    /\ stage[w] = "rendering"
    /\ pc[w] = "idle"
    /\ outcome[w] = "ok"
    /\ doc[w] \in Oversize
    /\ cache' = cache \cup {doc[w]}
    /\ Respond(w)
    /\ UNCHANGED <<poolState, made, poolMu, rendered, received, mode>>
-----------------------------------------------------------------------------
(* Requests and the cache *)

Receive(w, d) ==
    /\ received < MaxRequests
    /\ received' = received + 1
    /\ Move(w, "idle", "lookup")
    /\ doc' = [doc EXCEPT ![w] = d]
    /\ UNCHANGED <<poolState, made, poolMu, attempt, outcome, failedIn, cache, rendered, mode>>

ReceiveStats(w) ==
    /\ Move(w, "idle", "pool")
    /\ UNCHANGED <<poolState, made, poolMu, doc, attempt, outcome, failedIn,
                   cache, rendered, received, mode>>

CacheHit(w) ==
    /\ stage[w] = "lookup"
    /\ doc[w] \in cache
    /\ Respond(w)
    /\ UNCHANGED <<poolState, made, poolMu, cache, rendered, received, mode>>

\* The key is absent or Redis cannot be read: both are a miss.
CacheMiss(w) ==
    /\ Move(w, "lookup", "pool")
    /\ UNCHANGED <<poolState, made, poolMu, doc, attempt, outcome, failedIn,
                   cache, rendered, received, mode>>

CacheExpire(d) ==
    /\ d \in cache
    /\ cache' = cache \ {d}
    /\ UNCHANGED <<poolState, made, poolMu, stage, doc, attempt, outcome, failedIn,
                   rendered, received, mode>>
-----------------------------------------------------------------------------
(* getChromePool: svc.poolMu is held while NewPool starts the browser. *)

\* The pool is at hand: print the document, or read the statistics of the pool.
UsePool(w) ==
    IF doc[w] = None
    THEN Respond(w)
    ELSE /\ stage' = [stage EXCEPT ![w] = "rendering"]
         /\ attempt' = [attempt EXCEPT ![w] = 1]
         /\ UNCHANGED <<doc, outcome, failedIn>>

GetPool(w) ==
    /\ stage[w] = "pool"
    /\ poolMu = None
    /\ made > 0
    /\ UsePool(w)
    /\ UNCHANGED <<poolState, made, poolMu, cache, rendered, received, mode>>

CreateBegin(w) ==
    /\ pooled
    /\ poolMu = None
    /\ made = 0
    /\ poolMu' = w
    /\ Move(w, "pool", "creating")
    /\ UNCHANGED <<poolState, made, doc, attempt, outcome, failedIn,
                   cache, rendered, received, mode>>

\* NewPool; an error of the warm-up is ignored.
CreateDone(w) ==
    /\ stage[w] = "creating"
    /\ made' = made + 1
    /\ live' = {0}
    /\ profiles' = {0}
    /\ poolMu' = None
    /\ UsePool(w)
    /\ UNCHANGED <<sem, closed, mu, restarts, undeleted, pc, tab, dir, cache, rendered, received, mode>>

\* createProfileDir fails; the next request tries again.
CreateFail(w) ==
    /\ stage[w] = "creating"
    /\ poolMu' = None
    /\ Respond(w)
    /\ UNCHANGED <<poolState, made, cache, rendered, received, mode>>
-----------------------------------------------------------------------------
(* runOnce: acquire, render, release *)

Rendering(w) == stage[w] = "rendering"
Pending(w) == Rendering(w) /\ outcome[w] = None

End(w, o, b) ==
    /\ outcome' = [outcome EXCEPT ![w] = o]
    /\ failedIn' = [failedIn EXCEPT ![w] = b]

AskForTab(w) ==
    /\ Pending(w)
    /\ Pool!AcquireCheck(w)
    /\ UNCHANGED service

\* Five seconds without a token: Acquire returns DeadlineExceeded.
NoTabInTime(w) ==
    /\ Pending(w)
    /\ Pool!AcquireTimeout(w)
    /\ End(w, "deadline", None)
    /\ UNCHANGED <<made, poolMu, stage, doc, attempt, cache, rendered, received, mode>>

OpenTab(w) ==
    /\ Pending(w)
    /\ Pool!AcquireToken(w) \/ Pool!NewTab(w)
    /\ UNCHANGED service

RenderOk(w) ==
    /\ Pending(w)
    /\ pc[w] = "using"
    /\ tab[w] \in live
    /\ End(w, "ok", None)
    /\ rendered' = rendered \cup {doc[w]}
    /\ UNCHANGED <<poolState, made, poolMu, stage, doc, attempt, cache, received, mode>>

\* The page cannot be printed; or the session broke or the render timed out.
RenderFails(w) ==
    /\ Pending(w)
    /\ pc[w] = "using"
    /\ \/ tab[w] \in live /\ End(w, "failed", tab[w])
       \/ \E o \in SessionInterrupted : End(w, o, tab[w])
    /\ UNCHANGED <<poolState, made, poolMu, stage, doc, attempt, cache, rendered, received, mode>>

GiveTabBack(w) ==
    /\ Rendering(w)
    /\ outcome[w] # None
    /\ Pool!Release(w)
    /\ UNCHANGED service
-----------------------------------------------------------------------------
(* renderPDF retries once, after a Restart whose error is ignored.  An    *)
(* attempt has returned when its outcome is known and Release is through. *)

Returned(w) ==
    /\ outcome[w] # None
    /\ \/ Rendering(w) /\ pc[w] = "idle"
       \/ stage[w] = "alone" /\ w \notin own

RestartPool(w) ==
    /\ Returned(w)
    /\ attempt[w] = 1
    /\ outcome[w] \in SessionInterrupted
    /\ Pool!RestartBegin(w)
    /\ UNCHANGED service

InstallBrowser(w) == Pool!RestartInstall(w) /\ UNCHANGED service

\* Restart returns, with an error or after the clean-up: runOnce again.
Retry(w) ==
    /\ Pool!RestartFail(w) \/ Pool!RemoveProfile(w)
    /\ attempt' = [attempt EXCEPT ![w] = 2]
    /\ outcome' = [outcome EXCEPT ![w] = None]
    /\ UNCHANGED <<made, poolMu, stage, doc, failedIn, cache, rendered, received, mode>>
-----------------------------------------------------------------------------
(* renderPDFWithChrome.  The attempt of a request without a pool is 0. *)

\* MkdirTemp, which may fail; the statistics just say that there is no pool.
StartOwnChrome(w) ==
    /\ stage[w] = "pool"
    /\ ~pooled
    /\ \/ Respond(w) /\ UNCHANGED own
       \/ /\ doc[w] # None
          /\ own' = own \cup {w}
          /\ Move(w, "pool", "alone")
          /\ UNCHANGED <<doc, attempt, outcome, failedIn>>
    /\ UNCHANGED <<poolState, made, poolMu, cache, rendered, received, pooled>>

RenderAlone(w) ==
    /\ stage[w] = "alone"
    /\ outcome[w] = None
    /\ \E o \in Outcome :
           /\ outcome' = [outcome EXCEPT ![w] = o]
           /\ rendered' = IF o = "ok" THEN rendered \cup {doc[w]} ELSE rendered
    /\ UNCHANGED <<poolState, made, poolMu, stage, doc, attempt, failedIn, cache, received, mode>>

\* The deferred RemoveAll, after Chrome is gone; its error is ignored.
RemoveOwnProfile(w) ==
    /\ stage[w] = "alone"
    /\ outcome[w] # None
    /\ w \in own
    /\ own' = own \ {w}
    /\ UNCHANGED <<poolState, made, poolMu, stage, doc, attempt, outcome, failedIn,
                   cache, rendered, received, pooled>>
-----------------------------------------------------------------------------
(* The rest of processPDFGeneration *)

\* 408 for a deadline, 503 for another interruption, 500 for the rest.
AnswerError(w) ==
    /\ Returned(w)
    /\ \/ outcome[w] = "failed"
       \/ outcome[w] \in SessionInterrupted /\ attempt[w] # 1
    /\ Respond(w)
    /\ UNCHANGED <<poolState, made, poolMu, cache, rendered, received, mode>>

\* 413
AnswerTooLarge(w) ==
    /\ Returned(w)
    /\ outcome[w] = "ok"
    /\ doc[w] \in Oversize
    /\ Respond(w)
    /\ UNCHANGED <<poolState, made, poolMu, cache, rendered, received, mode>>

\* The PDF is stored, unless Redis fails, and sent.
AnswerPDF(w) ==
    /\ Returned(w)
    /\ outcome[w] = "ok"
    /\ doc[w] \notin Oversize
    /\ cache' \in {cache, cache \cup {doc[w]}}
    /\ Respond(w)
    /\ UNCHANGED <<poolState, made, poolMu, rendered, received, mode>>
-----------------------------------------------------------------------------
Alone(w) == StartOwnChrome(w) \/ RenderAlone(w) \/ RemoveOwnProfile(w)

RunOnce(w) == AskForTab(w) \/ NoTabInTime(w) \/ OpenTab(w) \/ RenderOk(w)
                \/ RenderFails(w) \/ GiveTabBack(w)

Handle(w) ==
    \/ CacheHit(w) \/ CacheMiss(w)
    \/ GetPool(w) \/ CreateBegin(w) \/ CreateDone(w) \/ CreateFail(w)
    \/ RunOnce(w) \/ Alone(w)
    \/ RestartPool(w) \/ InstallBrowser(w) \/ Retry(w)
    \/ AnswerError(w) \/ AnswerTooLarge(w) \/ AnswerPDF(w)

Next ==
    \/ \E w \in Worker : ReceiveStats(w) \/ Handle(w) \/ \E d \in Document : Receive(w, d)
    \/ \E d \in Document : CacheExpire(d)

Spec == Init /\ [][Next]_vars

\* The steps that wait for one of the two mutexes.
Lock(w) == GetPool(w) \/ CreateBegin(w) \/ AskForTab(w) \/ GiveTabBack(w) \/ RestartPool(w)

\* Handlers go on: Redis calls and renders are bounded by timeouts, and the
\* mutexes are free of starvation.  No fairness for requests and expiry.
Fairness == \A w \in Worker : WF_vars(Handle(w)) /\ SF_vars(Lock(w))

FairSpec == Spec /\ Fairness
-----------------------------------------------------------------------------
(* Properties *)

\* First requests that race for the pool make one pool, hence one browser.
SinglePool == made <= 1

\* The number of restarts is bounded by the number of requests, however their
\* failures feed each other: a request restarts the browser at most once.
OneRestartPerRequest ==
    restarts + Cardinality({w \in Worker : pc[w] = "restarting"}) <= received

\* The second attempt does not render in the browser that failed the first
\* one, unless that browser is dead because Restart could not replace it.
RetryAvoidsFailedBrowser ==
    \A w \in Worker :
        (attempt[w] = 2 /\ Pending(w) /\ tab[w] # None /\ tab[w] = failedIn[w])
            => tab[w] \notin live

\* A worker that has answered has neither a tab nor a profile of its own any
\* more, on no path through the handler, so an idle service has all its tokens.
AnsweredMeansReleased ==
    /\ \A w \in Worker : ~Rendering(w) => pc[w] = "idle"
    /\ \A w \in own : stage[w] = "alone"
    /\ (\A w \in Worker : ~Rendering(w)) => sem = ChromePoolSize

\* What is served from the cache was once printed, and is not too large.
CacheHoldsGoodPDFs == cache \subseteq rendered \ Oversize

\* Nobody waits in a circle: svc.poolMu is held by a request that is making the
\* pool, which no other request can be using yet, and the mutex of the pool by
\* one that is replacing its browser.  Neither of them waits for a mutex, and
\* with the pool made, svc.poolMu is free for good.
LocksHaveHolders ==
    /\ poolMu # None => stage[poolMu] = "creating" /\ made = 0
    /\ mu # None => pc[mu] = "restarting" /\ Rendering(mu) /\ made > 0

\* Until it is made, the pool is as NewPool leaves it.
AsMade(browsers) == IF made = 0 THEN {0} ELSE browsers

PoolInUse == INSTANCE ChromePool WITH
                 live <- AsMade(live),
                 profiles <- AsMade(profiles)

\* The handlers use the pool the way its interface allows: they release what
\* they acquired, once, and call nothing in between.
ImplementsPool == PoolInUse!Spec

\* Every request is answered, also when its tab, its browser or the pool's
\* mutex is taken away by others.
EveryRequestAnswered == \A w \in Worker : stage[w] # "idle" ~> stage[w] = "idle"

\* IsSessionInterrupted is called "a conservative detector for chrome/chromedp
\* session breakage": a browser in which others are rendering is torn down only
\* by a request that saw Chrome fail.  It is not so: a request that waited
\* too long for a tab reports DeadlineExceeded too, and restarts the browser.
RestartOnlyOnBreakage ==
    \A w, v \in Worker :
        (pc[w] = "restarting" /\ pc[v] = "using" /\ Pending(v)) => failedIn[w] # None
=============================================================================
