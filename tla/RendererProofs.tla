---------------------------- MODULE RendererProofs ----------------------------
(***************************************************************************)
(* Theorems about Renderer for any number of workers, documents and        *)
(* requests and any pool size.                                             *)
(*                                                                         *)
(* The argument has three layers.  ServiceInv is what the handlers ensure  *)
(* on their own: one pool, and no call to it but while a request renders.  *)
(* From it follows that they are callers as ChromePool allows (ImplementsPool), *)
(* so that every theorem of ChromePoolProofs holds of the pool in use.     *)
(* What the handlers and the pool ensure together rests on both.           *)
(***************************************************************************)
EXTENDS Renderer, FiniteSetTheorems, TLAPS

ServiceTypes ==
    /\ made \in Nat
    /\ poolMu \in Worker \cup {None}
    /\ stage \in [Worker -> Stage]
    /\ doc \in [Worker -> Document \cup {None}]
    /\ attempt \in [Worker -> 0..2]
    /\ outcome \in [Worker -> Outcome \cup {None}]
    /\ failedIn \in [Worker -> Nat \cup {None}]
    /\ rendered \subseteq Document
    /\ received \in 0..MaxRequests
    /\ pooled \in BOOLEAN
    /\ own \subseteq Worker
    /\ restarts \in Nat
    /\ pc \in [Worker -> Pool!Location]
    /\ tab \in [Worker -> Nat \cup {None}]

\* The pool is made once, by the worker that holds svc.poolMu.
Created ==
    /\ made <= 1
    /\ made = 0 => live = {} /\ profiles = {}
    /\ \A w \in Worker : stage[w] = "creating" => poolMu = w /\ made = 0

\* A request is in the pool's methods only while it renders.
HandlerInv(w) ==
    /\ pc[w] # "idle" => Rendering(w)
    /\ Rendering(w) => made > 0 /\ doc[w] \in Document /\ attempt[w] \in {1, 2}
    /\ ~Rendering(w) => attempt[w] = 0 /\ failedIn[w] = None
    /\ stage[w] \notin {"rendering", "alone"} => outcome[w] = None
    /\ stage[w] \in {"lookup", "alone"} => doc[w] \in Document
    /\ pc[w] \in {"restarting", "cleaning"} => attempt[w] = 1 /\ outcome[w] \in SessionInterrupted
    /\ pc[w] # "closing"
    /\ outcome[w] = "ok" => doc[w] \in rendered
    /\ w \in own => stage[w] = "alone"

ServiceInv ==
    /\ ServiceTypes
    /\ Created
    /\ ~closed
    /\ CacheHoldsGoodPDFs
    /\ \A w \in Worker : HandlerInv(w)

LEMMA Strings ==
    /\ {"idle", "lookup", "pool", "creating", "rendering", "alone"} = Stage
    /\ {"ok", "failed", "deadline", "interrupted"} = Outcome
    /\ {"deadline", "interrupted"} = SessionInterrupted
BY DEF Stage, Outcome, SessionInterrupted

LEMMA NoneApart == None \notin Worker \cup Nat \cup Document \cup {"ok", "failed", "deadline", "interrupted"}
BY RendererAssumption, Strings DEF RendererAssumption

LEMMA InitService == Init => ServiceInv
<1> SUFFICES ASSUME Init PROVE ServiceInv
    OBVIOUS
<1> USE RendererAssumption DEF Init, RendererAssumption
<1>1. ServiceTypes
    BY DEF ServiceTypes, Stage, Pool!Location
<1>2. Created /\ ~closed /\ CacheHoldsGoodPDFs
    BY DEF Created, CacheHoldsGoodPDFs
<1>3. ASSUME NEW w \in Worker PROVE HandlerInv(w)
    BY NoneApart DEF HandlerInv, Rendering
<1> QED
    BY <1>1, <1>2, <1>3 DEF ServiceInv
-----------------------------------------------------------------------------
(* Steps of one handler *)

\* The step of w changes nothing of the other requests and takes nothing
\* away that they rely on.
StepOf(w) ==
    /\ ServiceTypes'
    /\ closed' = closed
    /\ made > 0 => made' > 0
    /\ rendered \subseteq rendered'
    /\ \A v \in Worker \ {w} :
        /\ stage'[v] = stage[v] /\ doc'[v] = doc[v] /\ attempt'[v] = attempt[v]
        /\ outcome'[v] = outcome[v] /\ failedIn'[v] = failedIn[v] /\ pc'[v] = pc[v]
        /\ v \in own' => v \in own

LEMMA OtherHandlers ==
    ASSUME ServiceInv, NEW w \in Worker, StepOf(w), NEW v \in Worker, v # w
    PROVE  HandlerInv(v)'
BY DEF ServiceInv, StepOf, HandlerInv, Rendering

LEMMA StepKeeps ==
    ASSUME ServiceInv, NEW w \in Worker, StepOf(w),
           HandlerInv(w)', Created', CacheHoldsGoodPDFs'
    PROVE  ServiceInv'
BY OtherHandlers DEF ServiceInv, StepOf

\* Steps that have nothing to do with the making of the pool.
LEMMA CreatedKept ==
    ASSUME Created, UNCHANGED <<made, poolMu>>,
           made = 0 => UNCHANGED <<live, profiles>>,
           \A v \in Worker : stage'[v] = "creating" => stage[v] = "creating"
    PROVE  Created'
BY DEF Created

LEMMA CacheKept ==
    ASSUME CacheHoldsGoodPDFs, cache' = cache, rendered \subseteq rendered'
    PROVE  CacheHoldsGoodPDFs'
BY DEF CacheHoldsGoodPDFs

\* The response is sent by a request that has left the pool.
LEMMA RespondKeeps ==
    ASSUME ServiceInv, NEW w \in Worker, pc[w] = "idle", w \notin own, Respond(w),
           UNCHANGED <<poolState, made, rendered, received, mode>>,
           poolMu' = poolMu \/ (poolMu' = None /\ stage[w] = "creating"),
           CacheHoldsGoodPDFs'
    PROVE  ServiceInv'
<1> USE DEF Respond, poolState, mode
<1>1. StepOf(w)
    BY Strings DEF StepOf, ServiceInv, ServiceTypes
<1>2. HandlerInv(w)'
    BY NoneApart DEF ServiceInv, ServiceTypes, HandlerInv, Rendering
<1>3. Created'
    BY NoneApart DEF ServiceInv, ServiceTypes, Created
<1> QED
    BY <1>1, <1>2, <1>3, StepKeeps

LEMMA RequestSteps ==
    ASSUME ServiceInv, NEW w \in Worker,
           (\E d \in Document : Receive(w, d)) \/ ReceiveStats(w) \/ CacheHit(w) \/ CacheMiss(w)
    PROVE  ServiceInv'
<1> USE DEF ServiceInv, poolState, mode
<1>1. ASSUME NEW d \in Document, Receive(w, d) PROVE ServiceInv'
    <2>1. StepOf(w)
        BY <1>1, Strings, RendererAssumption DEF StepOf, ServiceTypes, Receive, Move, RendererAssumption
    <2>2. HandlerInv(w)'
        BY <1>1, NoneApart DEF ServiceTypes, HandlerInv, Rendering, Receive, Move
    <2>3. Created' /\ CacheHoldsGoodPDFs'
        BY <1>1, CreatedKept, CacheKept DEF ServiceTypes, Receive, Move
    <2> QED
        BY <2>1, <2>2, <2>3, StepKeeps
<1>2. CASE ReceiveStats(w)
    <2>1. StepOf(w)
        BY <1>2, Strings DEF StepOf, ServiceTypes, ReceiveStats, Move
    <2>2. HandlerInv(w)'
        BY <1>2 DEF ServiceTypes, HandlerInv, Rendering, ReceiveStats, Move
    <2>3. Created' /\ CacheHoldsGoodPDFs'
        BY <1>2, CreatedKept, CacheKept DEF ServiceTypes, ReceiveStats, Move
    <2> QED
        BY <2>1, <2>2, <2>3, StepKeeps
<1>3. CASE CacheHit(w)
    <2>1. pc[w] = "idle" /\ w \notin own
        BY <1>3 DEF HandlerInv, Rendering, CacheHit
    <2> QED
        BY <1>3, <2>1, RespondKeeps, CacheKept DEF CacheHit
<1>4. CASE CacheMiss(w)
    <2>1. StepOf(w)
        BY <1>4, Strings DEF StepOf, ServiceTypes, CacheMiss, Move
    <2>2. HandlerInv(w)'
        BY <1>4 DEF ServiceTypes, HandlerInv, Rendering, CacheMiss, Move
    <2>3. Created' /\ CacheHoldsGoodPDFs'
        BY <1>4, CreatedKept, CacheKept DEF ServiceTypes, CacheMiss, Move
    <2> QED
        BY <2>1, <2>2, <2>3, StepKeeps
<1> QED
    BY <1>1, <1>2, <1>3, <1>4

\* getChromePool: a second NewPool would need svc.poolMu while it is held.
LEMMA CreationSteps ==
    ASSUME ServiceInv, NEW w \in Worker,
           GetPool(w) \/ CreateBegin(w) \/ CreateDone(w) \/ CreateFail(w)
    PROVE  ServiceInv'
<1> USE DEF ServiceInv
<1>0. /\ stage[w] \in {"pool", "creating"}
      /\ pc[w] = "idle" /\ w \notin own
    BY DEF HandlerInv, Rendering, GetPool, CreateBegin, CreateDone, CreateFail, Move
<1>1. CASE GetPool(w)
    <2>1. CASE doc[w] = None
        BY <1>0, <1>1, <2>1, RespondKeeps, CacheKept DEF GetPool, UsePool
    <2>2. CASE doc[w] # None
        <3>1. StepOf(w)
            BY <1>1, <2>2, Strings DEF StepOf, ServiceTypes, GetPool, UsePool, poolState, mode
        <3>2. HandlerInv(w)'
            BY <1>0, <1>1, <2>2 DEF ServiceTypes, HandlerInv, Rendering, GetPool, UsePool, poolState, mode
        <3>3. Created' /\ CacheHoldsGoodPDFs'
            BY <1>1, <2>2, CreatedKept, CacheKept DEF ServiceTypes, GetPool, UsePool, poolState
        <3> QED
            BY <3>1, <3>2, <3>3, StepKeeps
    <2> QED
        BY <2>1, <2>2
<1>2. CASE CreateBegin(w)
    <2>1. StepOf(w)
        BY <1>2, Strings DEF StepOf, ServiceTypes, CreateBegin, Move, poolState, mode
    <2>2. HandlerInv(w)'
        BY <1>0, <1>2 DEF ServiceTypes, HandlerInv, Rendering, CreateBegin, Move, poolState, mode
    <2>3. Created'
        BY <1>2, NoneApart DEF ServiceTypes, Created, CreateBegin, Move, poolState
    <2>4. CacheHoldsGoodPDFs'
        BY <1>2, CacheKept DEF CreateBegin
    <2> QED
        BY <2>1, <2>2, <2>3, <2>4, StepKeeps
<1>3. CASE CreateDone(w)
    <2>0. made = 0 /\ poolMu = w
        BY <1>3 DEF Created, CreateDone
    <2>1. StepOf(w)
        <3>1. CASE doc[w] = None
            BY <1>3, <2>0, <3>1, Strings DEF StepOf, ServiceTypes, CreateDone, UsePool, Respond, mode
        <3>2. CASE doc[w] # None
            BY <1>3, <2>0, <3>2, Strings DEF StepOf, ServiceTypes, CreateDone, UsePool, mode
        <3> QED
            BY <3>1, <3>2
    <2>2. HandlerInv(w)'
        <3>1. CASE doc[w] = None
            BY <1>0, <1>3, <2>0, <3>1 DEF ServiceTypes, HandlerInv, Rendering, CreateDone, UsePool, Respond, mode
        <3>2. CASE doc[w] # None
            BY <1>0, <1>3, <2>0, <3>2 DEF ServiceTypes, HandlerInv, Rendering, CreateDone, UsePool, mode
        <3> QED
            BY <3>1, <3>2
    <2>3. Created'
        <3>1. \A v \in Worker : stage'[v] # "creating"
            BY <1>3, <2>0 DEF ServiceTypes, Created, CreateDone, UsePool, Respond
        <3> QED
            BY <1>3, <2>0, <3>1 DEF Created, CreateDone
    <2>4. CacheHoldsGoodPDFs'
        BY <1>3, CacheKept DEF CreateDone
    <2> QED
        BY <2>1, <2>2, <2>3, <2>4, StepKeeps
<1>4. CASE CreateFail(w)
    BY <1>0, <1>4, RespondKeeps, CacheKept DEF CreateFail
<1> QED
    BY <1>1, <1>2, <1>3, <1>4

-----------------------------------------------------------------------------
(* Steps in the pool's methods *)

\* A step of a rendering request that moves it on in the pool, from and to a
\* place outside Restart and Close, and may end the attempt.
RenderStep(w) ==
    /\ Rendering(w)
    /\ \E to \in Pool!Location \ {"restarting", "cleaning", "closing"} :
        pc' = [pc EXCEPT ![w] = to]
    /\ tab' \in [Worker -> Nat \cup {None}]
    /\ \/ UNCHANGED <<outcome, failedIn, rendered>>
       \/ \E o \in Outcome, b \in Nat \cup {None} :
            /\ End(w, o, b)
            /\ rendered' = IF o = "ok" THEN rendered \cup {doc[w]} ELSE rendered
    /\ UNCHANGED <<closed, restarts, live, profiles, made, poolMu, stage, doc, attempt, cache,
                   received, mode>>

LEMMA RenderStepKeeps ==
    ASSUME ServiceInv, NEW w \in Worker, RenderStep(w)
    PROVE  ServiceInv'
<1> USE DEF ServiceInv, ServiceTypes, RenderStep, End, mode
<1>1. doc[w] \in Document /\ made > 0
    BY DEF HandlerInv
<1>2. ServiceTypes'
    <2>1. rendered' \subseteq Document
        BY <1>1
    <2>2. outcome' \in [Worker -> Outcome \cup {None}] /\ failedIn' \in [Worker -> Nat \cup {None}]
        OBVIOUS
    <2>3. pc' \in [Worker -> Pool!Location]
        OBVIOUS
    <2> QED
        BY <2>1, <2>2, <2>3
<1>3. StepOf(w)
    BY <1>2 DEF StepOf
<1>4. HandlerInv(w)'
    BY <1>1, Strings DEF HandlerInv, Rendering
<1>5. Created'
    BY CreatedKept
<1>6. CacheHoldsGoodPDFs'
    BY CacheKept
<1> QED
    BY <1>3, <1>4, <1>5, <1>6, StepKeeps

LEMMA RunOnceSteps ==
    ASSUME ServiceInv, NEW w \in Worker, RunOnce(w)
    PROVE  RenderStep(w)
<1> USE DEF ServiceInv, ServiceTypes, RenderStep, service, poolState, mode, Pool!Location, Pending
<1>1. CASE AskForTab(w)
    BY <1>1 DEF AskForTab, Pool!AcquireCheck, Pool!Goto
<1>2. CASE NoTabInTime(w)
    BY <1>2, Strings DEF NoTabInTime, Pool!AcquireTimeout, Pool!Goto
<1>3. CASE OpenTab(w)
    BY <1>3 DEF OpenTab, Pool!AcquireToken, Pool!NewTab, Pool!Goto
<1>4. CASE RenderOk(w)
    <2>1. pc' = [pc EXCEPT ![w] = "using"]
        BY <1>4 DEF RenderOk
    <2> QED
        BY <1>4, <2>1, Strings DEF RenderOk
<1>5. CASE RenderFails(w)
    <2>1. pc' = [pc EXCEPT ![w] = "using"]
        BY <1>5 DEF RenderFails
    <2>2. PICK o \in {"failed", "deadline", "interrupted"} : End(w, o, tab[w])
        BY <1>5, Strings DEF RenderFails
    <2> QED
        BY <1>5, <2>1, <2>2, Strings DEF RenderFails
<1>6. CASE GiveTabBack(w)
    BY <1>6 DEF GiveTabBack, Pool!Release, Pool!CancelTab, Pool!ReleaseCheck, Pool!ReturnToken, Pool!Goto
<1> QED
    BY <1>1, <1>2, <1>3, <1>4, <1>5, <1>6 DEF RunOnce

LEMMA RestartSteps ==
    ASSUME ServiceInv, NEW w \in Worker, RestartPool(w) \/ InstallBrowser(w) \/ Retry(w)
    PROVE  ServiceInv'
<1> USE DEF ServiceInv, ServiceTypes, service, mode
<1>0. Rendering(w) /\ attempt[w] = 1 /\ made > 0 /\ outcome[w] \in SessionInterrupted /\ doc[w] \in Document
    BY DEF HandlerInv, Rendering, RestartPool, InstallBrowser, Retry, Returned,
       Pool!RestartInstall, Pool!RestartFail, Pool!RemoveProfile, Pool!Goto
<1>1. CASE RestartPool(w)
    <2>1. StepOf(w)
        BY <1>1 DEF StepOf, RestartPool, Pool!RestartBegin, Pool!Goto, Pool!Location
    <2>2. HandlerInv(w)'
        BY <1>0, <1>1 DEF HandlerInv, Rendering, RestartPool, Pool!RestartBegin, Pool!Goto
    <2>3. Created' /\ CacheHoldsGoodPDFs'
        BY <1>0, <1>1, CreatedKept, CacheKept DEF RestartPool
    <2> QED
        BY <2>1, <2>2, <2>3, StepKeeps
<1>2. CASE InstallBrowser(w)
    <2>1. StepOf(w)
        BY <1>2 DEF StepOf, InstallBrowser, Pool!RestartInstall, Pool!Goto, Pool!Location
    <2>2. HandlerInv(w)'
        BY <1>0, <1>2 DEF HandlerInv, Rendering, InstallBrowser, Pool!RestartInstall, Pool!Goto
    <2>3. Created' /\ CacheHoldsGoodPDFs'
        BY <1>0, <1>2, CreatedKept, CacheKept DEF InstallBrowser
    <2> QED
        BY <2>1, <2>2, <2>3, StepKeeps
<1>3. CASE Retry(w)
    <2>0. /\ pc' = [pc EXCEPT ![w] = "idle"]
          /\ UNCHANGED <<closed, restarts, tab>>
        BY <1>3 DEF Retry, Pool!RestartFail, Pool!RemoveProfile, Pool!Goto
    <2>1. StepOf(w)
        BY <1>3, <2>0 DEF StepOf, Retry, Pool!Location
    <2>2. HandlerInv(w)'
        BY <1>0, <1>3, <2>0, NoneApart DEF HandlerInv, Rendering, Retry
    <2>3. Created' /\ CacheHoldsGoodPDFs'
        BY <1>0, <1>3, CreatedKept, CacheKept DEF Retry
    <2> QED
        BY <2>1, <2>2, <2>3, StepKeeps
<1> QED
    BY <1>1, <1>2, <1>3

LEMMA AloneSteps ==
    ASSUME ServiceInv, NEW w \in Worker, Alone(w)
    PROVE  ServiceInv'
<1> USE DEF ServiceInv, ServiceTypes, poolState, mode
<1>1. CASE StartOwnChrome(w)
    <2>0. pc[w] = "idle" /\ w \notin own /\ attempt[w] = 0 /\ failedIn[w] = None /\ outcome[w] = None
        BY <1>1 DEF HandlerInv, Rendering, StartOwnChrome
    <2>1. CASE Respond(w) /\ UNCHANGED own
        BY <1>1, <2>0, <2>1, RespondKeeps, CacheKept DEF StartOwnChrome
    <2>2. CASE ~(Respond(w) /\ UNCHANGED own)
        <3>1. StepOf(w)
            BY <1>1, <2>2, Strings DEF StepOf, StartOwnChrome, Move
        <3>2. HandlerInv(w)'
            BY <1>1, <2>0, <2>2, NoneApart DEF HandlerInv, Rendering, StartOwnChrome, Move
        <3>3. Created' /\ CacheHoldsGoodPDFs'
            BY <1>1, <2>2, CreatedKept, CacheKept DEF StartOwnChrome, Move
        <3> QED
            BY <3>1, <3>2, <3>3, StepKeeps
    <2> QED
        BY <2>1, <2>2
<1>2. CASE RenderAlone(w)
    <2>0. doc[w] \in Document
        BY <1>2 DEF HandlerInv, RenderAlone
    <2>1. StepOf(w)
        BY <1>2, <2>0 DEF StepOf, RenderAlone
    <2>2. HandlerInv(w)'
        BY <1>2, <2>0, Strings DEF HandlerInv, Rendering, RenderAlone
    <2>3. Created' /\ CacheHoldsGoodPDFs'
        BY <1>2, CreatedKept, CacheKept DEF RenderAlone
    <2> QED
        BY <2>1, <2>2, <2>3, StepKeeps
<1>3. CASE RemoveOwnProfile(w)
    <2>1. StepOf(w)
        BY <1>3 DEF StepOf, RemoveOwnProfile
    <2>2. HandlerInv(w)'
        BY <1>3 DEF HandlerInv, Rendering, RemoveOwnProfile
    <2>3. Created' /\ CacheHoldsGoodPDFs'
        BY <1>3, CreatedKept, CacheKept DEF RemoveOwnProfile
    <2> QED
        BY <2>1, <2>2, <2>3, StepKeeps
<1> QED
    BY <1>1, <1>2, <1>3 DEF Alone

LEMMA AnswerSteps ==
    ASSUME ServiceInv, NEW w \in Worker, AnswerError(w) \/ AnswerTooLarge(w) \/ AnswerPDF(w)
    PROVE  ServiceInv'
<1> USE DEF ServiceInv
<1>1. pc[w] = "idle" /\ w \notin own /\ stage[w] # "creating"
    BY DEF AnswerError, AnswerTooLarge, AnswerPDF, Returned, HandlerInv, Rendering
<1>2. CacheHoldsGoodPDFs'
    <2>1. CASE AnswerPDF(w)
        <3>1. doc[w] \in rendered \ Oversize
            BY <2>1 DEF AnswerPDF, HandlerInv
        <3> QED
            BY <2>1, <3>1 DEF AnswerPDF, CacheHoldsGoodPDFs
    <2>2. CASE AnswerError(w) \/ AnswerTooLarge(w)
        BY <2>2, CacheKept DEF AnswerError, AnswerTooLarge
    <2> QED
        BY <2>1, <2>2
<1> QED
    BY <1>1, <1>2, RespondKeeps DEF AnswerError, AnswerTooLarge, AnswerPDF

LEMMA NextService == ServiceInv /\ [Next]_vars => ServiceInv'
<1> SUFFICES ASSUME ServiceInv, [Next]_vars PROVE ServiceInv'
    OBVIOUS
<1>1. ASSUME NEW w \in Worker, Handle(w) PROVE ServiceInv'
    BY <1>1, RequestSteps, CreationSteps, RunOnceSteps, RenderStepKeeps, AloneSteps,
       RestartSteps, AnswerSteps DEF Handle
<1>2. ASSUME NEW w \in Worker, ReceiveStats(w) \/ \E d \in Document : Receive(w, d)
      PROVE  ServiceInv'
    BY <1>2, RequestSteps
<1>3. ASSUME NEW d \in Document, CacheExpire(d) PROVE ServiceInv'
    BY <1>3 DEF CacheExpire, ServiceInv, ServiceTypes, Created, HandlerInv, Rendering,
       CacheHoldsGoodPDFs, poolState, mode
<1>4. CASE UNCHANGED vars
    BY <1>4 DEF vars, service, poolState, ServiceInv, ServiceTypes, Created, HandlerInv,
       Rendering, CacheHoldsGoodPDFs
<1> QED
    BY <1>1, <1>2, <1>3, <1>4 DEF Next

LEMMA ServiceInvariance == Spec => []ServiceInv
BY InitService, NextService, PTL DEF Spec

\* Requests that race for the first pool make one pool (getChromePool).
THEOREM OnePoolIsMade == Spec => []SinglePool
<1>1. ServiceInv => SinglePool
    BY DEF ServiceInv, Created, SinglePool
<1> QED
    BY <1>1, ServiceInvariance, PTL

\* What Redis is given was printed and is not too large (processPDFGeneration).
THEOREM CachedPDFsAreGood == Spec => []CacheHoldsGoodPDFs
<1>1. ServiceInv => CacheHoldsGoodPDFs
    BY DEF ServiceInv
<1> QED
    BY <1>1, ServiceInvariance, PTL
-----------------------------------------------------------------------------
(* The handlers are callers as ChromePool allows *)

\* Once the pool is made, it is the one in use.
LEMMA InUse ==
    ASSUME made > 0, made' = made
    PROVE  /\ AsMade(live) = live /\ AsMade(live)' = live'
           /\ AsMade(profiles) = profiles /\ AsMade(profiles)' = profiles'
BY DEF AsMade

\* While it is not, nothing of what its callers see changes.
LEMMA NotInUse ==
    ASSUME ServiceInv, UNCHANGED poolState, made' = made
    PROVE  UNCHANGED PoolInUse!poolVars
BY DEF PoolInUse!poolVars, poolState, AsMade

LEMMA PoolSteps ==
    ASSUME ServiceInv, NEW w \in Worker, Rendering(w), made' = made,
           \/ Pool!AcquireCheck(w) \/ Pool!AcquireTimeout(w) \/ Pool!AcquireToken(w) \/ Pool!NewTab(w)
           \/ Pool!Release(w) \/ Pool!RestartBegin(w) \/ Pool!RestartInstall(w)
           \/ Pool!RestartFail(w) \/ Pool!RemoveProfile(w)
    PROVE  PoolInUse!Next
<1>0. made > 0
    BY DEF ServiceInv, HandlerInv
<1>1. /\ AsMade(live) = live /\ AsMade(live)' = live'
      /\ AsMade(profiles) = profiles /\ AsMade(profiles)' = profiles'
    BY <1>0, InUse
<1>2. /\ Pool!AcquireCheck(w) => PoolInUse!AcquireCheck(w)
      /\ Pool!AcquireTimeout(w) => PoolInUse!AcquireTimeout(w)
      /\ Pool!AcquireToken(w) => PoolInUse!AcquireToken(w)
      /\ Pool!NewTab(w) => PoolInUse!NewTab(w)
    BY <1>1 DEF Pool!AcquireCheck, PoolInUse!AcquireCheck, Pool!AcquireTimeout, PoolInUse!AcquireTimeout,
        Pool!AcquireToken, PoolInUse!AcquireToken, Pool!NewTab, PoolInUse!NewTab, Pool!Goto, PoolInUse!Goto
<1>3. Pool!Release(w) => PoolInUse!Release(w)
    BY <1>1 DEF Pool!Release, PoolInUse!Release, Pool!CancelTab, PoolInUse!CancelTab,
        Pool!ReleaseCheck, PoolInUse!ReleaseCheck, Pool!ReturnToken, PoolInUse!ReturnToken,
        Pool!Goto, PoolInUse!Goto
<1>4. /\ Pool!RestartBegin(w) => PoolInUse!RestartBegin(w)
      /\ Pool!RestartInstall(w) => PoolInUse!RestartInstall(w)
      /\ Pool!RestartFail(w) => PoolInUse!RestartFail(w)
      /\ Pool!RemoveProfile(w) => PoolInUse!RemoveProfile(w)
    BY <1>1 DEF Pool!RestartBegin, PoolInUse!RestartBegin, Pool!RestartInstall, PoolInUse!RestartInstall,
        Pool!RestartFail, PoolInUse!RestartFail, Pool!RemoveProfile, PoolInUse!RemoveProfile,
        Pool!Goto, PoolInUse!Goto
<1> QED
    BY <1>2, <1>3, <1>4 DEF PoolInUse!Next, PoolInUse!Acquire, PoolInUse!Restart

LEMMA PoolStep == ServiceInv /\ [Next]_vars => [PoolInUse!Next]_(PoolInUse!poolVars)
<1> SUFFICES ASSUME ServiceInv, [Next]_vars
             PROVE  PoolInUse!Next \/ UNCHANGED PoolInUse!poolVars
    OBVIOUS
<1>1. ASSUME NEW w \in Worker, RunOnce(w) PROVE PoolInUse!Next \/ UNCHANGED PoolInUse!poolVars
    <2>1. Rendering(w) /\ made' = made
        BY <1>1 DEF RunOnce, AskForTab, NoTabInTime, OpenTab, RenderOk, RenderFails, GiveTabBack,
            Pending, service
    <2>2. CASE RenderOk(w) \/ RenderFails(w)
        BY <2>1, <2>2, NotInUse DEF RenderOk, RenderFails
    <2>3. CASE AskForTab(w) \/ NoTabInTime(w) \/ OpenTab(w) \/ GiveTabBack(w)
        BY <2>1, <2>3, PoolSteps DEF AskForTab, NoTabInTime, OpenTab, GiveTabBack
    <2> QED
        BY <1>1, <2>2, <2>3 DEF RunOnce
<1>2. ASSUME NEW w \in Worker, RestartPool(w) \/ InstallBrowser(w) \/ Retry(w) PROVE PoolInUse!Next
    <2>1. Rendering(w)
        BY <1>2 DEF ServiceInv, HandlerInv, RestartPool, InstallBrowser, Retry, Returned, Rendering,
            Pool!RestartBegin, Pool!RestartInstall, Pool!RestartFail, Pool!RemoveProfile, Pool!Goto
    <2>2. made' = made
        BY <1>2 DEF RestartPool, InstallBrowser, Retry, service
    <2> QED
        BY <1>2, <2>1, <2>2, PoolSteps DEF RestartPool, InstallBrowser, Retry
\* The pool that was not there looks like the one that NewPool makes.
<1>3. ASSUME NEW w \in Worker, CreateDone(w) PROVE UNCHANGED PoolInUse!poolVars
    <2>1. made = 0 /\ made' = 1 /\ live' = {0} /\ profiles' = {0}
        BY <1>3 DEF ServiceInv, Created, CreateDone
    <2> QED
        BY <1>3, <2>1 DEF CreateDone, PoolInUse!poolVars, AsMade
<1>4. ASSUME NEW w \in Worker,
             \/ CacheHit(w) \/ CacheMiss(w) \/ GetPool(w) \/ CreateBegin(w) \/ CreateFail(w) \/ Alone(w)
             \/ AnswerError(w) \/ AnswerTooLarge(w) \/ AnswerPDF(w) \/ ReceiveStats(w)
             \/ \E d \in Document : Receive(w, d)
      PROVE  UNCHANGED PoolInUse!poolVars
    BY <1>4, NotInUse DEF CacheHit, CacheMiss, GetPool, CreateBegin, CreateFail, Alone, StartOwnChrome,
        RenderAlone, RemoveOwnProfile, AnswerError, AnswerTooLarge, AnswerPDF, ReceiveStats, Receive
<1>5. ASSUME NEW d \in Document, CacheExpire(d) PROVE UNCHANGED PoolInUse!poolVars
    BY <1>5, NotInUse DEF CacheExpire
<1>6. CASE UNCHANGED vars
    BY <1>6, NotInUse DEF vars, service
<1> QED
    BY <1>1, <1>2, <1>3, <1>4, <1>5, <1>6 DEF Next, Handle

\* The handlers call the pool only in ways that its interface allows: Release
\* once after each Acquire, and nothing else in between (renderPDF, runOnce).
THEOREM PoolIsUsedAsAllowed == Spec => ImplementsPool
<1>1. Init => PoolInUse!Init
    BY DEF Init, PoolInUse!Init, AsMade
<1> QED
    BY <1>1, PoolStep, ServiceInvariance, PTL DEF Spec, ImplementsPool, PoolInUse!Spec
-----------------------------------------------------------------------------
(* Hence what is proved of ChromePool holds of the pool in use. *)

PoolFacts == INSTANCE ChromePoolProofs WITH
                 live <- AsMade(live),
                 profiles <- AsMade(profiles)

LEMMA SameStep == [PoolInUse!Next]_(PoolInUse!poolVars) => [PoolFacts!Next]_(PoolFacts!poolVars)
    BY DEF PoolInUse!Next, PoolInUse!poolVars, PoolInUse!Goto, PoolInUse!Acquire,
        PoolInUse!AcquireCheck, PoolInUse!AcquireRefused, PoolInUse!AcquireTimeout,
        PoolInUse!AcquireToken, PoolInUse!NewTab, PoolInUse!Release, PoolInUse!CancelTab,
        PoolInUse!ReleaseCheck, PoolInUse!ReturnToken, PoolInUse!Restart,
        PoolInUse!RestartRefused, PoolInUse!RestartBegin, PoolInUse!RestartInstall,
        PoolInUse!RestartFail, PoolInUse!RemoveProfile, PoolInUse!Close, PoolInUse!CloseBegin,
        PoolInUse!CloseAgain, PoolInUse!CloseCancel,
        PoolFacts!Next, PoolFacts!poolVars, PoolFacts!Goto, PoolFacts!Acquire,
        PoolFacts!AcquireCheck, PoolFacts!AcquireRefused, PoolFacts!AcquireTimeout,
        PoolFacts!AcquireToken, PoolFacts!NewTab, PoolFacts!Release, PoolFacts!CancelTab,
        PoolFacts!ReleaseCheck, PoolFacts!ReturnToken, PoolFacts!Restart,
        PoolFacts!RestartRefused, PoolFacts!RestartBegin, PoolFacts!RestartInstall,
        PoolFacts!RestartFail, PoolFacts!RemoveProfile, PoolFacts!Close, PoolFacts!CloseBegin,
        PoolFacts!CloseAgain, PoolFacts!CloseCancel

LEMMA SameSpec == PoolInUse!Spec => PoolFacts!Spec
<1>1. PoolInUse!Init => PoolFacts!Init
    BY DEF PoolInUse!Init, PoolFacts!Init
<1> QED
    BY <1>1, SameStep, PTL DEF PoolInUse!Spec, PoolFacts!Spec

LEMMA WorkerFinite == PoolFacts!IsFiniteSet(Worker)
BY RendererAssumption DEF RendererAssumption, IsFiniteSet, PoolFacts!IsFiniteSet

LEMMA PoolInvariance == PoolFacts!Spec => []PoolFacts!IInv
BY WorkerFinite, PoolFacts!Invariance, RendererAssumption DEF RendererAssumption

\* What the handlers and the pool ensure, each for itself.
BothInv == ServiceInv /\ PoolFacts!IInv

LEMMA BothInvariance == Spec => []BothInv
<1>1. Spec => PoolInUse!Spec
    BY PoolIsUsedAsAllowed DEF ImplementsPool
<1> QED
    BY <1>1, SameSpec, PoolInvariance, ServiceInvariance, PTL DEF BothInv

LEMMA Typed == BothInv => TypeOK
<1> SUFFICES ASSUME BothInv PROVE TypeOK
    OBVIOUS
<1>1. ServiceTypes /\ Created /\ CacheHoldsGoodPDFs /\ PoolFacts!TypeOK
    BY DEF BothInv, ServiceInv, PoolFacts!IInv
<1>2. live \subseteq Nat /\ profiles \subseteq Nat
    BY <1>1 DEF ServiceTypes, Created, PoolFacts!TypeOK, PoolFacts!Browser, AsMade
<1>3. Pool!TypeOK
    BY <1>1, <1>2 DEF ServiceTypes, Pool!TypeOK, Pool!Browser, PoolFacts!TypeOK, PoolFacts!Browser
<1>4. cache \subseteq Document
    BY <1>1 DEF ServiceTypes, CacheHoldsGoodPDFs
<1> QED
    BY <1>1, <1>3, <1>4 DEF TypeOK, ServiceTypes

\* Every variable of the pool and of the handlers keeps its type.
THEOREM TypeCorrect == Spec => []TypeOK
BY Typed, BothInvariance, PTL

LEMMA ReleasedMeaning ==
    ASSUME BothInv
    PROVE  AnsweredMeansReleased
<1>1. \A w \in Worker : ~Rendering(w) => pc[w] = "idle"
    BY DEF BothInv, ServiceInv, HandlerInv
<1>2. \A w \in own : stage[w] = "alone"
    BY DEF BothInv, ServiceInv, ServiceTypes, HandlerInv
<1>3. ASSUME \A w \in Worker : ~Rendering(w) PROVE sem = ChromePoolSize
    <2>1. PoolFacts!Holders = {}
        BY <1>1, <1>3 DEF PoolFacts!Holders
    <2>2. PoolFacts!Cardinality({}) = 0
        <3>1. Cardinality({}) = 0
            BY FS_EmptySet
        <3> QED
            BY <3>1 DEF Cardinality, PoolFacts!Cardinality
    <2>3. PoolFacts!Cardinality(PoolFacts!Holders) = PoolFacts!InUse
        BY DEF BothInv, ServiceInv, PoolFacts!IInv, PoolFacts!CapacityConserved
    <2>4. ChromePoolSize - sem = 0
        BY <2>1, <2>2, <2>3 DEF PoolFacts!InUse
    <2>5. sem \in 0..ChromePoolSize /\ ChromePoolSize \in Nat
        BY RendererAssumption DEF BothInv, PoolFacts!IInv, PoolFacts!TypeOK, RendererAssumption
    <2> QED
        BY <2>4, <2>5
<1> QED
    BY <1>1, <1>2, <1>3 DEF AnsweredMeansReleased

\* An answered request has neither a tab nor a token nor a profile directory of
\* its own, and with no request under way all tokens are in the channel.
THEOREM AnsweredRequestsHoldNothing == Spec => []AnsweredMeansReleased
BY ReleasedMeaning, BothInvariance, PTL
-----------------------------------------------------------------------------
(* A retry does not meet the browser it fled from *)

\* Tabs are of browsers there were; from Restart to the end of the second
\* attempt, the browser of the first one is dead.
Memory(w) ==
    /\ tab[w] # None => tab[w] <= restarts
    /\ failedIn[w] # None => failedIn[w] <= restarts
    /\ (failedIn[w] # None /\ ((attempt[w] = 2 /\ outcome[w] = None) \/ pc[w] \in {"restarting", "cleaning"}))
            => failedIn[w] \notin live

MemoryInv == \A w \in Worker : Memory(w)

LEMMA MemoryKept ==
    ASSUME ServiceInv, restarts' \in Nat, restarts' >= restarts,
           NEW w \in Worker, Memory(w),
           \A b \in live' : b \in live \/ b > restarts,
           tab'[w] = tab[w], failedIn'[w] = failedIn[w], attempt'[w] = attempt[w],
           outcome'[w] = outcome[w], pc'[w] = pc[w]
    PROVE  Memory(w)'
BY NoneApart DEF Memory, ServiceInv, ServiceTypes

\* A step that leaves the browsers alone need only be looked at for its worker.
LEMMA MemoryStep ==
    ASSUME ServiceInv, MemoryInv, NEW w \in Worker, UNCHANGED <<restarts, live>>,
           \A v \in Worker \ {w} :
              /\ tab'[v] = tab[v] /\ failedIn'[v] = failedIn[v] /\ attempt'[v] = attempt[v]
              /\ outcome'[v] = outcome[v] /\ pc'[v] = pc[v],
           Memory(w)'
    PROVE  MemoryInv'
<1>1. ASSUME NEW v \in Worker, v # w PROVE Memory(v)'
    <2>1. restarts' \in Nat /\ restarts' >= restarts
        BY DEF ServiceInv, ServiceTypes
    <2> QED
        BY <1>1, <2>1, MemoryKept DEF MemoryInv
<1> QED
    BY <1>1 DEF MemoryInv

LEMMA RespondMemory ==
    ASSUME ServiceInv, MemoryInv, NEW w \in Worker, Respond(w), UNCHANGED poolState
    PROVE  MemoryInv'
<1>1. Memory(w)'
    BY DEF MemoryInv, Memory, ServiceInv, ServiceTypes, HandlerInv, Rendering, Respond, poolState
<1> QED
    BY <1>1, MemoryStep DEF Respond, poolState, ServiceInv, ServiceTypes

LEMMA RestartMemory ==
    ASSUME BothInv, MemoryInv, NEW w \in Worker, RestartPool(w) \/ InstallBrowser(w) \/ Retry(w)
    PROVE  MemoryInv'
<1> USE DEF BothInv, MemoryInv
<1>0. restarts \in Nat /\ made > 0 /\ ServiceInv
    BY DEF ServiceInv, ServiceTypes, HandlerInv, Rendering, RestartPool, InstallBrowser, Retry, Returned,
       Pool!RestartBegin, Pool!RestartInstall, Pool!RestartFail, Pool!RemoveProfile, Pool!Goto
<1>1. CASE RestartPool(w)
    <2>1. live \subseteq {restarts}
        <3>1. AsMade(live) = live
            BY <1>0 DEF AsMade
        <3>2. AsMade(live) \subseteq {restarts}
            <4>1. PoolFacts!OneLiveBrowser
                BY DEF PoolFacts!IInv
            <4> QED
                BY <4>1 DEF PoolFacts!OneLiveBrowser
        <3> QED
            BY <3>1, <3>2, Zenon
    <2>2. live' = {} /\ restarts' = restarts
        BY <1>1, <2>1 DEF RestartPool, Pool!RestartBegin
    <2> QED
        BY <1>0, <1>1, <2>2 DEF Memory, ServiceInv, ServiceTypes, RestartPool, Pool!RestartBegin, service
<1>2. CASE InstallBrowser(w)
    <2>1. /\ restarts' = restarts + 1 /\ live' = live \cup {restarts + 1}
          /\ UNCHANGED <<tab, failedIn, attempt, outcome>>
          /\ pc[w] = "restarting" /\ pc' = [pc EXCEPT ![w] = "cleaning"]
        BY <1>2 DEF InstallBrowser, Pool!RestartInstall, Pool!Goto, service
    <2>2. ASSUME NEW v \in Worker, v # w PROVE Memory(v)'
        BY <1>0, <2>1, <2>2, MemoryKept DEF ServiceInv, ServiceTypes
    <2>3. Memory(w)'
        BY <1>0, <2>1, NoneApart DEF Memory, ServiceInv, ServiceTypes
    <2> QED
        BY <2>2, <2>3
<1>3. CASE Retry(w)
    <2>1. /\ pc[w] \in {"restarting", "cleaning"} /\ pc' = [pc EXCEPT ![w] = "idle"]
          /\ UNCHANGED <<restarts, live, tab>>
        BY <1>3 DEF Retry, Pool!RestartFail, Pool!RemoveProfile, Pool!Goto
    <2>2. Memory(w)'
        BY <1>0, <1>3, <2>1 DEF Memory, ServiceInv, ServiceTypes, Retry
    <2> QED
        BY <1>0, <1>3, <2>1, <2>2, MemoryStep DEF ServiceInv, ServiceTypes, Retry
<1> QED
    BY <1>1, <1>2, <1>3

LEMMA RunOnceMemory ==
    ASSUME ServiceInv, MemoryInv, NEW w \in Worker, RunOnce(w)
    PROVE  MemoryInv'
<1> USE DEF ServiceInv, ServiceTypes
<1>0. UNCHANGED <<restarts, live, attempt>>
    BY DEF RunOnce, AskForTab, Pool!AcquireCheck, NoTabInTime, Pool!AcquireTimeout, OpenTab,
       Pool!AcquireToken, Pool!NewTab, RenderOk, RenderFails, GiveTabBack, Pool!Release, Pool!CancelTab,
       Pool!ReleaseCheck, Pool!ReturnToken, service, poolState
<1>1. RenderStep(w)
    BY RunOnceSteps
<1>2. \A v \in Worker \ {w} :
          /\ tab'[v] = tab[v] /\ failedIn'[v] = failedIn[v] /\ attempt'[v] = attempt[v]
          /\ outcome'[v] = outcome[v] /\ pc'[v] = pc[v]
    <2>1. \A v \in Worker \ {w} : tab'[v] = tab[v]
        BY DEF RunOnce, AskForTab, Pool!AcquireCheck, NoTabInTime, Pool!AcquireTimeout, OpenTab,
           Pool!AcquireToken, Pool!NewTab, RenderOk, RenderFails, GiveTabBack, Pool!Release, Pool!CancelTab,
           Pool!ReleaseCheck, Pool!ReturnToken, service, poolState
    <2> QED
        BY <1>0, <1>1, <2>1 DEF RenderStep, End
\* An attempt that ends knows no other browser than that of its tab.
<1>3. Memory(w)'
    <2>1. tab'[w] \in {tab[w], restarts, None}
        BY DEF RunOnce, AskForTab, Pool!AcquireCheck, NoTabInTime, Pool!AcquireTimeout, OpenTab,
           Pool!AcquireToken, Pool!NewTab, RenderOk, RenderFails, GiveTabBack, Pool!Release, Pool!CancelTab,
           Pool!ReleaseCheck, Pool!ReturnToken, service, poolState
    <2>2. pc'[w] \notin {"restarting", "cleaning"}
        BY <1>1 DEF RenderStep
    <2>3. \/ outcome'[w] = outcome[w] /\ failedIn'[w] = failedIn[w]
          \/ outcome'[w] # None /\ failedIn'[w] \in {tab[w], None}
        BY NoneApart, Strings DEF RunOnce, AskForTab, NoTabInTime, OpenTab, RenderOk, RenderFails,
           GiveTabBack, End, service
    <2> QED
        BY <1>0, <2>1, <2>2, <2>3 DEF Memory, MemoryInv
<1> QED
    BY <1>0, <1>2, <1>3, MemoryStep

LEMMA OtherMemory ==
    ASSUME ServiceInv, MemoryInv, NEW w \in Worker,
           \/ ReceiveStats(w) \/ (\E d \in Document : Receive(w, d)) \/ CacheHit(w) \/ CacheMiss(w)
           \/ GetPool(w) \/ CreateBegin(w) \/ CreateFail(w) \/ Alone(w)
           \/ AnswerError(w) \/ AnswerTooLarge(w) \/ AnswerPDF(w)
    PROVE  MemoryInv'
<1> USE DEF ServiceInv, ServiceTypes
<1>0. UNCHANGED poolState
    BY DEF ReceiveStats, Receive, CacheHit, CacheMiss, GetPool, CreateBegin, CreateFail, Alone,
       StartOwnChrome, RenderAlone, RemoveOwnProfile, AnswerError, AnswerTooLarge, AnswerPDF
<1>1. CASE Respond(w)
    BY <1>0, <1>1, RespondMemory
<1>2. CASE ~Respond(w)
    <2>1. failedIn[w] = None /\ pc[w] = "idle" /\ failedIn' = failedIn
        BY <1>2 DEF HandlerInv, Rendering, ReceiveStats, Receive, CacheHit, CacheMiss, GetPool, UsePool,
           CreateBegin, CreateFail, Alone, StartOwnChrome, RenderAlone, RemoveOwnProfile, AnswerError,
           AnswerTooLarge, AnswerPDF, Move
    <2>2. Memory(w)'
        BY <1>0, <2>1 DEF Memory, MemoryInv, poolState
    <2>3. \A v \in Worker \ {w} : attempt'[v] = attempt[v] /\ outcome'[v] = outcome[v]
        BY <1>2 DEF ReceiveStats, Receive, CacheHit, CacheMiss, GetPool, UsePool,
           CreateBegin, CreateFail, Alone, StartOwnChrome, RenderAlone, RemoveOwnProfile, AnswerError,
           AnswerTooLarge, AnswerPDF
    <2> QED
        BY <1>0, <2>1, <2>2, <2>3, MemoryStep DEF poolState
<1> QED
    BY <1>1, <1>2

\* Nobody has rendered before the pool is made.
LEMMA CreateDoneMemory ==
    ASSUME ServiceInv, MemoryInv, NEW w \in Worker, CreateDone(w)
    PROVE  MemoryInv'
<1>1. \A v \in Worker : failedIn[v] = None
    BY DEF ServiceInv, ServiceTypes, Created, HandlerInv, CreateDone
<1>2. \A v \in Worker : failedIn'[v] = None
    BY <1>1 DEF ServiceInv, ServiceTypes, CreateDone, UsePool, Respond
<1> QED
    BY <1>2 DEF MemoryInv, Memory, CreateDone

LEMMA NextMemory == BothInv /\ MemoryInv /\ [Next]_vars => MemoryInv'
<1> SUFFICES ASSUME BothInv, MemoryInv, [Next]_vars PROVE MemoryInv'
    OBVIOUS
<1>0. ServiceInv
    BY DEF BothInv
<1>1. ASSUME NEW w \in Worker, Handle(w) PROVE MemoryInv'
    BY <1>0, <1>1, OtherMemory, CreateDoneMemory, RunOnceMemory, RestartMemory DEF Handle
<1>2. ASSUME NEW w \in Worker, ReceiveStats(w) \/ \E d \in Document : Receive(w, d)
      PROVE  MemoryInv'
    BY <1>0, <1>2, OtherMemory
<1>3. CASE UNCHANGED <<poolState, attempt, outcome, failedIn>>
    BY <1>0, <1>3 DEF MemoryInv, Memory, poolState
<1> QED
    BY <1>1, <1>2, <1>3 DEF Next, CacheExpire, vars, service

LEMMA MemoryMeaning == MemoryInv => RetryAvoidsFailedBrowser
BY DEF MemoryInv, Memory, RetryAvoidsFailedBrowser, Pending

\* The second attempt is not made in the browser that failed the first
\* (renderPDF, Restart), unless that browser is dead and its tab is too.
THEOREM RetriesAvoidFailedBrowser == Spec => []RetryAvoidsFailedBrowser
<1>1. Init => MemoryInv
    BY DEF Init, MemoryInv, Memory
<1> QED
    BY <1>1, MemoryMeaning, NextMemory, BothInvariance, PTL DEF Spec
-----------------------------------------------------------------------------
(* Restarts are paid for by requests *)

\* Requests that may still restart the browser.
Due == {w \in Worker : doc[w] # None /\ attempt[w] <= 1 /\ pc[w] # "cleaning"}

RestartsInv == restarts + Cardinality(Due) <= received

LEMMA DueFinite ==
    /\ \A D \in SUBSET Worker : IsFiniteSet(D) /\ Cardinality(D) \in Nat
    /\ \A D \in SUBSET Worker : \A E \in SUBSET D : Cardinality(E) <= Cardinality(D)
<1>1. IsFiniteSet(Worker)
    BY RendererAssumption DEF RendererAssumption
<1>2. ASSUME NEW D \in SUBSET Worker PROVE IsFiniteSet(D) /\ Cardinality(D) \in Nat
    BY <1>1, FS_Subset, FS_CardinalityType
<1>3. ASSUME NEW D \in SUBSET Worker, NEW E \in SUBSET D PROVE Cardinality(E) <= Cardinality(D)
    BY <1>2, FS_Subset
<1> QED
    BY <1>2, <1>3

\* A step after which no request is due that was not due before.
LEMMA NoneMoreDue ==
    ASSUME ServiceInv, RestartsInv, Due' \subseteq Due, UNCHANGED <<restarts, received>>
    PROVE  RestartsInv'
<1>1. Due \in SUBSET Worker /\ Due' \in SUBSET Due
    BY DEF Due
<1>2. Cardinality(Due') <= Cardinality(Due) /\ Cardinality(Due) \in Nat /\ Cardinality(Due') \in Nat
    BY <1>1, DueFinite
<1> QED
    BY <1>2 DEF RestartsInv, ServiceInv, ServiceTypes

LEMMA NextRestarts == ServiceInv /\ RestartsInv /\ [Next]_vars => RestartsInv'
<1> SUFFICES ASSUME ServiceInv, RestartsInv, [Next]_vars PROVE RestartsInv'
    OBVIOUS
<1> USE DEF ServiceInv, ServiceTypes
<1>1. ASSUME NEW w \in Worker, NEW d \in Document, Receive(w, d) PROVE RestartsInv'
    <2>1. Due \in SUBSET Worker /\ Due' \in SUBSET (Due \cup {w}) /\ Due \cup {w} \in SUBSET Worker
        BY <1>1 DEF Due, Receive, poolState
    <2>2. Cardinality(Due \cup {w}) <= Cardinality(Due) + 1
        BY <2>1, DueFinite, FS_AddElement
    <2>3. /\ Cardinality(Due') <= Cardinality(Due \cup {w})
          /\ Cardinality(Due') \in Nat /\ Cardinality(Due) \in Nat /\ Cardinality(Due \cup {w}) \in Nat
        BY <2>1, DueFinite
    <2>4. restarts' = restarts /\ received' = received + 1 /\ received \in Nat
        BY <1>1, RendererAssumption DEF Receive, poolState, RendererAssumption
    <2> QED
        BY <2>2, <2>3, <2>4 DEF RestartsInv
<1>2. ASSUME NEW w \in Worker, InstallBrowser(w) PROVE RestartsInv'
    <2>1. w \in Due
        BY <1>2, NoneApart DEF Due, InstallBrowser, Pool!RestartInstall, Pool!Goto, HandlerInv, Rendering
    <2>2. Due' = Due \ {w}
        BY <1>2 DEF Due, InstallBrowser, Pool!RestartInstall, Pool!Goto, service
    <2>3. Cardinality(Due') = Cardinality(Due) - 1 /\ Cardinality(Due) \in Nat
        <3>1. Due \in SUBSET Worker
            BY DEF Due
        <3> QED
            BY <2>1, <2>2, <3>1, DueFinite, FS_RemoveElement
    <2>4. restarts' = restarts + 1 /\ received' = received /\ received \in Nat
        BY <1>2, RendererAssumption DEF InstallBrowser, Pool!RestartInstall, service, RendererAssumption
    <2> QED
        BY <2>3, <2>4 DEF RestartsInv
<1>3. ASSUME NEW w \in Worker, Retry(w) PROVE RestartsInv'
    <2>1. UNCHANGED <<restarts, received>> /\ \A v \in Worker \ {w} : pc'[v] = pc[v]
        BY <1>3 DEF Retry, Pool!RestartFail, Pool!RemoveProfile, Pool!Goto
    <2>2. Due' \subseteq Due
        BY <1>3, <2>1 DEF Due, Retry
    <2> QED
        BY <2>1, <2>2, NoneMoreDue
<1>4. ASSUME NEW w \in Worker, RunOnce(w) \/ RestartPool(w) PROVE RestartsInv'
    <2>1. /\ UNCHANGED <<doc, attempt, received, restarts>>
          /\ \A v \in Worker : pc'[v] = pc[v] \/ pc[v] # "cleaning"
        BY <1>4 DEF RunOnce, AskForTab, Pool!AcquireCheck, NoTabInTime, Pool!AcquireTimeout, OpenTab,
           Pool!AcquireToken, Pool!NewTab, RenderOk, RenderFails, GiveTabBack, Pool!Release,
           Pool!CancelTab, Pool!ReleaseCheck, Pool!ReturnToken, RestartPool, Pool!RestartBegin, Pool!Goto,
           service, poolState
    <2>2. Due' \subseteq Due
        BY <2>1 DEF Due
    <2> QED
        BY <2>1, <2>2, NoneMoreDue
<1>5. ASSUME NEW w \in Worker, Respond(w), UNCHANGED <<pc, restarts, received>> PROVE RestartsInv'
    <2>1. Due' \subseteq Due
        BY <1>5 DEF Due, Respond
    <2> QED
        BY <1>5, <2>1, NoneMoreDue
<1>6. ASSUME NEW w \in Worker,
             \/ CacheHit(w) \/ CacheMiss(w) \/ GetPool(w) \/ CreateBegin(w) \/ CreateDone(w) \/ CreateFail(w)
             \/ Alone(w) \/ AnswerError(w) \/ AnswerTooLarge(w) \/ AnswerPDF(w) \/ ReceiveStats(w)
      PROVE  RestartsInv'
    <2>0. UNCHANGED <<pc, restarts, received>>
        BY <1>6 DEF CacheHit, CacheMiss, GetPool, CreateBegin, CreateDone, CreateFail, Alone, StartOwnChrome,
           RenderAlone, RemoveOwnProfile, AnswerError, AnswerTooLarge, AnswerPDF, ReceiveStats, poolState
    <2>1. CASE Respond(w)
        BY <1>5, <2>0, <2>1
    <2>2. CASE ~Respond(w)
        <3>1. doc' = doc /\ \A v \in Worker : attempt'[v] = attempt[v] \/ attempt[v] = 0
            BY <1>6, <2>2 DEF CacheHit, CacheMiss, GetPool, UsePool, CreateBegin, CreateDone, CreateFail, Alone,
               StartOwnChrome, RenderAlone, RemoveOwnProfile, AnswerError, AnswerTooLarge, AnswerPDF,
               ReceiveStats, HandlerInv, Rendering
        <3>2. Due' \subseteq Due
            BY <2>0, <3>1 DEF Due
        <3> QED
            BY <2>0, <3>2, NoneMoreDue
    <2> QED
        BY <2>1, <2>2
<1>7. CASE UNCHANGED <<poolState, doc, attempt, received>>
    BY <1>7 DEF RestartsInv, Due, poolState
<1> QED
    BY <1>1, <1>2, <1>3, <1>4, <1>6, <1>7 DEF Next, Handle, CacheExpire, vars, service

LEMMA RestartsMeaning ==
    ASSUME ServiceInv, RestartsInv
    PROVE  OneRestartPerRequest
<1> DEFINE R == {w \in Worker : pc[w] = "restarting"}
<1>1. R \in SUBSET Due /\ Due \in SUBSET Worker /\ R \in SUBSET Worker
    BY NoneApart DEF ServiceInv, ServiceTypes, HandlerInv, Rendering, Due
<1>2. Cardinality(R) <= Cardinality(Due) /\ Cardinality(R) \in Nat /\ Cardinality(Due) \in Nat
    BY <1>1, DueFinite
<1>3. restarts \in Nat /\ received \in Nat
    BY RendererAssumption DEF ServiceInv, ServiceTypes, RendererAssumption
<1> HIDE DEF R
<1>4. restarts + Cardinality(R) <= received
    BY <1>2, <1>3 DEF RestartsInv
<1> QED
    BY <1>4 DEF R, OneRestartPerRequest

\* A request restarts the browser at most once, so that requests whose tabs are
\* cancelled by the restarts of others cannot restart it for ever.
THEOREM RestartsAreBounded == Spec => []OneRestartPerRequest
<1>1. Init => RestartsInv
    <2> SUFFICES ASSUME Init PROVE RestartsInv
        OBVIOUS
    <2>1. Due = {}
        BY DEF Init, Due
    <2> QED
        BY <2>1, FS_EmptySet DEF Init, RestartsInv
<1> QED
    BY <1>1, RestartsMeaning, NextRestarts, ServiceInvariance, PTL DEF Spec
-----------------------------------------------------------------------------
(* The two mutexes *)

\* Who holds svc.poolMu is making the pool.
MakerInv == poolMu # None => stage[poolMu] = "creating" /\ made = 0

LEMMA NextMaker == ServiceInv /\ MakerInv /\ [Next]_vars => MakerInv'
<1> SUFFICES ASSUME ServiceInv, MakerInv, [Next]_vars PROVE MakerInv'
    OBVIOUS
<1> USE DEF ServiceInv, ServiceTypes, MakerInv
\* The holder goes on while other requests move.
<1>1. ASSUME UNCHANGED <<made, poolMu>>,
             \A v \in Worker : stage[v] = "creating" => stage'[v] = "creating"
      PROVE  MakerInv'
    BY <1>1
<1>2. ASSUME NEW w \in Worker, CreateBegin(w) PROVE MakerInv'
    BY <1>2 DEF CreateBegin, Move
<1>3. ASSUME NEW w \in Worker, CreateDone(w) \/ CreateFail(w) PROVE MakerInv'
    BY <1>3 DEF CreateDone, CreateFail
<1>4. ASSUME NEW w \in Worker, RunOnce(w) \/ RestartPool(w) \/ InstallBrowser(w) \/ Retry(w)
      PROVE  MakerInv'
    BY <1>1, <1>4 DEF RunOnce, AskForTab, NoTabInTime, OpenTab, RenderOk, RenderFails, GiveTabBack,
       RestartPool, InstallBrowser, Retry, service
<1>5. ASSUME NEW w \in Worker,
             ReceiveStats(w) \/ (\E d \in Document : Receive(w, d)) \/ CacheHit(w) \/ CacheMiss(w)
      PROVE  MakerInv'
    BY <1>1, <1>5 DEF ReceiveStats, Receive, CacheHit, CacheMiss, Respond, Move
<1>6. ASSUME NEW w \in Worker, GetPool(w) PROVE MakerInv'
    BY <1>1, <1>6 DEF GetPool, UsePool, Respond
<1>7. ASSUME NEW w \in Worker, Alone(w) PROVE MakerInv'
    BY <1>1, <1>7 DEF Alone, StartOwnChrome, RenderAlone, RemoveOwnProfile, Respond, Move
<1>8. ASSUME NEW w \in Worker, AnswerError(w) \/ AnswerTooLarge(w) \/ AnswerPDF(w) PROVE MakerInv'
    BY <1>1, <1>8 DEF AnswerError, AnswerTooLarge, AnswerPDF, Returned, Rendering, Respond
<1>9. ASSUME NEW d \in Document, CacheExpire(d) PROVE MakerInv'
    BY <1>1, <1>9 DEF CacheExpire
<1>10. CASE UNCHANGED vars
    BY <1>10 DEF vars, service
<1> QED
    BY <1>2, <1>3, <1>4, <1>5, <1>6, <1>7, <1>8, <1>9, <1>10 DEF Next, Handle

LEMMA NextPoolLock == BothInv /\ PoolFacts!LockHasHolder /\ [Next]_vars => PoolFacts!LockHasHolder'
<1>1. BothInv /\ [Next]_vars => [PoolFacts!Next]_(PoolFacts!poolVars)
    BY PoolStep, SameStep DEF BothInv
<1>2. PoolFacts!IInv /\ PoolFacts!LockHasHolder /\ [PoolFacts!Next]_(PoolFacts!poolVars)
        => PoolFacts!LockHasHolder'
    BY PoolFacts!LockStep, WorkerFinite, RendererAssumption DEF RendererAssumption
<1> QED
    BY <1>1, <1>2 DEF BothInv

\* Requests are in the methods of the pool only when there is one.
LEMMA LocksApart ==
    BothInv /\ MakerInv /\ PoolFacts!LockHasHolder => LocksHaveHolders
<1> SUFFICES ASSUME BothInv, MakerInv, PoolFacts!LockHasHolder, mu # None
             PROVE  pc[mu] = "restarting" /\ Rendering(mu) /\ made > 0
    BY DEF MakerInv, LocksHaveHolders
<1>1. mu \in Worker /\ pc[mu] = "restarting"
    BY DEF BothInv, PoolFacts!IInv, PoolFacts!TypeOK, PoolFacts!LockHasHolder
<1> QED
    BY <1>1 DEF BothInv, ServiceInv, HandlerInv

\* Whoever holds one of the mutexes needs no other one to go on (getChromePool,
\* Restart), so that requests never wait for each other in a circle, however
\* many of them there are.
THEOREM NoCircularWait == Spec => []LocksHaveHolders
<1>1. Init => MakerInv
    BY DEF Init, MakerInv
<1>2. Spec => PoolFacts!Spec
    BY PoolIsUsedAsAllowed, SameSpec DEF ImplementsPool
<1>3. PoolFacts!Spec => []PoolFacts!LockHasHolder
    BY PoolFacts!LockIsReleased, WorkerFinite, RendererAssumption DEF RendererAssumption
<1> QED
    BY <1>1, <1>2, <1>3, NextMaker, LocksApart, ServiceInvariance, BothInvariance, PTL DEF Spec
=============================================================================
