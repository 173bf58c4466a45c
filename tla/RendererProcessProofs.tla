------------------------ MODULE RendererProcessProofs ------------------------
(***************************************************************************)
(* Theorems about RendererProcess for any number of workers, requests and  *)
(* runs of the process.                                                    *)
(*                                                                         *)
(* The end of a process is a step from any state of Renderer to one like   *)
(* its initial state, so that the invariant of the handlers and the pool   *)
(* holds from run to run.  What a run can leave on disk when it ends is    *)
(* bounded by that invariant: the current profile, and one for each        *)
(* request under way.                                                      *)
(***************************************************************************)
EXTENDS RendererProcess, RendererProofs

\* Nothing of a pool is there where none was asked for.
PooledInv == ~pooled => made = 0 /\ \A w \in Worker : stage[w] # "creating"

ControlTypes ==
    /\ process \in {"down", "started", "running", "stopping"}
    /\ listener \in {"none", "open", "failed", "closed"}
    /\ exits \in Nat /\ cutOff \in Nat /\ orphans \in Nat

\* Only as many processes end as were started.
ExitsInv == exits <= MaxRuns /\ (process # "down" => exits < MaxRuns)

ProcessInv ==
    /\ BothInv
    /\ PooledInv
    /\ ControlTypes
    /\ ExitsInv
    /\ LeftOnDisk
-----------------------------------------------------------------------------
(* The handlers and the pool *)

LEMMA BothInit == Init => BothInv
<1> SUFFICES ASSUME Init PROVE BothInv
    OBVIOUS
<1>1. PoolFacts!Init
    BY DEF Init, PoolFacts!Init, AsMade
<1>2. PoolFacts!TypeOK /\ PoolFacts!BrowserInv /\ PoolFacts!NoProfileLeak /\ PoolFacts!CapacityConserved
    BY <1>1, PoolFacts!TypeInit, PoolFacts!BrowserInit, PoolFacts!ProfileInit, PoolFacts!CapacityInit,
       WorkerFinite, RendererAssumption DEF RendererAssumption
<1> QED
    BY <1>2, InitService DEF BothInv, PoolFacts!IInv, PoolFacts!BrowserInv

LEMMA BothNext == BothInv /\ [Next]_vars => BothInv'
<1> SUFFICES ASSUME BothInv, [Next]_vars PROVE BothInv'
    OBVIOUS
<1>1. ServiceInv /\ ServiceInv'
    BY NextService DEF BothInv
<1>2. [PoolFacts!Next]_(PoolFacts!poolVars)
    BY <1>1, PoolStep, SameStep
<1>3. /\ PoolFacts!TypeOK /\ PoolFacts!BrowserInv /\ PoolFacts!NoProfileLeak /\ PoolFacts!CapacityConserved
      /\ PoolFacts!CleaningIsSafe
    BY DEF BothInv, PoolFacts!IInv, PoolFacts!BrowserInv
<1>4. PoolFacts!TypeOK'
    BY <1>2, <1>3, PoolFacts!TypeStep, WorkerFinite, RendererAssumption DEF RendererAssumption
<1>5. PoolFacts!BrowserInv'
    BY <1>2, <1>3, PoolFacts!BrowserStep, WorkerFinite, RendererAssumption DEF RendererAssumption
<1>6. PoolFacts!NoProfileLeak'
    BY <1>2, <1>3, PoolFacts!ProfileStep, WorkerFinite, RendererAssumption DEF RendererAssumption
<1>7. PoolFacts!CapacityConserved'
    BY <1>2, <1>3, PoolFacts!CapacityStep, WorkerFinite, RendererAssumption DEF RendererAssumption
<1> QED
    BY <1>1, <1>4, <1>5, <1>6, <1>7 DEF BothInv, PoolFacts!IInv, PoolFacts!BrowserInv

\* Only the two steps of creation move a request to and from NewPool.
LEMMA PooledHandle ==
    ASSUME PooledInv, ~pooled, stage \in [Worker -> Stage],
           NEW w \in Worker, ReceiveStats(w) \/ Handle(w) \/ \E d \in Document : Receive(w, d)
    PROVE  made' = 0 /\ \A v \in Worker : stage'[v] # "creating"
<1>0. made = 0 /\ \A v \in Worker : stage[v] # "creating"
    BY DEF PooledInv
<1>1. ~CreateBegin(w) /\ ~CreateDone(w) /\ ~CreateFail(w)
    BY <1>0 DEF CreateBegin, CreateDone, CreateFail
<1>2. made' = made
    BY <1>1 DEF Handle, ReceiveStats, Receive, CacheHit, CacheMiss, GetPool, RunOnce, AskForTab,
       NoTabInTime, OpenTab, RenderOk, RenderFails, GiveTabBack, Alone, StartOwnChrome, RenderAlone,
       RemoveOwnProfile, RestartPool, InstallBrowser, Retry, AnswerError, AnswerTooLarge, AnswerPDF, service
<1>3. stage' = stage \/ \E to \in {"idle", "lookup", "pool", "rendering", "alone"} :
                            stage' = [stage EXCEPT ![w] = to]
    <2>1. CASE RunOnce(w) \/ RestartPool(w) \/ InstallBrowser(w) \/ Retry(w)
        BY <2>1 DEF RunOnce, AskForTab, NoTabInTime, OpenTab, RenderOk, RenderFails, GiveTabBack,
           RestartPool, InstallBrowser, Retry, service
    <2>2. CASE Alone(w)
        BY <2>2 DEF Alone, StartOwnChrome, RenderAlone, RemoveOwnProfile, Respond, Move
    <2>3. CASE ReceiveStats(w) \/ (\E d \in Document : Receive(w, d)) \/ CacheHit(w) \/ CacheMiss(w)
        BY <2>3 DEF ReceiveStats, Receive, CacheHit, CacheMiss, Respond, Move
    <2>4. CASE GetPool(w) \/ AnswerError(w) \/ AnswerTooLarge(w) \/ AnswerPDF(w)
        BY <2>4 DEF GetPool, UsePool, AnswerError, AnswerTooLarge, AnswerPDF, Respond
    <2> QED
        BY <1>1, <2>1, <2>2, <2>3, <2>4 DEF Handle
<1> QED
    BY <1>0, <1>2, <1>3

LEMMA PooledConstant == [Next]_vars => pooled' = pooled
BY DEF Next, Handle, ReceiveStats, Receive, CacheExpire, CacheHit, CacheMiss, GetPool, CreateBegin,
   CreateDone, CreateFail, RunOnce, AskForTab, NoTabInTime, OpenTab, RenderOk, RenderFails, GiveTabBack,
   Alone, StartOwnChrome, RenderAlone, RemoveOwnProfile, RestartPool, InstallBrowser, Retry,
   AnswerError, AnswerTooLarge, AnswerPDF, service, mode, vars

LEMMA PooledNext == ServiceInv /\ PooledInv /\ [Next]_vars => PooledInv'
<1> SUFFICES ASSUME ServiceInv, PooledInv, [Next]_vars, ~pooled
             PROVE  made' = 0 /\ \A w \in Worker : stage'[w] # "creating"
    BY PooledConstant DEF PooledInv
<1>1. stage \in [Worker -> Stage]
    BY DEF ServiceInv, ServiceTypes
<1>2. CASE \E d \in Document : CacheExpire(d)
    BY <1>2 DEF CacheExpire, PooledInv
<1>3. CASE UNCHANGED vars
    BY <1>3 DEF PooledInv, vars, service
<1> QED
    BY <1>1, <1>2, <1>3, PooledHandle DEF Next
-----------------------------------------------------------------------------
(* The end of a process *)

LEMMA FreshPool ==
    PoolFacts!Init => /\ PoolFacts!TypeOK /\ PoolFacts!BrowserInv
                      /\ PoolFacts!NoProfileLeak /\ PoolFacts!CapacityConserved
BY PoolFacts!TypeInit, PoolFacts!BrowserInit, PoolFacts!ProfileInit, PoolFacts!CapacityInit,
   WorkerFinite, RendererAssumption DEF RendererAssumption

LEMMA FreshPoolNext ==
    PoolFacts!Init' => /\ PoolFacts!TypeOK' /\ PoolFacts!BrowserInv'
                       /\ PoolFacts!NoProfileLeak' /\ PoolFacts!CapacityConserved'
BY FreshPool, PTL

LEMMA BothForget ==
    ASSUME BothInv, Forget, UNCHANGED stored
    PROVE  BothInv'
<1> USE DEF Forget, stored
<1>1. PoolFacts!Init'
    BY DEF PoolFacts!Init, AsMade
<1>2. PoolFacts!IInv'
    BY <1>1, FreshPoolNext DEF PoolFacts!IInv, PoolFacts!BrowserInv
<1>3. ServiceTypes'
    BY Strings DEF BothInv, ServiceInv, ServiceTypes, Pool!Location
<1>4. Created' /\ ~closed' /\ CacheHoldsGoodPDFs'
    BY DEF BothInv, ServiceInv, Created, CacheHoldsGoodPDFs
<1>5. ASSUME NEW w \in Worker PROVE HandlerInv(w)'
    BY NoneApart DEF HandlerInv, Rendering
<1> QED
    BY <1>2, <1>3, <1>4, <1>5 DEF BothInv, ServiceInv
-----------------------------------------------------------------------------
(* What a process has on disk *)

Cleaning == {w \in Worker : pc[w] = "cleaning"}

Doomed == {dir[w] : w \in Cleaning}

LEMMA FewDoomed == IsFiniteSet(Doomed) /\ Cardinality(Doomed) <= Cardinality(Cleaning)
<1> DEFINE f == [w \in Cleaning |-> dir[w]]
<1>1. f \in Surjection(Cleaning, Doomed)
    BY DEF Surjection, Doomed
<1>2. IsFiniteSet(Cleaning)
    BY DueFinite DEF Cleaning
<1> HIDE DEF f
<1> QED
    BY <1>1, <1>2, FS_Surjection

LEMMA ProfilesAreFew ==
    ASSUME BothInv, made # 0
    PROVE  /\ IsFiniteSet(profiles \ undeleted)
           /\ Cardinality(profiles \ undeleted) <= Cardinality(Cleaning) + 1
<1>1. profiles \ undeleted \in SUBSET (Doomed \cup {restarts})
    <2>1. AsMade(profiles) = profiles /\ ~closed /\ \A w \in Worker : pc[w] # "closing"
        BY DEF AsMade, BothInv, ServiceInv, HandlerInv
    <2>2. PoolFacts!NoProfileLeak
        BY DEF BothInv, PoolFacts!IInv
    <2> QED
        BY <2>1, <2>2 DEF PoolFacts!NoProfileLeak, Doomed, Cleaning
<1>2. /\ IsFiniteSet(Doomed \cup {restarts})
      /\ Cardinality(Doomed \cup {restarts}) <= Cardinality(Doomed) + 1
    BY FewDoomed, FS_AddElement, FS_CardinalityType
<1>3. IsFiniteSet(profiles \ undeleted)
      /\ Cardinality(profiles \ undeleted) <= Cardinality(Doomed \cup {restarts})
    BY <1>1, <1>2, FS_Subset
<1>4. Cleaning \in SUBSET Worker
    BY DEF Cleaning
<1> QED
    BY <1>2, <1>3, <1>4, FewDoomed, FS_CardinalityType, DueFinite

\* Who is about to remove a directory, or has one of its own, is serving a request.
LEMMA FewLeft ==
    ASSUME BothInv, PooledInv
    PROVE  /\ Cardinality(profiles \ undeleted) \in Nat
           /\ Cardinality(own) \in Nat
           /\ Cardinality(Busy) \in Nat
           /\ Cardinality(profiles \ undeleted) + Cardinality(own)
                  <= Cardinality(Busy) + (IF pooled THEN 1 ELSE 0)
<1>1. /\ Cleaning \in SUBSET Worker /\ own \in SUBSET Worker /\ Busy \in SUBSET Worker
      /\ Cleaning \cup own \in SUBSET Busy /\ Cleaning \cap own = {}
    BY DEF BothInv, ServiceInv, ServiceTypes, HandlerInv, Rendering, Cleaning, Busy
<1>2. /\ Cardinality(Busy) \in Nat /\ Cardinality(own) \in Nat /\ Cardinality(Cleaning) \in Nat
      /\ Cardinality(Cleaning) + Cardinality(own) <= Cardinality(Busy)
    <2>1. /\ IsFiniteSet(Cleaning) /\ IsFiniteSet(own)
          /\ Cardinality(Busy) \in Nat /\ Cardinality(own) \in Nat /\ Cardinality(Cleaning) \in Nat
          /\ Cardinality(Cleaning \cup own) <= Cardinality(Busy)
        BY <1>1, DueFinite
    <2>2. Cardinality(Cleaning \cup own) = Cardinality(Cleaning) + Cardinality(own) - Cardinality({})
        BY <1>1, <2>1, FS_Union
    <2> QED
        BY <2>1, <2>2, FS_EmptySet
<1>3. CASE made = 0
    <2>1. profiles \ undeleted = {}
        BY <1>3 DEF BothInv, ServiceInv, Created
    <2>2. Cardinality(profiles \ undeleted) = 0
        BY <2>1, FS_EmptySet
    <2> QED
        BY <1>2, <2>2
<1>4. CASE made # 0
    <2>1. pooled
        BY <1>4 DEF PooledInv
    <2>2. /\ Cardinality(profiles \ undeleted) \in Nat
          /\ Cardinality(profiles \ undeleted) <= Cardinality(Cleaning) + 1
        BY <1>4, ProfilesAreFew, FS_CardinalityType
    <2> QED
        BY <1>2, <2>1, <2>2
<1> QED
    BY <1>3, <1>4
-----------------------------------------------------------------------------
(* Steps of the process *)

LEMMA ExitKeeps ==
    ASSUME ProcessInv, process # "down", Exit
    PROVE  ProcessInv'
<1> USE DEF ProcessInv, Exit
<1>1. BothInv'
    BY BothForget
<1>2. PooledInv'
    BY DEF PooledInv, Forget, stored
<1>3. ControlTypes'
    BY FewLeft DEF ControlTypes
<1>4. ExitsInv'
    BY ProcessAssumption DEF ControlTypes, ExitsInv, ProcessAssumption
<1>5. LeftOnDisk'
    <2>1. pooled' = pooled /\ orphans <= cutOff + (IF pooled THEN exits ELSE 0)
        BY DEF stored, LeftOnDisk
    <2> QED
        BY <2>1, FewLeft DEF ControlTypes, LeftOnDisk
<1> QED
    BY <1>1, <1>2, <1>3, <1>4, <1>5

\* Any other step: the handlers and the pool do theirs, or nothing.
LEMMA ServeKeeps ==
    ASSUME ProcessInv, [Next]_vars, UNCHANGED <<exits, cutOff, orphans>>,
           process' \in {"down", "started", "running", "stopping"},
           listener' \in {"none", "open", "failed", "closed"},
           process' # "down" => process # "down" \/ exits < MaxRuns
    PROVE  ProcessInv'
<1>1. BothInv' /\ PooledInv' /\ pooled' = pooled
    BY BothNext, PooledNext, PooledConstant DEF ProcessInv, BothInv
<1> QED
    BY <1>1 DEF ProcessInv, ControlTypes, ExitsInv, LeftOnDisk

LEMMA NextProcess == ProcessInv /\ [ProcessNext]_processVars => ProcessInv'
<1> SUFFICES ASSUME ProcessInv, [ProcessNext]_processVars PROVE ProcessInv'
    OBVIOUS
<1>0. /\ process \in {"down", "started", "running", "stopping"}
      /\ listener \in {"none", "open", "failed", "closed"}
    BY DEF ProcessInv, ControlTypes
<1>1. CASE DrainedExit \/ ForcedExit \/ Crash
    BY <1>1, ExitKeeps DEF DrainedExit, ForcedExit, Crash
<1>2. CASE Start \/ Listen \/ Notify \/ Signal
    <2>1. UNCHANGED vars
        BY <1>2 DEF Start, Listen, Notify, Signal, memory, stored, vars, poolState, service
    <2> QED
        BY <1>0, <1>2, <2>1, ServeKeeps DEF Start, Listen, Notify, Signal, Become
<1>3. ASSUME NEW w \in Worker, Accept(w) \/ Serve(w) PROVE ProcessInv'
    <2>1. Next
        BY <1>3 DEF Accept, Serve, Next
    <2> QED
        BY <1>0, <1>3, <2>1, ServeKeeps DEF Accept, Serve, control
<1>4. ASSUME NEW d \in Document, Expire(d) PROVE ProcessInv'
    <2>1. Next
        BY <1>4 DEF Expire, Next
    <2> QED
        BY <1>0, <1>4, <2>1, ServeKeeps DEF Expire, control
<1>5. CASE UNCHANGED processVars
    <2>1. UNCHANGED vars
        BY <1>5 DEF processVars, memory, stored, vars, poolState, service
    <2> QED
        BY <1>0, <1>5, <2>1, ServeKeeps DEF processVars, control
<1> QED
    BY <1>1, <1>2, <1>3, <1>4, <1>5 DEF ProcessNext

LEMMA ProcessInvariance == ProcessSpec => []ProcessInv
<1>1. ProcessInit => ProcessInv
    BY BothInit, ProcessAssumption
    DEF ProcessInit, ProcessInv, Init, PooledInv, ControlTypes, ExitsInv, LeftOnDisk, ProcessAssumption
<1> QED
    BY <1>1, NextProcess, PTL DEF ProcessSpec

\* The process and all that runs in it keep their types over any number of
\* starts, crashes and shutdowns (main, handlers, pool).
THEOREM ProcessTypeCorrect == ProcessSpec => []ProcessTypeOK
<1>1. ProcessInv => ProcessTypeOK
    BY Typed, ProcessAssumption DEF ProcessInv, ControlTypes, ExitsInv, ProcessTypeOK, ProcessAssumption
<1> QED
    BY <1>1, ProcessInvariance, PTL

\* A process that ends without closing its pool (main) leaves no more than the
\* current profile directory and one for each request it cuts off.
THEOREM FewDirectoriesAreLeft == ProcessSpec => []LeftOnDisk
<1>1. ProcessInv => LeftOnDisk
    BY DEF ProcessInv
<1> QED
    BY <1>1, ProcessInvariance, PTL
-----------------------------------------------------------------------------
(* The guarantees of Renderer, from run to run *)

\* What the handlers and the pool remember besides BothInv.
ServingInv == MemoryInv /\ RestartsInv /\ MakerInv /\ PoolFacts!LockHasHolder

LEMMA ServingInit == Init => ServingInv
<1> SUFFICES ASSUME Init PROVE ServingInv
    OBVIOUS
<1>1. MemoryInv
    BY DEF Init, MemoryInv, Memory
<1>2. RestartsInv
    <2>1. Due = {}
        BY DEF Init, Due
    <2> QED
        BY <2>1, FS_EmptySet DEF Init, RestartsInv
<1>3. MakerInv /\ PoolFacts!LockHasHolder
    BY DEF Init, MakerInv, PoolFacts!LockHasHolder
<1> QED
    BY <1>1, <1>2, <1>3 DEF ServingInv

LEMMA ServingNext == BothInv /\ ServingInv /\ [Next]_vars => ServingInv'
BY NextMemory, NextRestarts, NextMaker, NextPoolLock DEF ServingInv, BothInv

\* A new process has not restarted anything, and the requests are still counted.
LEMMA ServingForget ==
    ASSUME BothInv, Forget, UNCHANGED stored
    PROVE  ServingInv'
<1> USE DEF Forget, stored
<1>1. MemoryInv'
    BY DEF MemoryInv, Memory
<1>2. RestartsInv'
    <2>1. Due' = {}
        BY DEF Due
    <2>2. received' \in Nat
        BY RendererAssumption DEF BothInv, ServiceInv, ServiceTypes, RendererAssumption
    <2>3. Cardinality(Due') = 0 /\ restarts' = 0
        BY <2>1, FS_EmptySet
    <2> QED
        BY <2>2, <2>3 DEF RestartsInv
<1>3. MakerInv' /\ PoolFacts!LockHasHolder'
    BY DEF MakerInv, PoolFacts!LockHasHolder
<1> QED
    BY <1>1, <1>2, <1>3 DEF ServingInv

LEMMA ServingInvariance == ProcessSpec => []ServingInv
<1>1. ProcessInit => ServingInv
    BY ServingInit DEF ProcessInit
<1>2. ProcessInv /\ ServingInv /\ [ProcessNext]_processVars => ServingInv'
    <2> SUFFICES ASSUME ProcessInv, ServingInv, [ProcessNext]_processVars PROVE ServingInv'
        OBVIOUS
    <2>1. CASE DrainedExit \/ ForcedExit \/ Crash
        BY <2>1, ServingForget DEF DrainedExit, ForcedExit, Crash, Exit, ProcessInv
    <2>2. CASE Start \/ Listen \/ Notify \/ Signal \/ UNCHANGED processVars
        <3>1. UNCHANGED vars
            BY <2>2 DEF Start, Listen, Notify, Signal, processVars, memory, stored, vars, poolState, service
        <3> QED
            BY <3>1, ServingNext DEF ProcessInv
    <2>3. ASSUME NEW w \in Worker, Accept(w) \/ Serve(w) PROVE ServingInv'
        <3>1. Next
            BY <2>3 DEF Accept, Serve, Next
        <3> QED
            BY <3>1, ServingNext DEF ProcessInv
    <2>4. ASSUME NEW d \in Document, Expire(d) PROVE ServingInv'
        <3>1. Next
            BY <2>4 DEF Expire, Next
        <3> QED
            BY <3>1, ServingNext DEF ProcessInv
    <2> QED
        BY <2>1, <2>2, <2>3, <2>4 DEF ProcessNext
<1> QED
    BY <1>1, <1>2, ProcessInvariance, PTL DEF ProcessSpec

\* What Renderer guarantees of one process that never ends.
ServesAsPromised ==
    /\ SinglePool
    /\ OneRestartPerRequest
    /\ RetryAvoidsFailedBrowser
    /\ AnsweredMeansReleased
    /\ CacheHoldsGoodPDFs
    /\ LocksHaveHolders

\* Every guarantee of the handlers and the pool holds in every process over any
\* number of starts, crashes and shutdowns, although a process takes over the
\* cache that others have left, in the middle of whatever they were doing.
THEOREM PromisesSurviveProcesses == ProcessSpec => []ServesAsPromised
<1>1. ASSUME BothInv, ServingInv PROVE ServesAsPromised
    <2>1. SinglePool /\ CacheHoldsGoodPDFs
        BY <1>1 DEF BothInv, ServiceInv, Created, SinglePool
    <2>2. OneRestartPerRequest
        BY <1>1, RestartsMeaning DEF BothInv, ServingInv
    <2>3. RetryAvoidsFailedBrowser
        BY <1>1, MemoryMeaning DEF ServingInv
    <2>4. AnsweredMeansReleased
        BY <1>1, ReleasedMeaning
    <2>5. LocksHaveHolders
        BY <1>1, LocksApart DEF ServingInv
    <2> QED
        BY <2>1, <2>2, <2>3, <2>4, <2>5 DEF ServesAsPromised
<1> QED
    BY <1>1, ProcessInvariance, ServingInvariance, PTL DEF ProcessInv
=============================================================================
