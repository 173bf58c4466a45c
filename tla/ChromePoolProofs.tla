-------------------------- MODULE ChromePoolProofs --------------------------
(***************************************************************************)
(* Theorems about ChromePool for any number of workers, any pool size and  *)
(* any bound on the restarts.                                              *)
(*                                                                         *)
(* The safety properties are not inductive: that the clean-up outside the  *)
(* mutex removes no directory in use depends on which directory the worker *)
(* remembered, on the mutex having been held while it was chosen, and on   *)
(* no restart beginning after Close.  IInv adds these facts.               *)
(***************************************************************************)
EXTENDS ChromePool, FiniteSetTheorems, TLAPS

\* The worker in Restart's critical section holds the mutex, the browser it
\* replaces is dead, and it remembers that browser's directory.
RestartIsExclusive ==
    \A w \in Worker : pc[w] = "restarting" => mu = w /\ dir[w] = restarts /\ live = {}

\* Nobody restarts a closed pool, and who closes it remembers the directory.
CloseIsLast ==
    /\ closed => mu = None
    /\ \A w \in Worker : pc[w] = "closing" => closed /\ dir[w] = restarts

\* A directory that is being removed belongs to a browser that is gone.
CleaningIsSafe ==
    \A w \in Worker : pc[w] = "cleaning" => dir[w] \in 0..restarts /\ dir[w] \notin live

IInv ==
    /\ TypeOK
    /\ CapacityConserved
    /\ OneLiveBrowser
    /\ LiveBrowserHasProfile
    /\ NoProfileLeak
    /\ RestartIsExclusive
    /\ CloseIsLast
    /\ CleaningIsSafe
-----------------------------------------------------------------------------
(* Type correctness *)

LEMMA Locations ==
    /\ "idle" \in Location /\ "waiting" \in Location /\ "admitted" \in Location
    /\ "using" \in Location /\ "released" \in Location /\ "returning" \in Location
    /\ "restarting" \in Location /\ "cleaning" \in Location /\ "closing" \in Location
BY DEF Location

LEMMA TypeInit == Init => TypeOK
<1> SUFFICES ASSUME Init PROVE TypeOK
    OBVIOUS
<1> USE PoolAssumption, Locations DEF Init, PoolAssumption, Browser
<1>1. sem \in 0..ChromePoolSize /\ restarts \in Nat
    OBVIOUS
<1>4. closed \in BOOLEAN /\ mu \in Worker \cup {None}
    OBVIOUS
<1>2. /\ live \subseteq Browser
      /\ profiles \subseteq Browser
      /\ undeleted \subseteq Browser
    OBVIOUS
<1>3. /\ pc \in [Worker -> Location]
      /\ tab \in [Worker -> Browser \cup {None}]
      /\ dir \in [Worker -> Browser \cup {None}]
    OBVIOUS
<1> QED
    BY <1>1, <1>2, <1>3, <1>4 DEF TypeOK

\* RemoveProfile adds to undeleted what the worker remembered.
LEMMA TypeStep == TypeOK /\ CleaningIsSafe /\ [Next]_poolVars => TypeOK'
<1> SUFFICES ASSUME TypeOK, CleaningIsSafe, [Next]_poolVars PROVE TypeOK'
    OBVIOUS
<1> USE PoolAssumption, Locations DEF PoolAssumption, TypeOK, Goto, Browser
<1>1. ASSUME NEW w \in Worker, AcquireCheck(w) PROVE TypeOK'
    BY <1>1 DEF AcquireCheck
<1>2. ASSUME NEW w \in Worker, AcquireRefused(w) PROVE TypeOK'
    BY <1>2 DEF AcquireRefused, poolVars
<1>3. ASSUME NEW w \in Worker, AcquireTimeout(w) PROVE TypeOK'
    BY <1>3 DEF AcquireTimeout
<1>4. ASSUME NEW w \in Worker, AcquireToken(w) PROVE TypeOK'
    BY <1>4 DEF AcquireToken
<1>5. ASSUME NEW w \in Worker, NewTab(w) PROVE TypeOK'
    BY <1>5 DEF NewTab
<1>6. ASSUME NEW w \in Worker, CancelTab(w) PROVE TypeOK'
    BY <1>6 DEF CancelTab
<1>7. ASSUME NEW w \in Worker, ReleaseCheck(w) PROVE TypeOK'
    BY <1>7 DEF ReleaseCheck
<1>8. ASSUME NEW w \in Worker, ReturnToken(w) PROVE TypeOK'
    BY <1>8 DEF ReturnToken
<1>9. ASSUME NEW w \in Worker, RestartRefused(w) PROVE TypeOK'
    BY <1>9 DEF RestartRefused, poolVars
<1>10. ASSUME NEW w \in Worker, RestartBegin(w) PROVE TypeOK'
    BY <1>10 DEF RestartBegin
<1>11. ASSUME NEW w \in Worker, RestartInstall(w) PROVE TypeOK'
    BY <1>11 DEF RestartInstall
<1>12. ASSUME NEW w \in Worker, RestartFail(w) PROVE TypeOK'
    BY <1>12 DEF RestartFail
<1>13. ASSUME NEW w \in Worker, RemoveProfile(w) PROVE TypeOK'
    <2>1. dir[w] \in Nat
        BY <1>13 DEF CleaningIsSafe, RemoveProfile
    <2> QED
        BY <1>13, <2>1 DEF RemoveProfile
<1>14. ASSUME NEW w \in Worker, CloseBegin(w) PROVE TypeOK'
    BY <1>14 DEF CloseBegin
<1>15. ASSUME NEW w \in Worker, CloseAgain(w) PROVE TypeOK'
    BY <1>15 DEF CloseAgain, poolVars
<1>16. ASSUME NEW w \in Worker, CloseCancel(w) PROVE TypeOK'
    BY <1>16 DEF CloseCancel
<1>17. CASE UNCHANGED poolVars
    BY <1>17 DEF poolVars
<1> QED
    BY <1>1, <1>2, <1>3, <1>4, <1>5, <1>6, <1>7, <1>8,
       <1>9, <1>10, <1>11, <1>12, <1>13, <1>14, <1>15, <1>16, <1>17
    DEF Next, Acquire, Release, Restart, Close
-----------------------------------------------------------------------------
(* The browser and its directory *)

BrowserInv ==
    /\ OneLiveBrowser
    /\ LiveBrowserHasProfile
    /\ RestartIsExclusive
    /\ CloseIsLast
    /\ CleaningIsSafe

LEMMA BrowserInit == Init => BrowserInv
BY PoolAssumption DEF Init, BrowserInv, OneLiveBrowser, LiveBrowserHasProfile,
   RestartIsExclusive, CloseIsLast, CleaningIsSafe

LEMMA BrowserStep == TypeOK /\ BrowserInv /\ [Next]_poolVars => BrowserInv'
<1> SUFFICES ASSUME TypeOK, BrowserInv, [Next]_poolVars PROVE BrowserInv'
    OBVIOUS
<1> USE PoolAssumption DEF PoolAssumption, TypeOK, BrowserInv, OneLiveBrowser,
    LiveBrowserHasProfile, RestartIsExclusive, CloseIsLast, CleaningIsSafe, Browser
\* Acquire and Release touch none of it.
<1>1. ASSUME NEW w \in Worker, NEW to \in Location \ {"restarting", "closing", "cleaning"},
             pc' = [pc EXCEPT ![w] = to],
             UNCHANGED <<closed, mu, restarts, live, profiles, dir>>
      PROVE  BrowserInv'
    BY <1>1
<1>2. ASSUME NEW w \in Worker, Acquire(w) PROVE BrowserInv'
    BY <1>1, <1>2 DEF Acquire, AcquireCheck, AcquireRefused, AcquireTimeout, AcquireToken,
                      NewTab, Goto, poolVars, Location
<1>3. ASSUME NEW w \in Worker, Release(w) PROVE BrowserInv'
    BY <1>1, <1>3 DEF Release, CancelTab, ReleaseCheck, ReturnToken, Goto, Location
<1>4. ASSUME NEW w \in Worker, RestartBegin(w) PROVE BrowserInv'
    BY <1>4 DEF RestartBegin, Goto
<1>5. ASSUME NEW w \in Worker, RestartInstall(w) PROVE BrowserInv'
    BY <1>5 DEF RestartInstall, Goto
<1>6. ASSUME NEW w \in Worker, RestartFail(w) PROVE BrowserInv'
    BY <1>6 DEF RestartFail, Goto
<1>7. ASSUME NEW w \in Worker, RemoveProfile(w) PROVE BrowserInv'
    BY <1>7 DEF RemoveProfile, Goto
<1>8. ASSUME NEW w \in Worker, CloseBegin(w) PROVE BrowserInv'
    BY <1>8 DEF CloseBegin, Goto
<1>9. ASSUME NEW w \in Worker, CloseCancel(w) PROVE BrowserInv'
    BY <1>9 DEF CloseCancel, Goto
<1>10. CASE UNCHANGED poolVars
    BY <1>10 DEF poolVars
<1> QED
    BY <1>2, <1>3, <1>4, <1>5, <1>6, <1>7, <1>8, <1>9, <1>10
    DEF Next, Restart, Close, RestartRefused, CloseAgain
-----------------------------------------------------------------------------
(* No directory leaks *)

LEMMA ProfileInit == Init => NoProfileLeak
BY DEF Init, NoProfileLeak

LEMMA ProfileStep == TypeOK /\ BrowserInv /\ NoProfileLeak /\ [Next]_poolVars => NoProfileLeak'
<1> SUFFICES ASSUME TypeOK, BrowserInv, NoProfileLeak, [Next]_poolVars PROVE NoProfileLeak'
    OBVIOUS
<1> USE PoolAssumption DEF PoolAssumption, TypeOK, NoProfileLeak
\* A step that neither begins nor ends a clean-up, nor makes a directory.
<1>1. ASSUME NEW w \in Worker, NEW to \in Location,
             pc[w] \notin {"closing", "cleaning"},
             to \notin {"closing", "cleaning"},
             pc' = [pc EXCEPT ![w] = to],
             \A v \in Worker : v # w => dir'[v] = dir[v],
             UNCHANGED <<closed, restarts, profiles, undeleted>>
      PROVE  NoProfileLeak'
    BY <1>1
<1>2. ASSUME NEW w \in Worker, Acquire(w) PROVE NoProfileLeak'
    BY <1>1, <1>2 DEF Acquire, AcquireCheck, AcquireRefused, AcquireTimeout, AcquireToken,
                      NewTab, Goto, poolVars, Location
<1>3. ASSUME NEW w \in Worker, Release(w) PROVE NoProfileLeak'
    BY <1>1, <1>3 DEF Release, CancelTab, ReleaseCheck, ReturnToken, Goto, Location
<1>4. ASSUME NEW w \in Worker, RestartBegin(w) PROVE NoProfileLeak'
    BY <1>1, <1>4 DEF RestartBegin, Goto, Location
<1>5. ASSUME NEW w \in Worker, RestartInstall(w) PROVE NoProfileLeak'
    <2>1. /\ restarts' = restarts + 1
          /\ profiles' = profiles \cup {restarts + 1}
          /\ pc[w] = "restarting" /\ pc' = [pc EXCEPT ![w] = "cleaning"]
          /\ ~closed /\ closed' = closed
          /\ dir[w] = restarts /\ dir' = dir
          /\ undeleted' = undeleted
        BY <1>5 DEF RestartInstall, Goto, BrowserInv, RestartIsExclusive, CloseIsLast
    <2>2. ASSUME NEW p \in profiles', p # restarts + 1, p # restarts, p \notin undeleted
          PROVE  \E v \in Worker : pc'[v] \in {"closing", "cleaning"} /\ p = dir'[v]
        BY <2>1, <2>2
    <2>3. pc'[w] = "cleaning" /\ dir'[w] = restarts
        BY <2>1
    <2> QED
        BY <2>1, <2>2, <2>3
<1>6. ASSUME NEW w \in Worker, RestartFail(w) PROVE NoProfileLeak'
    BY <1>1, <1>6 DEF RestartFail, Goto, Location
<1>7. ASSUME NEW w \in Worker, RemoveProfile(w) PROVE NoProfileLeak'
    BY <1>7 DEF RemoveProfile, Goto
<1>8. ASSUME NEW w \in Worker, CloseBegin(w) PROVE NoProfileLeak'
    BY <1>8 DEF CloseBegin, Goto
<1>9. ASSUME NEW w \in Worker, CloseCancel(w) PROVE NoProfileLeak'
    BY <1>9 DEF CloseCancel, Goto
<1>10. CASE UNCHANGED poolVars
    BY <1>10 DEF poolVars
<1> QED
    BY <1>2, <1>3, <1>4, <1>5, <1>6, <1>7, <1>8, <1>9, <1>10
    DEF Next, Restart, Close, RestartRefused, CloseAgain
-----------------------------------------------------------------------------
(* Tokens *)

HolderLocation == {"admitted", "using", "released", "returning"}

\* Holders, when one worker moves.
LEMMA HoldersMove ==
    ASSUME TypeOK, NEW w \in Worker, NEW to \in Location, pc' = [pc EXCEPT ![w] = to]
    PROVE  Holders' = IF to \in HolderLocation THEN Holders \cup {w} ELSE Holders \ {w}
BY DEF TypeOK, Holders, HolderLocation

LEMMA HoldersFinite ==
    ASSUME TypeOK
    PROVE  IsFiniteSet(Holders) /\ Cardinality(Holders) \in Nat
<1>1. Holders \in SUBSET Worker
    BY DEF Holders
<1> QED
    BY <1>1, PoolAssumption, FS_Subset, FS_CardinalityType DEF PoolAssumption

LEMMA CapacityInit == Init => CapacityConserved
<1> SUFFICES ASSUME Init PROVE CapacityConserved
    OBVIOUS
<1>1. Holders = {}
    BY DEF Init, Holders
<1> QED
    BY <1>1, FS_EmptySet, PoolAssumption DEF Init, CapacityConserved, InUse, PoolAssumption

LEMMA CapacityStep == TypeOK /\ CapacityConserved /\ [Next]_poolVars => CapacityConserved'
<1> SUFFICES ASSUME TypeOK, CapacityConserved, [Next]_poolVars PROVE CapacityConserved'
    OBVIOUS
<1> USE PoolAssumption, HoldersFinite DEF PoolAssumption, TypeOK, CapacityConserved, InUse
<1>1. ASSUME NEW w \in Worker, AcquireToken(w) PROVE CapacityConserved'
    <2>1. Holders' = Holders \cup {w} /\ w \notin Holders
        BY <1>1, HoldersMove DEF AcquireToken, Goto, Location, HolderLocation, Holders
    <2>2. Cardinality(Holders') = Cardinality(Holders) + 1
        BY <2>1, FS_AddElement
    <2> QED
        BY <1>1, <2>2 DEF AcquireToken
\* Once the pool is closed a holder leaves without putting its token back.
<1>2. ASSUME NEW w \in Worker, ReleaseCheck(w) PROVE CapacityConserved'
    <2>1. CASE closed
        <3>1. Holders' = Holders \ {w}
            BY <1>2, <2>1, HoldersMove DEF ReleaseCheck, Goto, Location, HolderLocation
        <3>2. Cardinality(Holders') <= Cardinality(Holders) /\ Cardinality(Holders') \in Nat
            BY <3>1, FS_Subset, FS_CardinalityType
        <3> QED
            BY <1>2, <2>1, <3>2 DEF ReleaseCheck
    <2>2. CASE ~closed
        <3>1. Holders' = Holders
            BY <1>2, <2>2, HoldersMove DEF ReleaseCheck, Goto, Location, HolderLocation, Holders
        <3> QED
            BY <1>2, <3>1 DEF ReleaseCheck
    <2> QED
        BY <2>1, <2>2
\* The channel has room for the token of every holder.
<1>3. ASSUME NEW w \in Worker, ReturnToken(w) PROVE CapacityConserved'
    <2>1. Holders' = Holders \ {w} /\ w \in Holders
        BY <1>3, HoldersMove DEF ReturnToken, Goto, Location, HolderLocation, Holders
    <2>2. Cardinality(Holders') = Cardinality(Holders) - 1 /\ Cardinality(Holders') \in Nat
        BY <2>1, FS_RemoveElement, FS_CardinalityType
    <2>3. sem' = sem + 1 /\ closed' = closed
        BY <1>3, <2>2 DEF ReturnToken
    <2> QED
        BY <2>2, <2>3
\* Every other step leaves the tokens and their holders alone.
<1>4. ASSUME UNCHANGED sem, closed => closed', Holders' = Holders PROVE CapacityConserved'
    BY <1>4
<1>5. ASSUME NEW w \in Worker,
             \/ AcquireCheck(w) \/ AcquireTimeout(w) \/ NewTab(w) \/ CancelTab(w)
             \/ RestartBegin(w) \/ RestartInstall(w) \/ RestartFail(w) \/ RemoveProfile(w)
             \/ CloseBegin(w) \/ CloseCancel(w)
      PROVE  CapacityConserved'
    <2>1. PICK to \in Location :
              /\ pc' = [pc EXCEPT ![w] = to]
              /\ to \in HolderLocation <=> pc[w] \in HolderLocation
        BY <1>5, Locations DEF AcquireCheck, AcquireTimeout, NewTab, CancelTab, RestartBegin,
            RestartInstall, RestartFail, RemoveProfile, CloseBegin, CloseCancel, Goto,
            HolderLocation
    <2>2. Holders' = Holders
        BY <2>1, HoldersMove DEF Holders, HolderLocation
    <2>3. UNCHANGED sem /\ (closed => closed')
        BY <1>5 DEF AcquireCheck, AcquireTimeout, NewTab, CancelTab, RestartBegin,
            RestartInstall, RestartFail, RemoveProfile, CloseBegin, CloseCancel
    <2> QED
        BY <1>4, <2>2, <2>3
<1>6. CASE UNCHANGED poolVars
    BY <1>4, <1>6 DEF poolVars, Holders
<1> QED
    BY <1>1, <1>2, <1>3, <1>5, <1>6
    DEF Next, Acquire, Release, Restart, Close, AcquireRefused, RestartRefused, CloseAgain
-----------------------------------------------------------------------------
(* The invariant *)

LEMMA Invariance == Spec => []IInv
<1>1. Init => IInv
    BY TypeInit, BrowserInit, ProfileInit, CapacityInit DEF IInv, BrowserInv
<1>2. IInv /\ [Next]_poolVars => IInv'
    BY TypeStep, BrowserStep, ProfileStep, CapacityStep DEF IInv, BrowserInv
<1> QED
    BY <1>1, <1>2, PTL DEF Spec

\* Every variable of the pool keeps its type.
THEOREM TypeCorrect == Spec => []TypeOK
BY Invariance, PTL DEF IInv

\* No interleaving of Acquire, its timeout, Release and Close forges a token,
\* and none loses one before the pool is closed.
THEOREM CapacityIsConserved == Spec => []CapacityConserved
BY Invariance, PTL DEF IInv

\* At most one browser lives, and it is the one new tabs are opened in.
THEOREM OneBrowserLives == Spec => []OneLiveBrowser
BY Invariance, PTL DEF IInv

\* The clean-up outside the mutex spares the directory of a running browser.
THEOREM ProfileOutlivesBrowser == Spec => []LiveBrowserHasProfile
BY Invariance, PTL DEF IInv

\* Directories that are neither current nor about to go failed to be removed.
THEOREM ProfilesAreRemoved == Spec => []NoProfileLeak
BY Invariance, PTL DEF IInv

\* After Close no browser starts: a Restart that has passed the check has
\* installed its browser before Close could take the mutex.
THEOREM ClosedForGood == Spec => NoStartAfterClose
<1>1. IInv /\ [Next]_poolVars => [closed => closed' /\ live' \subseteq live]_poolVars
    <2> SUFFICES ASSUME IInv, Next, closed PROVE closed' /\ live' \subseteq live
        OBVIOUS
    <2>1. ASSUME NEW w \in Worker PROVE ~RestartBegin(w) /\ ~RestartInstall(w)
        BY <2>1, PoolAssumption DEF IInv, RestartIsExclusive, CloseIsLast, RestartBegin,
           RestartInstall, Goto, PoolAssumption
    <2> QED
        BY <2>1 DEF Next, Acquire, AcquireCheck, AcquireRefused, AcquireTimeout, AcquireToken,
           NewTab, Release, CancelTab, ReleaseCheck, ReturnToken, Restart, RestartRefused,
           RestartFail, RemoveProfile, Close, CloseBegin, CloseAgain, CloseCancel, poolVars
<1> QED
    BY <1>1, Invariance, PTL DEF Spec, NoStartAfterClose
LEMMA LockInit == Init => LockHasHolder
BY DEF Init, LockHasHolder

LEMMA LockStep == IInv /\ LockHasHolder /\ [Next]_poolVars => LockHasHolder'
<1> SUFFICES ASSUME IInv, LockHasHolder, [Next]_poolVars PROVE LockHasHolder'
    OBVIOUS
<1> USE PoolAssumption DEF PoolAssumption, IInv, TypeOK, LockHasHolder, CloseIsLast, Goto
\* The holder stays where it is while another worker moves.
<1>1. ASSUME NEW w \in Worker, pc[w] # "restarting",
             \A v \in Worker : v # w => pc'[v] = pc[v],
             UNCHANGED <<closed, mu>>
      PROVE  LockHasHolder'
    BY <1>1
<1>2. ASSUME NEW w \in Worker, Acquire(w) PROVE LockHasHolder'
    BY <1>1, <1>2 DEF Acquire, AcquireCheck, AcquireRefused, AcquireTimeout, AcquireToken,
                      NewTab, poolVars
<1>3. ASSUME NEW w \in Worker, Release(w) PROVE LockHasHolder'
    BY <1>1, <1>3 DEF Release, CancelTab, ReleaseCheck, ReturnToken
<1>4. ASSUME NEW w \in Worker, RestartRefused(w) \/ RestartBegin(w) PROVE LockHasHolder'
    BY <1>4 DEF RestartRefused, RestartBegin, poolVars
<1>5. ASSUME NEW w \in Worker, RestartInstall(w) \/ RestartFail(w) PROVE LockHasHolder'
    BY <1>5 DEF RestartInstall, RestartFail
<1>6. ASSUME NEW w \in Worker, RemoveProfile(w) \/ CloseCancel(w) PROVE LockHasHolder'
    BY <1>1, <1>6 DEF RemoveProfile, CloseCancel
<1>7. ASSUME NEW w \in Worker, CloseBegin(w) \/ CloseAgain(w) PROVE LockHasHolder'
    BY <1>7 DEF CloseBegin, CloseAgain, poolVars
<1>8. CASE UNCHANGED poolVars
    BY <1>8 DEF poolVars
<1> QED
    BY <1>2, <1>3, <1>4, <1>5, <1>6, <1>7, <1>8 DEF Next, Restart, Close

\* Only a Restart that is starting a browser holds the mutex from one step to the
\* next, and both ways out of it unlock: no call of Restart or Close leaves it
\* locked.
THEOREM LockIsReleased == Spec => []LockHasHolder
BY LockInit, LockStep, Invariance, PTL DEF Spec
-----------------------------------------------------------------------------
(* The pool implements RenderSlots *)

Asked == {w \in Worker : pc[w] = "waiting"}

LEMMA AskedMove ==
    ASSUME TypeOK, NEW w \in Worker, NEW to \in Location, pc' = [pc EXCEPT ![w] = to]
    PROVE  Asked' = IF to = "waiting" THEN Asked \cup {w} ELSE Asked \ {w}
BY DEF TypeOK, Asked

LEMMA SlotsStep == TypeOK /\ CapacityConserved /\ [Next]_poolVars => [Slots!Next]_(Slots!slotVars)
<1> SUFFICES ASSUME TypeOK, CapacityConserved, [Next]_poolVars
             PROVE  Slots!Next \/ UNCHANGED <<closed, Asked, Holders>>
    BY DEF Slots!slotVars, Asked
<1> USE DEF Goto
<1>1. ASSUME NEW w \in Worker, AcquireCheck(w) PROVE Slots!Ask(w)
    <2>1. Asked' = Asked \cup {w} /\ w \notin Asked /\ Holders' = Holders /\ w \notin Holders
        BY <1>1, AskedMove, HoldersMove DEF Asked, AcquireCheck, Location, HolderLocation, Holders
    <2> QED
        BY <1>1, <2>1 DEF AcquireCheck, Slots!Ask, Asked
<1>2. ASSUME NEW w \in Worker, AcquireTimeout(w) PROVE Slots!GiveUp(w)
    <2>1. Asked' = Asked \ {w} /\ w \in Asked /\ Holders' = Holders
        BY <1>2, AskedMove, HoldersMove DEF Asked, AcquireTimeout, Location, HolderLocation, Holders
    <2> QED
        BY <1>2, <2>1 DEF AcquireTimeout, Slots!GiveUp, Asked
\* A token is there, hence a slot.
<1>3. ASSUME NEW w \in Worker, AcquireToken(w) PROVE Slots!Admit(w)
    <2>1. Asked' = Asked \ {w} /\ w \in Asked /\ Holders' = Holders \cup {w}
        BY <1>3, AskedMove, HoldersMove DEF Asked, AcquireToken, Location, HolderLocation
    <2>2. Cardinality(Holders) < ChromePoolSize
        BY <1>3, HoldersFinite, PoolAssumption DEF AcquireToken, CapacityConserved, InUse,
           TypeOK, PoolAssumption
    <2>3. Slots!Cardinality(Holders) = Cardinality(Holders)
        BY DEF Slots!Cardinality, Cardinality
    <2> QED
        BY <1>3, <2>1, <2>2, <2>3 DEF AcquireToken, Slots!Admit, Asked
<1>4. ASSUME NEW w \in Worker, ReturnToken(w) PROVE Slots!Leave(w)
    <2>1. Asked' = Asked /\ w \in Holders /\ Holders' = Holders \ {w}
        BY <1>4, AskedMove, HoldersMove DEF Asked, ReturnToken, Location, HolderLocation, Holders
    <2> QED
        BY <1>4, <2>1 DEF ReturnToken, Slots!Leave, Asked
<1>5. ASSUME NEW w \in Worker, ReleaseCheck(w), closed PROVE Slots!Leave(w)
    <2>1. Asked' = Asked /\ w \in Holders /\ Holders' = Holders \ {w}
        BY <1>5, AskedMove, HoldersMove DEF Asked, ReleaseCheck, Location, HolderLocation, Holders
    <2> QED
        BY <1>5, <2>1 DEF ReleaseCheck, Slots!Leave, Asked
<1>6. ASSUME NEW w \in Worker, CloseBegin(w) PROVE Slots!Shut
    <2>1. Asked' = Asked /\ Holders' = Holders
        BY <1>6, AskedMove, HoldersMove DEF Asked, CloseBegin, Location, HolderLocation, Holders
    <2> QED
        BY <1>6, <2>1 DEF CloseBegin, Slots!Shut, Asked
\* The other steps are stutters: the worker neither asks nor holds, or goes
\* on holding.
<1>7. ASSUME NEW w \in Worker,
             \/ NewTab(w) \/ CancelTab(w) \/ (ReleaseCheck(w) /\ ~closed)
             \/ RestartBegin(w) \/ RestartInstall(w) \/ RestartFail(w) \/ RemoveProfile(w)
             \/ CloseCancel(w)
      PROVE  UNCHANGED <<closed, Asked, Holders>>
    <2>1. PICK to \in Location :
              /\ pc' = [pc EXCEPT ![w] = to]
              /\ to \in HolderLocation <=> pc[w] \in HolderLocation
              /\ to # "waiting" /\ pc[w] # "waiting"
        BY <1>7, Locations DEF NewTab, CancelTab, ReleaseCheck, RestartBegin,
            RestartInstall, RestartFail, RemoveProfile, CloseCancel, HolderLocation
    <2>2. Holders' = Holders /\ Asked' = Asked
        BY <2>1, HoldersMove, AskedMove DEF Asked, Holders, HolderLocation
    <2> QED
        BY <1>7, <2>2 DEF NewTab, CancelTab, ReleaseCheck, RestartBegin,
            RestartInstall, RestartFail, RemoveProfile, CloseCancel
<1>8. CASE UNCHANGED poolVars
    BY <1>8 DEF poolVars, Holders, Asked
<1>9. ASSUME NEW w \in Worker, Acquire(w) \/ Release(w) \/ Restart(w) \/ Close(w)
      PROVE  Slots!Next \/ UNCHANGED <<closed, Asked, Holders>>
    <2>1. CASE Slots!Ask(w) \/ Slots!Admit(w) \/ Slots!GiveUp(w) \/ Slots!Leave(w) \/ Slots!Shut
        BY <2>1 DEF Slots!Next
    <2>2. CASE AcquireRefused(w) \/ RestartRefused(w) \/ CloseAgain(w)
        BY <1>8, <2>2 DEF AcquireRefused, RestartRefused, CloseAgain
    <2> QED
        BY <1>1, <1>2, <1>3, <1>4, <1>5, <1>6, <1>7, <1>9, <2>1, <2>2
        DEF Acquire, Release, Restart, Close
<1> QED
    BY <1>8, <1>9 DEF Next

\* The pool keeps the promise of RenderSlots: no more than chrome_pool_size
\* workers are ever admitted, and none that asks after Close.
THEOREM PoolImplementsSlots == Spec => ImplementsSlots
<1>1. Init => Slots!Init
    BY DEF Init, Slots!Init, Holders
<1>2. IInv /\ [Next]_poolVars => [Slots!Next]_(Slots!slotVars)
    BY SlotsStep DEF IInv
<1> QED
    BY <1>1, <1>2, Invariance, PTL DEF Spec, ImplementsSlots, Slots!Spec
=============================================================================
