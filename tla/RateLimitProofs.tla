-------------------------- MODULE RateLimitProofs --------------------------
(***************************************************************************)
(* Theorems about RateLimit for any number of requests, keys and users and *)
(* any limits.                                                             *)
(*                                                                         *)
(* That a limit holds in a window compares the requests let through with   *)
(* the entry in the storage, or, while a request is between get and set,   *)
(* with the entry it has read: IInv says that only one request can be      *)
(* there for a key that one limiter counts.                                *)
(***************************************************************************)
EXTENDS RateLimit, TLAPS

Counting(w) == at[w] = "counting"

\* A request on its way has a key and a limiter.  Users have one limiter, and
\* only requests with a key make limiters.
UnderWay ==
    \A w \in Worker : at[w] # "idle" =>
        /\ key[w] # None
        /\ limiter[w] # None
        /\ key[w] \in User => limiter[w] = UserLimiter /\ at[w] # "making"
        /\ at[w] = "making" => limiter[w].max \in Limit

\* The request between get and set holds the mutex of its limiter alone, and
\* the limiter has claimed the key.
Exclusive ==
    /\ \A w \in Worker : Counting(w) => /\ limiter[w] \in locked
                                        /\ countedBy[key[w]] \in {limiter[w], Several}
    /\ \A v, w \in Worker : Counting(v) /\ Counting(w) /\ limiter[v] = limiter[w] => v = w

\* A key that was never counted has not been let through, and users are
\* counted by their limiter.
Claimed ==
    /\ \A k \in Key : countedBy[k] = None => passed[k] = 0
    /\ \A u \in User : countedBy[u] \in {None, UserLimiter}

\* No hit is lost: all requests let through are in the entry.
InEntry ==
    \A k \in Key : countedBy[k] # Several =>
        /\ \A w \in Worker : Counting(w) /\ key[w] = k => passed[k] <= seen[w].curr
        /\ (\A w \in Worker : ~(Counting(w) /\ key[w] = k)) => passed[k] <= storage[k].curr

IInv ==
    /\ TypeOK
    /\ UnderWay
    /\ Exclusive
    /\ Claimed
    /\ InEntry
    /\ OneLimiterKeepsTheLimit
-----------------------------------------------------------------------------
(* Facts about the constants *)

LEMMA Limiters ==
    /\ UserLimiter \in Limiter
    /\ \A i \in Limiter : i.max \in Nat
    /\ \A l \in Limit, w \in Worker : [max |-> l, maker |-> w] \in Limiter
BY RateLimitAssumption DEF RateLimitAssumption, Limiter, UserLimiter

LEMMA Initial == Init => IInv
<1> SUFFICES ASSUME Init PROVE IInv
    OBVIOUS
<1> USE DEF Init
<1>1. NoHits \in Hits
    BY DEF NoHits, Hits
<1>2. TypeOK
    BY <1>1 DEF TypeOK
<1>3. UnderWay /\ Exclusive
    BY DEF UnderWay, Exclusive, Counting
<1>4. Claimed
    BY DEF Claimed, Key
<1>5. InEntry
    BY DEF InEntry, NoHits
<1>6. OneLimiterKeepsTheLimit
    BY Limiters, MarkAssumption DEF OneLimiterKeepsTheLimit, MarkAssumption
<1> QED
    BY <1>2, <1>3, <1>4, <1>5, <1>6 DEF IInv
-----------------------------------------------------------------------------
(* The steps *)

\* A request that has not begun, or is about to queue, disturbs no counter.
LEMMA ChooseStep ==
    ASSUME IInv, NEW w \in Worker, NEW k \in Key, NEW i \in Limiter,
           NEW to \in {"making", "queued"}, Goto(w, "idle", to), Choose(w, k, i),
           k \in User => i = UserLimiter /\ to = "queued",
           to = "making" => i.max \in Limit,
           UNCHANGED <<handlers, storage, locked, seen, passed, countedBy>>
    PROVE  IInv'
<1> USE DEF IInv, TypeOK, Goto, Choose
<1>1. TypeOK'
    OBVIOUS
<1>2. UnderWay'
    BY RateLimitAssumption, MarkAssumption DEF UnderWay, RateLimitAssumption, MarkAssumption
<1>3. \A v \in Worker : Counting(v)' <=> Counting(v) /\ v # w
    BY DEF Counting
<1>4. \A v \in Worker : Counting(v)' => key'[v] = key[v] /\ limiter'[v] = limiter[v]
    BY <1>3
<1>5. \A v \in Worker : Counting(v) => v # w
    BY DEF Counting
<1>6. Exclusive'
    BY <1>3, <1>4, <1>5 DEF Exclusive
<1>7. Claimed' /\ OneLimiterKeepsTheLimit'
    BY DEF Claimed, OneLimiterKeepsTheLimit
<1>8. InEntry'
    BY <1>3, <1>4, <1>5 DEF InEntry
<1> QED
    BY <1>1, <1>2, <1>6, <1>7, <1>8

LEMMA StoreStep == ASSUME IInv, NEW w \in Worker, StoreLimiter(w) PROVE IInv'
<1> USE DEF IInv, TypeOK, StoreLimiter, Goto
<1>1. limiter[w] \in Limiter /\ limiter[w].max \in Limit
    BY DEF UnderWay
<1>2. TypeOK'
    BY <1>1
<1>3. UnderWay'
    BY DEF UnderWay
<1>4. \A v \in Worker : Counting(v)' <=> Counting(v)
    BY DEF Counting
<1>5. Exclusive' /\ InEntry'
    BY <1>4 DEF Exclusive, InEntry
<1>6. Claimed' /\ OneLimiterKeepsTheLimit'
    BY DEF Claimed, OneLimiterKeepsTheLimit
<1> QED
    BY <1>2, <1>3, <1>5, <1>6

\* Whoever gets the mutex finds nobody between get and set for a key that its
\* limiter alone has counted.
LEMMA GetStep == ASSUME IInv, NEW w \in Worker, Get(w) PROVE IInv'
<1> DEFINE k == key[w]
           i == limiter[w]
<1> USE DEF IInv, TypeOK, Goto
<1>1. /\ k \in Key /\ i \in Limiter
      /\ k \in User => i = UserLimiter
    BY DEF Get, UnderWay
<1>2. /\ i \notin locked
      /\ locked' = locked \cup {i}
      /\ at[w] = "queued" /\ at' = [at EXCEPT ![w] = "counting"]
      /\ countedBy' = [countedBy EXCEPT ![k] = IF @ \in {None, i} THEN i ELSE Several]
      /\ UNCHANGED <<handlers, storage, key, limiter>>
    BY DEF Get, Claim
<1>3. \/ seen' = [seen EXCEPT ![w] = storage[k]] /\ passed' = passed
      \/ /\ seen' = [seen EXCEPT ![w] = [curr |-> 0, prev |-> storage[k].curr]]
         /\ passed' = [passed EXCEPT ![k] = 0]
    BY DEF Get
<1>4. storage[k] \in Hits /\ [curr |-> 0, prev |-> storage[k].curr] \in Hits
    BY <1>1 DEF Hits
<1>5. /\ seen' \in [Worker -> Hits]
      /\ passed' \in [Key -> Nat]
    BY <1>3, <1>4
<1>6. TypeOK'
    BY <1>1, <1>2, <1>5
<1>7. UnderWay'
    BY <1>2 DEF UnderWay
<1>8. \A v \in Worker : Counting(v)' <=> Counting(v) \/ v = w
    BY <1>2 DEF Counting
<1>9. \A v \in Worker : Counting(v) => limiter[v] # i /\ v # w
    BY <1>2 DEF Exclusive, Counting
<1>10. \A v \in Worker : Counting(v) /\ key[v] = k => countedBy[k] # None /\ countedBy[k] # i
    BY <1>1, <1>9, MarkAssumption DEF Exclusive, MarkAssumption
<1>11. Exclusive'
    <2>1. \A v \in Worker : Counting(v)' => limiter'[v] \in locked'
        BY <1>2, <1>8 DEF Exclusive
    <2>2. \A v \in Worker : Counting(v)' => countedBy'[key'[v]] \in {limiter'[v], Several}
        <3> SUFFICES ASSUME NEW v \in Worker, Counting(v)'
                     PROVE  countedBy'[key[v]] \in {limiter[v], Several}
            BY <1>2
        <3>1. CASE v = w
            BY <3>1, <1>1, <1>2
        <3>2. CASE v # w /\ key[v] = k
            BY <3>2, <1>1, <1>2, <1>8, <1>10
        <3>3. CASE v # w /\ key[v] # k
            BY <3>3, <1>1, <1>2, <1>8 DEF Exclusive
        <3> QED
            BY <3>1, <3>2, <3>3
    <2>3. \A u, v \in Worker : Counting(u)' /\ Counting(v)' /\ limiter'[u] = limiter'[v] => u = v
        BY <1>2, <1>8, <1>9 DEF Exclusive
    <2> QED
        BY <2>1, <2>2, <2>3 DEF Exclusive
<1>12. Claimed'
    <2>1. \A j \in Key : countedBy'[j] = None => passed'[j] = 0
        BY <1>1, <1>2, <1>3, MarkAssumption DEF Claimed, MarkAssumption
    <2>2. \A u \in User : countedBy'[u] \in {None, UserLimiter}
        BY <1>1, <1>2 DEF Claimed, Key
    <2> QED
        BY <2>1, <2>2 DEF Claimed
<1>13. InEntry'
    <2> SUFFICES ASSUME NEW j \in Key, countedBy'[j] # Several
                 PROVE  /\ \A v \in Worker : Counting(v)' /\ key'[v] = j => passed'[j] <= seen'[v].curr
                        /\ (\A v \in Worker : ~(Counting(v)' /\ key'[v] = j))
                              => passed'[j] <= storage'[j].curr
        BY DEF InEntry
    <2>1. CASE j # k
        <3>1. countedBy'[j] = countedBy[j] /\ passed'[j] = passed[j]
            BY <2>1, <1>2, <1>3
        <3>2. \A v \in Worker : key[v] = j => v # w /\ seen'[v] = seen[v]
            BY <2>1, <1>3
        <3> QED
            BY <2>1, <3>1, <3>2, <1>2, <1>8 DEF InEntry
    <2>2. CASE j = k
        <3>1. countedBy[k] \in {None, i}
            BY <2>2, <1>1, <1>2
        <3>2. \A v \in Worker : Counting(v)' /\ key'[v] = k => v = w
            BY <3>1, <1>2, <1>8, <1>10
        <3>3. passed[k] <= storage[k].curr
            BY <3>1, <1>1, <1>10, MarkAssumption DEF InEntry, MarkAssumption
        <3>4. passed'[k] <= seen'[w].curr
            BY <3>3, <1>1, <1>3
        <3> QED
            BY <2>2, <3>2, <3>4, <1>2, <1>8
    <2> QED
        BY <2>1, <2>2
<1>14. OneLimiterKeepsTheLimit'
    <2> SUFFICES ASSUME NEW j \in Key, NEW m \in Limiter, countedBy'[j] = m
                 PROVE  passed'[j] <= m.max
        BY DEF OneLimiterKeepsTheLimit
    <2>1. m.max \in Nat
        BY Limiters
    <2>2. CASE j # k
        BY <2>2, <1>2, <1>3 DEF OneLimiterKeepsTheLimit
    <2>3. CASE j = k /\ countedBy[k] = None
        BY <2>1, <2>3, <1>1, <1>3 DEF Claimed
    <2>4. CASE j = k /\ countedBy[k] # None
        <3>1. countedBy[k] = m
            BY <2>4, <1>1, <1>2, MarkAssumption DEF MarkAssumption
        <3>2. passed[k] <= m.max
            BY <3>1, <1>1 DEF OneLimiterKeepsTheLimit
        <3> QED
            BY <2>1, <2>4, <3>2, <1>1, <1>3
    <2> QED
        BY <2>2, <2>3, <2>4
<1> QED
    BY <1>6, <1>7, <1>11, <1>12, <1>13, <1>14

\* The entry that is written back has one hit more than was let through.
LEMMA CountStep ==
    ASSUME IInv, NEW w \in Worker, LetThrough(w) \/ Reject(w) PROVE IInv'
<1> DEFINE k == key[w]
           i == limiter[w]
<1> USE DEF IInv, TypeOK, Goto
<1>1. /\ at[w] = "counting" /\ at' = [at EXCEPT ![w] = "idle"]
      /\ storage' = [storage EXCEPT ![k] = [seen[w] EXCEPT !.curr = @ + 1]]
      /\ locked' = locked \ {i}
      /\ key' = [key EXCEPT ![w] = None]
      /\ limiter' = [limiter EXCEPT ![w] = None]
      /\ seen' = [seen EXCEPT ![w] = NoHits]
      /\ UNCHANGED <<handlers, countedBy>>
    BY DEF LetThrough, Reject, Count, Choose
<1>2. k \in Key /\ i \in Limiter
    BY <1>1 DEF UnderWay
<1>3. i.max \in Nat
    BY <1>2, Limiters
<1>4. \/ passed' = [passed EXCEPT ![k] = @ + 1] /\ seen[w].curr + 1 <= i.max
      \/ passed' = passed
    <2>1. CASE LetThrough(w)
        <3>1. PICK p \in 0..seen[w].prev : seen[w].curr + 1 + p <= i.max
            BY <2>1 DEF LetThrough
        <3>2. seen[w].curr \in Nat /\ seen[w].prev \in Nat
            BY DEF Hits
        <3> QED
            BY <2>1, <3>1, <3>2, <1>3 DEF LetThrough
    <2>2. CASE Reject(w)
        BY <2>2 DEF Reject
    <2> QED
        BY <2>1, <2>2
<1>5. NoHits \in Hits /\ [seen[w] EXCEPT !.curr = @ + 1] \in Hits
    BY DEF NoHits, Hits
<1>6. passed' \in [Key -> Nat] /\ storage' \in [Key -> Hits]
    BY <1>1, <1>2, <1>4, <1>5
<1>7. TypeOK'
    BY <1>1, <1>5, <1>6
<1>8. UnderWay'
    BY <1>1 DEF UnderWay
<1>9. \A v \in Worker : Counting(v)' <=> Counting(v) /\ v # w
    BY <1>1 DEF Counting
<1>10. \A v \in Worker : v # w => key'[v] = key[v] /\ limiter'[v] = limiter[v] /\ seen'[v] = seen[v]
    BY <1>1
<1>11. Counting(w)
    BY <1>1 DEF Counting
<1>12. Exclusive'
    <2>1. \A v \in Worker : Counting(v)' => limiter[v] # i
        BY <1>9, <1>11 DEF Exclusive
    <2>2. \A v \in Worker : Counting(v)' => limiter'[v] \in locked'
        BY <2>1, <1>1, <1>9, <1>10 DEF Exclusive
    <2>3. \A v \in Worker : Counting(v)' => countedBy'[key'[v]] \in {limiter'[v], Several}
        BY <1>1, <1>9, <1>10 DEF Exclusive
    <2>4. \A u, v \in Worker : Counting(u)' /\ Counting(v)' /\ limiter'[u] = limiter'[v] => u = v
        BY <1>9, <1>10 DEF Exclusive
    <2> QED
        BY <2>2, <2>3, <2>4 DEF Exclusive
<1>13. Claimed'
    <2>1. countedBy[k] # None
        BY <1>2, <1>11, MarkAssumption DEF Exclusive, MarkAssumption
    <2> QED
        BY <2>1, <1>1, <1>4 DEF Claimed
\* With one limiter for k, w is the only request between get and set.
<1>14. ASSUME countedBy[k] # Several
       PROVE  /\ \A v \in Worker : Counting(v)' => key'[v] # k
              /\ countedBy[k] = i
              /\ passed[k] <= seen[w].curr
    <2>1. countedBy[k] = i
        BY <1>14, <1>11 DEF Exclusive
    <2>2. \A v \in Worker : Counting(v) /\ key[v] = k => v = w
        BY <1>14, <2>1, <1>11 DEF Exclusive
    <2>3. passed[k] <= seen[w].curr
        BY <1>14, <1>2, <1>11 DEF InEntry
    <2> QED
        BY <2>1, <2>2, <2>3, <1>9, <1>10
<1>15. seen[w].curr \in Nat /\ storage'[k].curr = seen[w].curr + 1
    BY <1>1, <1>2 DEF Hits
<1>16. InEntry'
    <2> SUFFICES ASSUME NEW j \in Key, countedBy'[j] # Several
                 PROVE  /\ \A v \in Worker : Counting(v)' /\ key'[v] = j => passed'[j] <= seen'[v].curr
                        /\ (\A v \in Worker : ~(Counting(v)' /\ key'[v] = j))
                              => passed'[j] <= storage'[j].curr
        BY DEF InEntry
    <2>1. CASE j # k
        BY <2>1, <1>1, <1>4, <1>9, <1>10 DEF InEntry
    <2>2. CASE j = k
        <3>1. passed'[k] <= storage'[k].curr
            BY <2>2, <1>1, <1>2, <1>4, <1>14, <1>15
        <3> QED
            BY <2>2, <3>1, <1>1, <1>14
    <2> QED
        BY <2>1, <2>2
<1>17. OneLimiterKeepsTheLimit'
    <2> SUFFICES ASSUME NEW j \in Key, NEW m \in Limiter, countedBy'[j] = m
                 PROVE  passed'[j] <= m.max
        BY DEF OneLimiterKeepsTheLimit
    <2>1. passed[j] <= m.max
        BY <1>1 DEF OneLimiterKeepsTheLimit
    <2>2. CASE j # k
        BY <2>1, <2>2, <1>4
    <2>3. CASE j = k
        <3>1. countedBy[k] = m /\ countedBy[k] # Several
            BY <2>3, <1>1, MarkAssumption DEF MarkAssumption
        <3> QED
            BY <2>1, <2>3, <3>1, <1>2, <1>3, <1>4, <1>14, <1>15
    <2> QED
        BY <2>2, <2>3
<1> QED
    BY <1>7, <1>8, <1>12, <1>13, <1>16, <1>17

LEMMA Step == IInv /\ [Next]_rateVars => IInv'
<1> SUFFICES ASSUME IInv, [Next]_rateVars PROVE IInv'
    OBVIOUS
<1>1. ASSUME NEW w \in Worker, NEW t \in Token, NEW l \in Limit, TokenEnterHit(w, t, l)
      PROVE  IInv'
    <2>1. handlers[l] \in Limiter /\ t \in Key /\ t \notin User
        BY <1>1, RateLimitAssumption DEF IInv, TypeOK, TokenEnterHit, Key, RateLimitAssumption
    <2> QED
        BY <1>1, <2>1, ChooseStep DEF TokenEnterHit
<1>2. ASSUME NEW w \in Worker, NEW t \in Token, NEW l \in Limit, TokenEnterMiss(w, t, l)
      PROVE  IInv'
    <2>1. t \in Key /\ t \notin User
        BY RateLimitAssumption DEF Key, RateLimitAssumption
    <2> QED
        BY <1>2, <2>1, Limiters, ChooseStep DEF TokenEnterMiss
<1>3. ASSUME NEW w \in Worker, NEW u \in User, UserEnter(w, u) PROVE IInv'
    <2>1. u \in Key
        BY DEF Key
    <2> QED
        BY <1>3, <2>1, Limiters, ChooseStep DEF UserEnter
<1>4. ASSUME NEW w \in Worker, Pass(w) PROVE IInv'
    BY <1>4, StoreStep, GetStep, CountStep DEF Pass
<1>5. CASE UNCHANGED rateVars
    BY <1>5 DEF rateVars, IInv, TypeOK, UnderWay, Exclusive, Claimed, InEntry,
                OneLimiterKeepsTheLimit, Counting
<1> QED
    BY <1>1, <1>2, <1>3, <1>4, <1>5 DEF Next, Enter

LEMMA Invariance == Spec => []IInv
<1> QED
    BY Initial, Step, PTL DEF Spec
-----------------------------------------------------------------------------
(* Theorems *)

\* The variables of the limiters keep their types, and LimiterCache has every
\* limiter under its own limit.
THEOREM TypeCorrect == Spec => []TypeOK
<1>1. IInv => TypeOK
    BY DEF IInv
<1> QED
    BY <1>1, Invariance, PTL

\* The get and the set of one limiter never lose a hit: at most Max requests of
\* a key get through in a window.
THEOREM LimitKeptByOneLimiter == Spec => []OneLimiterKeepsTheLimit
<1>1. IInv => OneLimiterKeepsTheLimit
    BY DEF IInv
<1> QED
    BY <1>1, Invariance, PTL

\* Users are counted by one limiter, so user_limit holds for all of them.
THEOREM UserLimitKept == Spec => []UserLimitHolds
<1>1. IInv => UserLimitHolds
    <2> SUFFICES ASSUME IInv, NEW u \in User PROVE passed[u] <= UserLimit
        BY DEF UserLimitHolds
    <2>1. u \in Key /\ UserLimit \in Nat
        BY RateLimitAssumption DEF Key, RateLimitAssumption
    <2>2. CASE countedBy[u] = None
        BY <2>1, <2>2 DEF IInv, Claimed
    <2>3. CASE countedBy[u] = UserLimiter
        BY <2>1, <2>3, Limiters DEF IInv, OneLimiterKeepsTheLimit, UserLimiter
    <2> QED
        BY <2>2, <2>3 DEF IInv, Claimed
<1> QED
    BY <1>1, Invariance, PTL

\* A step of request w that leaves the limiters of LimiterCache alone brings
\* nobody else among those that make a limiter or go through another one.
LEMMA OthersStay ==
    ASSUME NEW w \in Worker, NEW l \in Limit, handlers'[l] = handlers[l],
           \A v \in Worker : v # w => at'[v] = at[v] /\ limiter'[v] = limiter[v]
    PROVE  /\ Making(l)' \subseteq Making(l) \cup {w}
           /\ Astray(l)' \subseteq Astray(l) \cup {w}
BY DEF Making, Astray

\* The race for a limiter in GetOrCreate only comes to its end: once LimiterCache
\* has a limiter, no request begins to make one; after the last one is stored
\* it is final, and no request comes to go through another.
THEOREM LimitersSettle == Spec => LimiterSettles
<1> DEFINE Towards(l) ==
        /\ handlers'[l] # None
        /\ Making(l)' \subseteq Making(l)
        /\ Making(l) = {} => handlers'[l] = handlers[l] /\ Astray(l)' \subseteq Astray(l)
<1>1. ASSUME IInv, Next, NEW l \in Limit, handlers[l] # None
      PROVE  Towards(l)
    <2> USE <1>1 DEF IInv, TypeOK, Goto
    <2>1. ASSUME NEW w \in Worker, NEW t \in Token, NEW m \in Limit, TokenEnterHit(w, t, m)
          PROVE  Towards(l)
        <3>0. /\ at'[w] = "queued" /\ limiter'[w] = handlers[m] /\ handlers' = handlers
              /\ handlers[m].max = m
            BY <2>1 DEF TokenEnterHit, Choose
        <3>1. w \notin Making(l)' /\ w \notin Astray(l)'
            BY <3>0 DEF Making, Astray
        <3> QED
            BY <2>1, <3>1, OthersStay DEF TokenEnterHit, Choose
    <2>2. ASSUME NEW w \in Worker, NEW t \in Token, NEW m \in Limit, TokenEnterMiss(w, t, m)
          PROVE  Towards(l)
        <3>0. limiter'[w] = [max |-> m, maker |-> w] /\ m # l
            BY <2>2 DEF TokenEnterMiss, Choose
        <3>1. w \notin Making(l)' /\ w \notin Astray(l)'
            BY <3>0 DEF Making, Astray
        <3> QED
            BY <2>2, <3>1, OthersStay DEF TokenEnterMiss, Choose
    <2>3. ASSUME NEW w \in Worker, NEW u \in User, UserEnter(w, u)
          PROVE  Towards(l)
        <3>0. at'[w] = "queued" /\ limiter'[w] = UserLimiter
            BY <2>3 DEF UserEnter, Choose
        <3>1. w \notin Making(l)' /\ w \notin Astray(l)'
            BY <3>0 DEF Making, Astray
        <3> QED
            BY <2>3, <3>1, OthersStay DEF UserEnter, Choose
    <2>4. ASSUME NEW w \in Worker, StoreLimiter(w)
          PROVE  Towards(l)
        <3>1. /\ limiter[w] \in Limiter /\ limiter[w] # None
              /\ limiter' = limiter /\ at[w] = "making"
              /\ at' = [at EXCEPT ![w] = "queued"]
            <4>1. at[w] = "making" /\ limiter' = limiter /\ at' = [at EXCEPT ![w] = "queued"]
                BY <2>4 DEF StoreLimiter
            <4>2. limiter[w] \in Limiter \cup {None} /\ limiter[w] # None
                BY <4>1 DEF UnderWay
            <4> QED
                BY <4>1, <4>2
        <3>2. Making(l)' = Making(l) \ {w}
            BY <3>1 DEF Making
        <3>3. CASE limiter[w].max = l
            BY <2>4, <3>1, <3>2, <3>3 DEF StoreLimiter, Making
        <3>4. CASE limiter[w].max # l
            <4>1. handlers'[l] = handlers[l]
                BY <2>4, <3>4 DEF StoreLimiter
            <4>2. Astray(l)' = Astray(l)
                BY <3>1, <4>1 DEF Astray
            <4> QED
                BY <3>2, <4>1, <4>2
        <3> QED
            BY <3>3, <3>4
    <2>5. ASSUME NEW w \in Worker, Get(w)
          PROVE  Towards(l)
        <3>1. Making(l)' = Making(l)
            BY <2>5 DEF Get, Making
        <3>2. handlers' = handlers /\ Astray(l)' = Astray(l)
            BY <2>5 DEF Get, Astray
        <3> QED
            BY <3>1, <3>2
    <2>6. ASSUME NEW w \in Worker, LetThrough(w) \/ Reject(w)
          PROVE  Towards(l)
        <3>0. at'[w] = "idle" /\ limiter'[w] = None
            BY <2>6 DEF LetThrough, Reject, Count, Choose
        <3>1. w \notin Making(l)' /\ w \notin Astray(l)'
            BY <3>0 DEF Making, Astray
        <3> QED
            BY <2>6, <3>1, OthersStay DEF LetThrough, Reject, Count, Choose
    <2> QED
        BY <2>1, <2>2, <2>3, <2>4, <2>5, <2>6 DEF Next, Enter, Pass
<1>2. IInv /\ [Next]_rateVars =>
        [\A l \in Limit : handlers[l] # None =>
            /\ handlers'[l] # None
            /\ Making(l)' \subseteq Making(l)
            /\ Making(l) = {} => /\ handlers'[l] = handlers[l]
                                /\ Astray(l)' \subseteq Astray(l)]_rateVars
    BY <1>1
<1> QED
    BY <1>2, Invariance, PTL DEF Spec, LimiterSettles

\* No way through a limiter leaves its mutex locked: for every locked one there
\* is a request that is about to set the entry and unlock it.
THEOREM LocksAreReleased == Spec => []LocksHaveHolders
<1>1. Init => LocksHaveHolders
    BY DEF Init, LocksHaveHolders
<1>2. IInv /\ LocksHaveHolders /\ [Next]_rateVars => LocksHaveHolders'
    <2> SUFFICES ASSUME IInv, LocksHaveHolders, [Next]_rateVars, NEW i \in locked'
                 PROVE  \E w \in Worker : at'[w] = "counting" /\ limiter'[w] = i
        BY DEF LocksHaveHolders
    <2> USE DEF IInv, TypeOK, Goto, Choose
    \* The holder is about to set the entry still if another request does a step.
    <2>0. ASSUME i \in locked, NEW w \in Worker, at[w] # "counting",
                 \A v \in Worker : v # w => at'[v] = at[v] /\ limiter'[v] = limiter[v]
          PROVE  \E v \in Worker : at'[v] = "counting" /\ limiter'[v] = i
        BY <2>0 DEF LocksHaveHolders
    <2>1. ASSUME NEW w \in Worker, NEW t \in Token, NEW l \in Limit,
                 TokenEnterHit(w, t, l) \/ TokenEnterMiss(w, t, l)
          PROVE  \E v \in Worker : at'[v] = "counting" /\ limiter'[v] = i
        BY <2>0, <2>1 DEF TokenEnterHit, TokenEnterMiss
    <2>2. ASSUME NEW w \in Worker, NEW u \in User, UserEnter(w, u)
          PROVE  \E v \in Worker : at'[v] = "counting" /\ limiter'[v] = i
        BY <2>0, <2>2 DEF UserEnter
    <2>3. ASSUME NEW w \in Worker, StoreLimiter(w)
          PROVE  \E v \in Worker : at'[v] = "counting" /\ limiter'[v] = i
        BY <2>0, <2>3 DEF StoreLimiter
    <2>4. ASSUME NEW w \in Worker, Get(w)
          PROVE  \E v \in Worker : at'[v] = "counting" /\ limiter'[v] = i
        <3>1. CASE i = limiter[w]
            BY <2>4, <3>1 DEF Get
        <3>2. CASE i # limiter[w]
            BY <2>0, <2>4, <3>2 DEF Get
        <3> QED
            BY <3>1, <3>2
    <2>5. ASSUME NEW w \in Worker, LetThrough(w) \/ Reject(w)
          PROVE  \E v \in Worker : at'[v] = "counting" /\ limiter'[v] = i
        <3>1. i \in locked /\ i # limiter[w]
            BY <2>5 DEF LetThrough, Reject, Count
        <3>2. PICK v \in Worker : at[v] = "counting" /\ limiter[v] = i
            BY <3>1 DEF LocksHaveHolders
        <3>3. v # w
            BY <3>1, <3>2
        <3> QED
            BY <2>5, <3>2, <3>3 DEF LetThrough, Reject, Count
    <2>6. CASE UNCHANGED rateVars
        BY <2>6 DEF rateVars, LocksHaveHolders
    <2> QED
        BY <2>1, <2>2, <2>3, <2>4, <2>5, <2>6 DEF Next, Enter, Pass
<1> QED
    BY <1>1, <1>2, Invariance, PTL DEF Spec
-----------------------------------------------------------------------------
(* The refinement of HitCounters by the user limiter *)

LEMMA EntryValue ==
    ASSUME NEW k
    PROVE  /\ CountingFor(k) = {} => Entry(k) = storage[k]
           /\ \A w : CountingFor(k) = {w} => Entry(k) = seen[w]
BY DEF Entry

LEMMA EntryValueNext ==
    ASSUME NEW k
    PROVE  /\ CountingFor(k)' = {} => Entry(k)' = storage'[k]
           /\ \A w : CountingFor(k)' = {w} => Entry(k)' = seen'[w]
BY DEF Entry

\* The user limiter has one mutex, so at most one request counts a user.
LEMMA OneCountsAUser ==
    ASSUME IInv, NEW u \in User
    PROVE  /\ CountingFor(u) = {} \/ \E w \in Worker : CountingFor(u) = {w}
           /\ \A w \in Worker : Counting(w) /\ key[w] = u => CountingFor(u) = {w}
<1>1. \A v, w \in Worker : Counting(v) /\ Counting(w) /\ key[v] = u /\ key[w] = u => v = w
    <2>1. \A v \in Worker : Counting(v) /\ key[v] = u => limiter[v] = UserLimiter
        BY DEF IInv, UnderWay, Counting
    <2> QED
        BY <2>1 DEF IInv, Exclusive
<1>2. \A w \in Worker : Counting(w) /\ key[w] = u => CountingFor(u) = {w}
    BY <1>1 DEF CountingFor, Counting
<1>3. CountingFor(u) = {} \/ \E w \in Worker : Counting(w) /\ key[w] = u
    BY DEF CountingFor, Counting
<1> QED
    BY <1>2, <1>3

\* What a step leaves alone of the counter of a user.
LEMMA EntryKept ==
    ASSUME IInv, NEW u \in User, CountingFor(u)' = CountingFor(u),
           storage'[u] = storage[u],
           \A w \in CountingFor(u) : seen'[w] = seen[w]
    PROVE  Entry(u)' = Entry(u)
<1>1. CASE CountingFor(u) = {}
    BY <1>1, EntryValue, EntryValueNext
<1>2. ASSUME NEW w \in Worker, CountingFor(u) = {w} PROVE Entry(u)' = Entry(u)
    <2>1. seen'[w] = seen[w]
        BY <1>2
    <2> QED
        BY <1>2, <2>1, EntryValue, EntryValueNext
<1> QED
    BY <1>1, <1>2, OneCountsAUser

\* A request that is not counting, and does not count, counts for no user.
LEMMA NoneCounts ==
    ASSUME IInv, NEW w \in Worker, at[w] # "counting", at'[w] # "counting",
           \A v \in Worker : v # w => at'[v] = at[v] /\ key'[v] = key[v],
           UNCHANGED <<storage, seen, passed>>
    PROVE  UNCHANGED UserCounters!counterVars
<1>1. \A u \in User : CountingFor(u)' = CountingFor(u)
    BY DEF CountingFor
<1>2. \A u \in User : Entry(u)' = Entry(u)
    BY <1>1, EntryKept
<1> QED
    BY <1>2 DEF UserCounters!counterVars

LEMMA GetCounts ==
    ASSUME IInv, NEW w \in Worker, NEW k, k = key[w], Get(w)
    PROVE  [UserCounters!Next]_UserCounters!counterVars
<1> USE DEF IInv, TypeOK, Goto
<1>1. /\ at[w] = "queued" /\ at' = [at EXCEPT ![w] = "counting"]
      /\ UNCHANGED <<storage, key>>
      /\ \A v \in Worker : v # w => seen'[v] = seen[v]
      /\ limiter[w] \notin locked
    BY DEF Get
<1>2. \A u \in User : u # k => CountingFor(u)' = CountingFor(u)
    BY <1>1 DEF CountingFor
<1>3. \A u \in User : u # k => Entry(u)' = Entry(u)
    <2> SUFFICES ASSUME NEW u \in User, u # k PROVE Entry(u)' = Entry(u)
        OBVIOUS
    <2>1. \A v \in CountingFor(u) : seen'[v] = seen[v]
        BY <1>1 DEF CountingFor
    <2> QED
        BY <2>1, <1>1, <1>2, EntryKept
<1>4. CASE k \notin User
    <2>1. \A u \in User : passed'[u] = passed[u]
        BY <1>4 DEF Get, Key
    <2> QED
        BY <1>3, <1>4, <2>1 DEF UserCounters!counterVars
<1>5. CASE k \in User
    <2>1. CountingFor(k) = {} /\ CountingFor(k)' = {w}
        <3>1. limiter[w] = UserLimiter
            BY <1>1, <1>5 DEF UnderWay
        <3>2. \A v \in Worker : at[v] = "counting" => key[v] # k
            BY <1>1, <1>5, <3>1 DEF UnderWay, Exclusive, Counting
        <3> QED
            BY <1>1, <3>2 DEF CountingFor
    <2>2. Entry(k) = storage[k] /\ Entry(k)' = seen'[w]
        BY <2>1, EntryValue, EntryValueNext
    <2>3. CASE seen' = [seen EXCEPT ![w] = storage[k]] /\ passed' = passed
        <3>1. Entry(k)' = Entry(k)
            BY <2>2, <2>3
        <3> QED
            BY <1>3, <2>3, <3>1 DEF UserCounters!counterVars
    <2>4. CASE /\ seen' = [seen EXCEPT ![w] = [curr |-> 0, prev |-> storage[k].curr]]
               /\ passed' = [passed EXCEPT ![k] = 0]
        <3>1. Entry(k)' = [curr |-> 0, prev |-> Entry(k).curr]
            BY <2>2, <2>4
        <3>2. \A u \in User : passed'[u] = IF u = k THEN 0 ELSE passed[u]
            BY <2>4, <1>5 DEF Key
        <3>3. UserCounters!NewWindow(k)
            BY <1>3, <1>5, <3>1, <3>2 DEF UserCounters!NewWindow
        <3> QED
            BY <1>5, <3>3 DEF UserCounters!Next
    <2> QED
        BY <2>3, <2>4 DEF Get
<1> QED
    BY <1>4, <1>5

LEMMA CountCounts ==
    ASSUME IInv, NEW w \in Worker, NEW k, k = key[w], LetThrough(w) \/ Reject(w)
    PROVE  [UserCounters!Next]_UserCounters!counterVars
<1> USE DEF IInv, TypeOK, Goto
<1>1. /\ at[w] = "counting" /\ at' = [at EXCEPT ![w] = "idle"]
      /\ storage' = [storage EXCEPT ![k] = [seen[w] EXCEPT !.curr = @ + 1]]
      /\ key' = [key EXCEPT ![w] = None]
      /\ \A v \in Worker : v # w => seen'[v] = seen[v]
    BY DEF LetThrough, Reject, Count, Choose
<1>2. k \in Key /\ Counting(w)
    BY <1>1 DEF UnderWay, Counting
<1>3. None \notin User
    BY RateLimitAssumption DEF RateLimitAssumption, Key
<1>4. \A u \in User : u # k => CountingFor(u)' = CountingFor(u)
    BY <1>1, <1>3 DEF CountingFor
<1>5. \A u \in User : u # k => Entry(u)' = Entry(u)
    <2> SUFFICES ASSUME NEW u \in User, u # k PROVE Entry(u)' = Entry(u)
        OBVIOUS
    <2>1. \A v \in CountingFor(u) : seen'[v] = seen[v]
        BY <1>1 DEF CountingFor
    <2>2. storage'[u] = storage[u]
        BY <1>1 DEF Key
    <2> QED
        BY <2>1, <2>2, <1>4, EntryKept
<1>6. CASE k \notin User
    <2>1. \A u \in User : passed'[u] = passed[u]
        BY <1>6 DEF LetThrough, Reject, Key
    <2> QED
        BY <1>5, <1>6, <2>1 DEF UserCounters!counterVars
<1>7. CASE k \in User
    <2>1. CountingFor(k) = {w}
        BY <1>2, <1>7, OneCountsAUser
    <2>2. CountingFor(k)' = {}
        BY <1>1, <1>3, <1>7, <2>1 DEF CountingFor
    <2>3. Entry(k) = seen[w] /\ Entry(k)' = storage'[k]
        BY <2>1, <2>2, EntryValue, EntryValueNext
    <2>4. Entry(k)' = [curr |-> Entry(k).curr + 1, prev |-> Entry(k).prev]
        BY <1>1, <1>2, <2>3 DEF Hits
    <2>5. UserCounters!Hit(k)
        BY <1>5, <1>7, <2>4 DEF UserCounters!Hit
    <2>6. limiter[w].max = UserLimit
        BY <1>1, <1>7 DEF UnderWay, UserLimiter
    <2>7. CASE LetThrough(w)
        <3>1. \E p \in 0..Entry(k).prev : Entry(k).curr + 1 + p <= UserLimit
            BY <2>3, <2>6, <2>7 DEF LetThrough
        <3>2. \A u \in User : passed'[u] = IF u = k THEN passed[k] + 1 ELSE passed[u]
            BY <2>7, <1>2 DEF LetThrough, Key
        <3>3. UserCounters!LetThrough(k)
            BY <1>7, <2>5, <3>1, <3>2 DEF UserCounters!LetThrough
        <3> QED
            BY <1>7, <3>3 DEF UserCounters!Next
    <2>8. CASE Reject(w)
        <3>1. \E p \in 0..Entry(k).prev : Entry(k).curr + 1 + p > UserLimit
            BY <2>3, <2>6, <2>8 DEF Reject
        <3>2. UserCounters!Refuse(k)
            BY <1>7, <2>5, <2>8, <3>1 DEF UserCounters!Refuse, Reject
        <3> QED
            BY <1>7, <3>2 DEF UserCounters!Next
    <2> QED
        BY <2>7, <2>8
<1> QED
    BY <1>6, <1>7

\* Every step of the limiters is one step of counters that count at once, or
\* none: reading an entry and writing it back in two calls to the storage makes
\* no difference to a user.
THEOREM UserLimiterIsAtomic == Spec => UsersAreCountedAtOnce
<1>1. Init => UserCounters!Init
    <2> SUFFICES ASSUME Init PROVE UserCounters!Init
        OBVIOUS
    <2>1. \A u \in User : Entry(u) = NoHits
        <3> TAKE u \in User
        <3>1. CountingFor(u) = {}
            BY DEF Init, CountingFor
        <3>2. storage[u] = NoHits
            BY DEF Init, Key
        <3> QED
            BY <3>1, <3>2, EntryValue
    <2>2. \A u \in User : passed[u] = 0
        BY DEF Init, Key
    <2> QED
        BY <2>1, <2>2 DEF UserCounters!Init, NoHits
<1>2. IInv /\ [Next]_rateVars => [UserCounters!Next]_UserCounters!counterVars
    <2> SUFFICES ASSUME IInv, [Next]_rateVars
                 PROVE  [UserCounters!Next]_UserCounters!counterVars
        OBVIOUS
    <2> USE DEF IInv, TypeOK, Goto, Choose
    <2>1. ASSUME NEW w \in Worker, NEW t \in Token, NEW l \in Limit,
                 TokenEnterHit(w, t, l) \/ TokenEnterMiss(w, t, l)
          PROVE  UNCHANGED UserCounters!counterVars
        BY <2>1, NoneCounts DEF TokenEnterHit, TokenEnterMiss
    <2>2. ASSUME NEW w \in Worker, NEW u \in User, UserEnter(w, u)
          PROVE  UNCHANGED UserCounters!counterVars
        BY <2>2, NoneCounts DEF UserEnter
    <2>3. ASSUME NEW w \in Worker, StoreLimiter(w)
          PROVE  UNCHANGED UserCounters!counterVars
        BY <2>3, NoneCounts DEF StoreLimiter
    <2>4. ASSUME NEW w \in Worker, Get(w) \/ LetThrough(w) \/ Reject(w)
          PROVE  [UserCounters!Next]_UserCounters!counterVars
        <3>1. PICK k : k = key[w]
            OBVIOUS
        <3> QED
            BY <2>4, <3>1, GetCounts, CountCounts
    <2>5. CASE UNCHANGED rateVars
        <3>1. \A u \in User : Entry(u)' = Entry(u)
            BY <2>5 DEF rateVars, Entry, CountingFor
        <3> QED
            BY <2>5, <3>1 DEF rateVars, UserCounters!counterVars
    <2> QED
        BY <2>1, <2>2, <2>3, <2>4, <2>5 DEF Next, Enter, Pass
<1> QED
    BY <1>1, <1>2, Invariance, PTL DEF Spec, UsersAreCountedAtOnce, UserCounters!Spec
=============================================================================
