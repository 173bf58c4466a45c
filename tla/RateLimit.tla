----------------------------- MODULE RateLimit -----------------------------
(***************************************************************************)
(* The rate limiters of the auth-service (middleware/rate_limit.go): one   *)
(* for each value of a per-token limit, made by the first request that     *)
(* needs it and kept in LimiterCache, and one for users, made at start-up. *)
(* All of them keep their counters in one storage, by API key or by user.  *)
(*                                                                         *)
(* The limiter is a library.  The code gives it a Max, a key and a         *)
(* fiber.Storage, which can get and set an entry but not increment one: a  *)
(* limiter reads an entry and writes it back under a mutex of its own.     *)
(* Nothing orders the steps of two limiters.  Its window slides, so that   *)
(* hits of the previous window count in part.                              *)
(*                                                                         *)
(* The workers of this module are requests with any key and any limit.     *)
(***************************************************************************)
EXTENDS Naturals, FiniteSets

CONSTANTS Worker,      \* goroutines that serve a request
          Token,       \* API keys, the counters of token limiters
          User,        \* IP and User-Agent, the counters of the user limiter
          Limit,       \* values of rate_limit, 0 apart
          UserLimit,   \* user_limit
          MaxHits,     \* bound of the model on the hits in one window
          None,
          Several      \* more than one limiter

Key == Token \cup User

ASSUME RateLimitAssumption ==
    /\ Token \cap User = {}
    /\ Limit \subseteq Nat \ {0}
    /\ UserLimit \in Nat \ {0}
    /\ MaxHits \in Nat
    /\ None \notin Worker \cup Key

\* A limiter is known by its Max and by the request that made it.
Limiter == [max : Limit, maker : Worker] \cup [max : {UserLimit}, maker : {None}]
UserLimiter == [max |-> UserLimit, maker |-> None]

ASSUME MarkAssumption == None \notin Limiter /\ Several \notin Limiter /\ Several # None

\* An entry of the storage.
Hits == [curr : Nat, prev : Nat]
NoHits == [curr |-> 0, prev |-> 0]

VARIABLES
    handlers,  \* LimiterCache.handlers; None where a limit has no limiter
    storage,   \* the counters
    locked,    \* limiters whose mutex is held
    at,        \* where each request is
    key,       \* what it is counted under
    limiter,   \* the limiter it goes through
    seen,      \* the entry it has read
    passed,    \* history: requests let through in this window
    countedBy  \* history: the limiter of a key, or Several

rateVars == <<handlers, storage, locked, at, key, limiter, seen, passed, countedBy>>

TypeOK ==
    /\ handlers \in [Limit -> Limiter \cup {None}]
    /\ \A l \in Limit : handlers[l] # None => handlers[l].max = l
    /\ storage \in [Key -> Hits]
    /\ locked \subseteq Limiter
    /\ at \in [Worker -> {"idle", "making", "queued", "counting"}]
    /\ key \in [Worker -> Key \cup {None}]
    /\ limiter \in [Worker -> Limiter \cup {None}]
    /\ seen \in [Worker -> Hits]
    /\ passed \in [Key -> Nat]
    /\ countedBy \in [Key -> Limiter \cup {None, Several}]

Init ==
    /\ handlers = [l \in Limit |-> None]
    /\ storage = [k \in Key |-> NoHits]
    /\ locked = {}
    /\ at = [w \in Worker |-> "idle"]
    /\ key = [w \in Worker |-> None]
    /\ limiter = [w \in Worker |-> None]
    /\ seen = [w \in Worker |-> NoHits]
    /\ passed = [k \in Key |-> 0]
    /\ countedBy = [k \in Key |-> None]

Goto(w, from, to) == at[w] = from /\ at' = [at EXCEPT ![w] = to]

\* Limiter i counts key k.
Claim(k, i) ==
    countedBy' = [countedBy EXCEPT ![k] = IF @ \in {None, i} THEN i ELSE Several]

\* Request w is about to be counted under k by limiter i.
Choose(w, k, i) ==
    /\ key' = [key EXCEPT ![w] = k]
    /\ limiter' = [limiter EXCEPT ![w] = i]
-----------------------------------------------------------------------------
(* Mutated forms: actions below with a bug that a change to the limiters   *)
(* might bring in.  They are not part of the specification.                *)

\* UserRateLimit makes its limiter in the handler instead of outside it.
MutUserEnter(w, u) ==
    /\ Goto(w, "idle", "queued")
    /\ key' = [key EXCEPT ![w] = u]
    /\ \E v \in Worker : limiter' = [limiter EXCEPT ![w] = [max |-> UserLimit, maker |-> v]]
    /\ UNCHANGED <<handlers, storage, locked, seen, passed, countedBy>>

\* The limiter is made and stored although there is one.
MutTokenEnterMiss(w, t, l) ==
    /\ Goto(w, "idle", "making")
    /\ Choose(w, t, [max |-> l, maker |-> w])
    /\ UNCHANGED <<handlers, storage, locked, seen, passed, countedBy>>

\* The limiter does not hold its mutex from the get to the set.
MutGet(w) ==
    /\ Goto(w, "queued", "counting")
    /\ storage[key[w]].curr < MaxHits
    /\ seen' = [seen EXCEPT ![w] = storage[key[w]]]
    /\ Claim(key[w], limiter[w])
    /\ UNCHANGED <<handlers, storage, locked, key, limiter, passed>>

\* A request that is refused keeps the mutex.
MutReject(w) ==
    /\ Goto(w, "counting", "idle")
    /\ \E p \in 0..seen[w].prev : seen[w].curr + 1 + p > limiter[w].max
    /\ UNCHANGED <<handlers, storage, locked, key, limiter, seen, passed, countedBy>>

\* The limiter is stored under a limit that is not its own.
MutStoreLimiter(w) ==
    /\ Goto(w, "making", "queued")
    /\ \E l \in Limit : handlers' = [handlers EXCEPT ![l] = limiter[w]]
    /\ UNCHANGED <<storage, locked, key, limiter, seen, passed, countedBy>>
-----------------------------------------------------------------------------
(* Choosing the limiter *)

\* GetOrCreate finds the limiter under the read lock.
TokenEnterHit(w, t, l) ==
    /\ handlers[l] # None
    /\ Goto(w, "idle", "queued")
    /\ Choose(w, t, handlers[l])
    /\ UNCHANGED <<handlers, storage, locked, seen, passed, countedBy>>

\* There is none: GetOrCreate makes one, with no lock held.
TokenEnterMiss(w, t, l) ==
    /\ handlers[l] = None
    /\ Goto(w, "idle", "making")
    /\ Choose(w, t, [max |-> l, maker |-> w])
    /\ UNCHANGED <<handlers, storage, locked, seen, passed, countedBy>>

\* It is stored, whatever is there by now, and used.
StoreLimiter(w) ==
    /\ Goto(w, "making", "queued")
    /\ handlers' = [handlers EXCEPT ![limiter[w].max] = limiter[w]]
    /\ UNCHANGED <<storage, locked, key, limiter, seen, passed, countedBy>>

UserEnter(w, u) ==
    /\ Goto(w, "idle", "queued")
    /\ Choose(w, u, UserLimiter)
    /\ UNCHANGED <<handlers, storage, locked, seen, passed, countedBy>>
-----------------------------------------------------------------------------
(* The limiter *)

\* Lock the mutex and get the entry; a new window may have begun by now.
Get(w) ==
    /\ limiter[w] \notin locked
    /\ locked' = locked \cup {limiter[w]}
    /\ Goto(w, "queued", "counting")
    /\ Claim(key[w], limiter[w])
    /\ \/ /\ storage[key[w]].curr < MaxHits
          /\ seen' = [seen EXCEPT ![w] = storage[key[w]]]
          /\ UNCHANGED passed
       \/ /\ seen' = [seen EXCEPT ![w] = [curr |-> 0, prev |-> storage[key[w]].curr]]
          /\ passed' = [passed EXCEPT ![key[w]] = 0]
    /\ UNCHANGED <<handlers, storage, key, limiter>>

\* Set the entry with one hit more and unlock.
Count(w) ==
    /\ storage' = [storage EXCEPT ![key[w]] = [seen[w] EXCEPT !.curr = @ + 1]]
    /\ locked' = locked \ {limiter[w]}
    /\ Goto(w, "counting", "idle")
    /\ Choose(w, None, None)
    /\ seen' = [seen EXCEPT ![w] = NoHits]

LetThrough(w) ==
    /\ Count(w)
    /\ \E p \in 0..seen[w].prev : seen[w].curr + 1 + p <= limiter[w].max
    /\ passed' = [passed EXCEPT ![key[w]] = @ + 1]
    /\ UNCHANGED <<handlers, countedBy>>

\* LimitReached: 429.
Reject(w) ==
    /\ Count(w)
    /\ \E p \in 0..seen[w].prev : seen[w].curr + 1 + p > limiter[w].max
    /\ UNCHANGED <<handlers, passed, countedBy>>

Enter(w) ==
    \/ \E t \in Token, l \in Limit : TokenEnterHit(w, t, l) \/ TokenEnterMiss(w, t, l)
    \/ \E u \in User : UserEnter(w, u)

Pass(w) == StoreLimiter(w) \/ Get(w) \/ LetThrough(w) \/ Reject(w)

Next == \E w \in Worker : Enter(w) \/ Pass(w)

Spec == Init /\ [][Next]_rateVars

\* Calls to the storage return, and a mutex goes to whoever waits for it.
Fairness == \A w \in Worker : WF_rateVars(Pass(w)) /\ SF_rateVars(Get(w))

FairSpec == Spec /\ Fairness
-----------------------------------------------------------------------------
(* Properties *)

\* Requests that one limiter counts do not get more through in a window than
\* its Max, however they overlap: no hit is lost between get and set.
OneLimiterKeepsTheLimit ==
    \A k \in Key, i \in Limiter : countedBy[k] = i => passed[k] <= i.max

\* Users are always counted by the one limiter made at start-up, so that
\* user_limit holds without condition.
UserLimitHolds == \A u \in User : passed[u] <= UserLimit

\* The request that is between get and set for k, if there is one.
CountingFor(k) == {w \in Worker : at[w] = "counting" /\ key[w] = k}

\* A request that has read the entry holds the count until it writes it back.
Entry(k) == IF CountingFor(k) = {} THEN storage[k] ELSE seen[CHOOSE w \in CountingFor(k) : TRUE]

UserCounters == INSTANCE HitCounters WITH
                    Client <- User,
                    Max <- UserLimit,
                    hits <- [u \in User |-> Entry(u)],
                    through <- [u \in User |-> passed[u]]

\* The user limiter counts as if it incremented an entry in one step, which its
\* storage cannot do: no hit is lost or counted twice, let through or refused,
\* and no window begins in between.
UsersAreCountedAtOnce == UserCounters!Spec

\* Whoever holds the mutex of a limiter is about to set the entry and waits for
\* no other mutex: no way through a limiter leaves it locked.
LocksHaveHolders ==
    \A i \in locked : \E w \in Worker : at[w] = "counting" /\ limiter[w] = i

\* Requests that make a limiter for l, and requests that go through another one
\* than LimiterCache has for l.
Making(l) == {w \in Worker : at[w] = "making" /\ limiter[w].max = l}
Astray(l) ==
    {w \in Worker : /\ limiter[w] \notin {None, UserLimiter, handlers[l]}
                    /\ limiter[w].max = l}

\* The race for the limiter of a limit can only come to its end.  Once there is a
\* limiter nobody begins to make another; when the last one is made it is
\* the limiter for good, and no request joins those that go through another.  So when
\* these have been answered, all requests of the limit meet at one mutex for ever.
LimiterSettles ==
    [][\A l \in Limit : handlers[l] # None =>
        /\ handlers'[l] # None
        /\ Making(l)' \subseteq Making(l)
        /\ Making(l) = {} => /\ handlers'[l] = handlers[l]
                            /\ Astray(l)' \subseteq Astray(l)]_rateVars

\* Every request gets through the limiters with an answer.
RequestsAreDecided == \A w \in Worker : at[w] # "idle" ~> at[w] = "idle"

\* "If a limit is exceeded -> 429": no more requests than the largest limit
\* applied to a key get through in a window.  It is not so: limiters that were
\* made at the same time, or for different limits of one key, do not exclude
\* each other, and one overwrites the hits the other has counted.
ExceededMeans429 ==
    \A t \in Token : passed[t] > 0 => \E l \in Limit : passed[t] <= l
=============================================================================
