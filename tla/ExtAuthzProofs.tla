---------------------------- MODULE ExtAuthzProofs ----------------------------
(***************************************************************************)
(* Theorems about ExtAuthz for any keys and entries, any number of edits   *)
(* of the table and any number of requests.                                *)
(*                                                                         *)
(* A request looks at the cache several times, so that no single look      *)
(* justifies its answer.  RequestInv says what is known after each of      *)
(* them: the table in use is among those of the request's time, and a      *)
(* request that passed the validator was authorized by one of those.       *)
(***************************************************************************)
EXTENDS ExtAuthz, TLAPS

\* A request that passed OptionalAPIKeyAuth.
Admitted(w) ==
    \/ Public(request[w]) /\ apiKey[w] = None
    \/ /\ ~Public(request[w])
       /\ apiKey[w] # None
       /\ apiKey[w] = request[w].header
       /\ \E c \in during[w] : Authorizes(c, request[w])

\* The limit under which the request was counted is one its key had.
CountedAsKey(w) ==
    /\ counted[w] \in Nat
    /\ ~Public(request[w])
    /\ \E c \in during[w] : HasLimit(c, request[w].header.token, counted[w])

Justified(w) ==
    /\ status[w] = 503 => NotLoaded \in during[w]
    /\ status[w] = 401 =>
        /\ ~Public(request[w])
        /\ \/ request[w].header = None
           \/ \E c \in during[w] : c # NotLoaded /\ ~Authorizes(c, request[w])
    /\ (status[w] \in {200, 429} /\ ~Public(request[w])) =>
        \E c \in during[w] : Authorizes(c, request[w])

Due(w) ==
    \/ counted[w] = None /\ ~(status[w] = 200 /\ Public(request[w]) /\ EnableUserLimiter)
    \/ CountedAsKey(w)
    \/ counted[w] = AsUser /\ Public(request[w])

RequestInv(w) ==
    /\ stage[w] # "idle" => request[w] \in Request
    /\ stage[w] \in {"auth", "validate", "scope", "tokenLimit", "userLimit"} => cache \in during[w]
    /\ stage[w] \in {"idle", "auth", "validate", "scope"} => apiKey[w] = None
    /\ stage[w] \in {"idle", "auth", "validate", "scope", "tokenLimit"} => counted[w] = None
    /\ stage[w] \in {"validate", "scope"} =>
        ~Public(request[w]) /\ request[w].header # None /\ cache # NotLoaded
    /\ stage[w] = "scope" => request[w].ops
    /\ stage[w] \in {"tokenLimit", "userLimit"} => Admitted(w)
    /\ stage[w] = "userLimit" => counted[w] = None \/ CountedAsKey(w)
    /\ stage[w] = "answered" => Justified(w) /\ Due(w)

Inv == TypeOK /\ \A w \in Worker : RequestInv(w)

-----------------------------------------------------------------------------
(* The token store under the requests *)

LEMMA StoreInit == Store!Init => Store!TypeOK
BY ExtAuthzAssumption DEF ExtAuthzAssumption, Store!Init, Store!TypeOK, Store!Table, Store!Tokens

LEMMA StoreEdit ==
    ASSUME Store!TypeOK, NEW t \in Token, NEW row \in Entry \cup {NoRow, BadRow}, Store!Edit(t, row)
    PROVE  Store!TypeOK' /\ cache' = cache
<1> USE ExtAuthzAssumption DEF ExtAuthzAssumption, Store!TypeOK, Store!Edit
<1>1. table' \in Store!Table
    BY DEF Store!Table
<1>2. edits' \in 0..MaxEdits /\ past' \in [0..MaxEdits -> Store!Table]
    BY <1>1
<1> QED
    BY <1>1, <1>2

LEMMA StoreLoad ==
    ASSUME Store!TypeOK, Store!LoadTokens \/ Store!LoadFails
    PROVE  Store!TypeOK' /\ cache' = cache
BY DEF Store!TypeOK, Store!LoadTokens, Store!LoadFails, Store!tokenVars

LEMMA StoreReplace ==
    ASSUME Store!TypeOK, Store!Replace
    PROVE  Store!TypeOK' /\ cache' # NotLoaded
BY DEF Store!TypeOK, Store!Replace

LEMMA StoreUnchanged ==
    ASSUME Store!TypeOK, UNCHANGED storeVars
    PROVE  Store!TypeOK'
BY DEF Store!TypeOK, storeVars
-----------------------------------------------------------------------------
(* Requests *)

\* A request is not concerned when another one takes a step.
LEMMA OtherRequest ==
    ASSUME NEW w \in Worker, RequestInv(w),
           stage'[w] = stage[w], request'[w] = request[w], apiKey'[w] = apiKey[w],
           counted'[w] = counted[w], status'[w] = status[w], during'[w] = during[w],
           cache' = cache
    PROVE  RequestInv(w)'
BY DEF RequestInv, Admitted, CountedAsKey, Justified, Due

\* What it saw of the cache is kept when the cache is replaced.
LEMMA SeesMore ==
    ASSUME NEW w \in Worker, RequestInv(w), cache' # NotLoaded,
           stage'[w] = stage[w], request'[w] = request[w], apiKey'[w] = apiKey[w],
           counted'[w] = counted[w], status'[w] = status[w],
           during'[w] = IF stage[w] \in {"idle", "answered"} THEN during[w] ELSE during[w] \cup {cache'}
    PROVE  RequestInv(w)'
<1>1. during[w] \subseteq during'[w]
    OBVIOUS
<1>2. Admitted(w) => Admitted(w)'
    BY <1>1 DEF Admitted
<1>3. CountedAsKey(w) => CountedAsKey(w)'
    BY <1>1 DEF CountedAsKey
<1>4. stage[w] = "answered" => (Justified(w) => Justified(w)') /\ (Due(w) => Due(w)')
    BY <1>3 DEF Justified, Due
<1> QED
    BY <1>2, <1>3, <1>4 DEF RequestInv

\* Entry of a key in the table.
LEMMA EntryTyped ==
    ASSUME Store!TypeOK, NEW t \in Token, Store!Validate(t)
    PROVE  cache[t] \in Entry /\ cache[t].rateLimit \in Nat
<1>1. cache \in [Token -> Entry \cup {NoRow}]
    BY DEF Store!TypeOK, Store!Validate, Store!Tokens
<1>2. cache[t] \in Entry
    BY <1>1 DEF Store!Validate
<1> QED
    BY <1>2, ExtAuthzAssumption DEF ExtAuthzAssumption

LEMMA HeaderTyped ==
    ASSUME NEW r \in Request, r.header # None
    PROVE  r.header \in Header /\ r.header.token \in Token
<1>1. r.header \in Header
    BY DEF Request
<1> QED
    BY <1>1 DEF Header

\* The limit applied to a request is the limit of its key in the cache.
LEMMA LimitIsOfTheKey ==
    ASSUME Store!TypeOK, NEW w \in Worker, request[w] \in Request, Admitted(w), LimitFor(w) # 0
    PROVE  /\ ~Public(request[w])
           /\ LimitFor(w) \in Nat
           /\ HasLimit(cache, request[w].header.token, LimitFor(w))
<1>1. apiKey[w] # None /\ LimitFor(w) = RateLimit(apiKey[w])
    BY DEF LimitFor
<1>2. ~Public(request[w]) /\ apiKey[w] = request[w].header
    BY <1>1 DEF Admitted
<1> DEFINE t == request[w].header.token
<1>3. t \in Token
    BY <1>1, <1>2, HeaderTyped
<1>4. Store!Validate(t) /\ LimitFor(w) = cache[t].rateLimit
    BY <1>1, <1>2 DEF RateLimit
<1>5. LimitFor(w) \in Nat
    BY <1>3, <1>4, EntryTyped
<1> QED
    BY <1>2, <1>4, <1>5 DEF HasLimit, Store!Validate
-----------------------------------------------------------------------------
(* One step of a request *)

RequestTypes ==
    /\ stage \in [Worker -> Stage]
    /\ request \in [Worker -> Request \cup {None}]
    /\ apiKey \in [Worker -> Header \cup {None}]
    /\ counted \in [Worker -> Nat \cup {AsUser, None}]
    /\ status \in [Worker -> Status \cup {None}]
    /\ during \in [Worker -> SUBSET (Store!Tokens \cup {NotLoaded})]

\* A step of w changes nothing of the other requests and of the store.
StepOf(w) ==
    /\ UNCHANGED storeVars
    /\ RequestTypes'
    /\ \A v \in Worker \ {w} :
        /\ stage'[v] = stage[v] /\ request'[v] = request[v] /\ apiKey'[v] = apiKey[v]
        /\ counted'[v] = counted[v] /\ status'[v] = status[v] /\ during'[v] = during[v]

LEMMA StepKeepsInv ==
    ASSUME Inv, NEW w \in Worker, StepOf(w), RequestInv(w)'
    PROVE  Inv'
<1>1. TypeOK'
    BY StoreUnchanged DEF Inv, TypeOK, StepOf, RequestTypes
<1>2. ASSUME NEW v \in Worker, v # w PROVE RequestInv(v)'
    <2>1. cache' = cache
        BY DEF StepOf, storeVars
    <2> QED
        BY <1>2, <2>1, OtherRequest DEF Inv, StepOf
<1> QED
    BY <1>1, <1>2 DEF Inv

LEMMA ReceiveInv ==
    ASSUME Inv, NEW w \in Worker, NEW r \in Request, Receive(w, r)
    PROVE  Inv'
<1> USE DEF Inv, TypeOK, Receive, Move
<1>0. cache \in Store!Tokens \cup {NotLoaded}
    BY DEF Store!TypeOK
<1>1. StepOf(w)
    BY <1>0 DEF StepOf, RequestTypes, Stage
<1>2. RequestInv(w)'
    BY DEF RequestInv, storeVars
<1> QED
    BY <1>1, <1>2, StepKeepsInv

LEMMA DoneInv ==
    ASSUME Inv, NEW w \in Worker, Done(w)
    PROVE  Inv'
<1> USE DEF Inv, TypeOK, Done, Move
<1>1. StepOf(w)
    BY DEF StepOf, RequestTypes, Stage
<1>2. RequestInv(w)'
    BY DEF RequestInv
<1> QED
    BY <1>1, <1>2, StepKeepsInv

LEMMA AuthInv ==
    ASSUME Inv, NEW w \in Worker, AllowPublic(w) \/ RejectMissingKey(w) \/ CheckReady(w)
    PROVE  Inv'
<1> USE DEF Inv, TypeOK
<1>1. CASE AllowPublic(w)
    <2>1. StepOf(w)
        BY <1>1 DEF StepOf, RequestTypes, Stage, AllowPublic, Move
    <2>2. RequestInv(w)'
        BY <1>1 DEF RequestInv, Admitted, AllowPublic, Move, storeVars
    <2> QED
        BY <2>1, <2>2, StepKeepsInv
<1>2. CASE RejectMissingKey(w)
    <2>1. StepOf(w)
        BY <1>2 DEF StepOf, RequestTypes, Stage, Status, RejectMissingKey, Answer
    <2>2. RequestInv(w)'
        BY <1>2 DEF RequestInv, Justified, Due, RejectMissingKey, Answer
    <2> QED
        BY <2>1, <2>2, StepKeepsInv
<1>3. CASE CheckReady(w) /\ cache = NotLoaded
    <2>1. StepOf(w)
        BY <1>3 DEF StepOf, RequestTypes, Stage, Status, CheckReady, Answer
    <2>2. RequestInv(w)'
        BY <1>3 DEF RequestInv, Justified, Due, CheckReady, Answer
    <2> QED
        BY <2>1, <2>2, StepKeepsInv
<1>4. CASE CheckReady(w) /\ cache # NotLoaded
    <2>1. StepOf(w)
        BY <1>4 DEF StepOf, RequestTypes, Stage, CheckReady, Move
    <2>2. RequestInv(w)'
        BY <1>4 DEF RequestInv, CheckReady, Move, storeVars
    <2> QED
        BY <2>1, <2>2, StepKeepsInv
<1> QED
    BY <1>1, <1>2, <1>3, <1>4

\* The validator authorizes by the table it looks at.
LEMMA AuthenticatedInv ==
    ASSUME Inv, NEW w \in Worker, stage[w] \in {"validate", "scope"},
           Authorizes(cache, request[w]), Authenticated(w),
           UNCHANGED <<storeVars, request, counted, during>>
    PROVE  Inv'
<1> USE DEF Inv, TypeOK, Authenticated
<1>1. request[w] \in Request /\ request[w].header # None
    BY DEF RequestInv
<1>2. request[w].header \in Header
    BY <1>1, HeaderTyped
<1>3. StepOf(w)
    BY <1>2 DEF StepOf, RequestTypes, Stage
<1>4. RequestInv(w)'
    <2>1. Admitted(w)'
        BY <1>1 DEF RequestInv, Admitted
    <2> QED
        BY <2>1 DEF RequestInv, storeVars
<1> QED
    BY <1>3, <1>4, StepKeepsInv

\* The validator refuses by the table it looks at.
LEMMA RefusedInv ==
    ASSUME Inv, NEW w \in Worker, stage[w] \in {"validate", "scope"},
           ~Authorizes(cache, request[w]), Answer(w, 401),
           UNCHANGED <<storeVars, request, apiKey, counted, during>>
    PROVE  Inv'
<1> USE DEF Inv, TypeOK, Answer
<1>1. StepOf(w)
    BY DEF StepOf, RequestTypes, Stage, Status
<1>2. RequestInv(w)'
    BY DEF RequestInv, Justified, Due
<1> QED
    BY <1>1, <1>2, StepKeepsInv

LEMMA CheckKeyInv ==
    ASSUME Inv, NEW w \in Worker, CheckKey(w)
    PROVE  Inv'
<1> DEFINE t == request[w].header.token
<1>1. CASE ~Store!Validate(t)
    BY <1>1, RefusedInv DEF CheckKey, TrimSpace, Authorizes, Store!Validate
<1>2. CASE Store!Validate(t) /\ ~request[w].ops
    BY <1>2, AuthenticatedInv DEF CheckKey, TrimSpace, Authorizes, Store!Validate
<1>3. CASE Store!Validate(t) /\ request[w].ops
    <2> USE DEF Inv, TypeOK
    <2>1. StepOf(w)
        BY <1>3 DEF StepOf, RequestTypes, Stage, CheckKey, TrimSpace, Move
    <2>2. RequestInv(w)'
        BY <1>3 DEF RequestInv, CheckKey, TrimSpace, Move, storeVars
    <2> QED
        BY <2>1, <2>2, StepKeepsInv
<1> QED
    BY <1>1, <1>2, <1>3

LEMMA CheckScopeInv ==
    ASSUME Inv, NEW w \in Worker, CheckScope(w)
    PROVE  Inv'
<1> DEFINE t == request[w].header.token
<1>1. CASE HasOpsScope(t)
    BY <1>1, AuthenticatedInv DEF CheckScope, TrimSpace, HasOpsScope, Authorizes, Store!Validate
<1>2. CASE ~HasOpsScope(t)
    <2>1. request[w].ops
        BY DEF Inv, RequestInv, CheckScope
    <2> QED
        BY <1>2, <2>1, RefusedInv DEF CheckScope, TrimSpace, HasOpsScope, Authorizes, Store!Validate
<1> QED
    BY <1>1, <1>2

LEMMA TokenLimiterInv ==
    ASSUME Inv, NEW w \in Worker, SkipTokenLimiter(w) \/ CountToken(w)
    PROVE  Inv'
<1> USE DEF Inv, TypeOK
<1>1. CASE SkipTokenLimiter(w)
    <2>1. StepOf(w)
        BY <1>1 DEF StepOf, RequestTypes, Stage, SkipTokenLimiter, Move
    <2>2. RequestInv(w)'
        BY <1>1 DEF RequestInv, Admitted, SkipTokenLimiter, Move, storeVars
    <2> QED
        BY <2>1, <2>2, StepKeepsInv
<1>2. CASE CountToken(w)
    <2>1. request[w] \in Request /\ Admitted(w) /\ cache \in during[w] /\ stage[w] = "tokenLimit"
        BY <1>2 DEF RequestInv, CountToken
    <2> DEFINE n == LimitFor(w)
    <2>2. /\ ~Public(request[w])
          /\ n \in Nat
          /\ HasLimit(cache, request[w].header.token, n)
        BY <1>2, <2>1, LimitIsOfTheKey DEF CountToken
    <2>3. /\ counted' = [counted EXCEPT ![w] = n]
          /\ UNCHANGED <<storeVars, request, apiKey, during>>
          /\ \/ stage' = [stage EXCEPT ![w] = "userLimit"] /\ UNCHANGED status
             \/ stage' = [stage EXCEPT ![w] = "answered"] /\ status' = [status EXCEPT ![w] = 429]
        BY <1>2 DEF CountToken, Move, Answer
    <2> HIDE DEF n
    <2>4. StepOf(w)
        BY <2>2, <2>3 DEF StepOf, RequestTypes, Stage, Status
    <2>5. CountedAsKey(w)'
        BY <2>1, <2>2, <2>3 DEF CountedAsKey
    <2>6. RequestInv(w)'
        <3>1. CASE stage' = [stage EXCEPT ![w] = "userLimit"]
            <4>1. Admitted(w)'
                BY <2>1, <2>3 DEF Admitted
            <4> QED
                BY <2>1, <2>3, <2>5, <3>1, <4>1 DEF RequestInv, storeVars
        <3>2. CASE stage' = [stage EXCEPT ![w] = "answered"] /\ status' = [status EXCEPT ![w] = 429]
            <4>1. \E c \in during[w] : Authorizes(c, request[w])
                BY <2>1, <2>2 DEF Admitted
            <4> QED
                BY <2>1, <2>2, <2>3, <2>5, <3>2, <4>1 DEF RequestInv, Justified, Due
        <3> QED
            BY <2>3, <3>1, <3>2
    <2> QED
        BY <2>4, <2>6, StepKeepsInv
<1> QED
    BY <1>1, <1>2

LEMMA UserLimiterInv ==
    ASSUME Inv, NEW w \in Worker, Allow(w) \/ CountUser(w)
    PROVE  Inv'
<1> USE DEF Inv, TypeOK
<1>1. stage[w] = "userLimit" /\ Admitted(w) /\ (counted[w] = None \/ CountedAsKey(w))
    BY DEF RequestInv, Allow, CountUser
<1>2. CASE Allow(w)
    <2>1. StepOf(w)
        BY <1>2 DEF StepOf, RequestTypes, Stage, Status, Allow, Answer
    <2>2. Justified(w)'
        BY <1>1, <1>2 DEF Justified, Admitted, Allow, Answer
    <2>3. Due(w)'
        BY <1>1, <1>2 DEF Due, CountedAsKey, Admitted, Allow, Answer
    <2> QED
        BY <1>2, <2>1, <2>2, <2>3, StepKeepsInv DEF RequestInv, Allow, Answer
<1>3. CASE CountUser(w)
    <2>1. Public(request[w])
        BY <1>1, <1>3 DEF Admitted, CountUser
    <2>2. StepOf(w)
        BY <1>3 DEF StepOf, RequestTypes, Stage, Status, CountUser, Answer
    <2>3. Justified(w)' /\ Due(w)'
        BY <1>3, <2>1 DEF Justified, Due, CountUser, Answer
    <2> QED
        BY <1>3, <2>2, <2>3, StepKeepsInv DEF RequestInv, CountUser, Answer
<1> QED
    BY <1>2, <1>3

\* The token store moves on under the requests.
LEMMA StoreInv ==
    ASSUME Inv, ChangeTable \/ Load \/ LoadFails \/ Reload
    PROVE  Inv'
<1>1. CASE ChangeTable \/ Load \/ LoadFails
    <2>1. Store!TypeOK' /\ cache' = cache /\ UNCHANGED requestVars
        BY <1>1, StoreEdit, StoreLoad DEF Inv, TypeOK, ChangeTable, Load, LoadFails
    <2>2. TypeOK'
        BY <2>1 DEF Inv, TypeOK, requestVars
    <2>3. ASSUME NEW w \in Worker PROVE RequestInv(w)'
        BY <2>1, OtherRequest DEF Inv, requestVars
    <2> QED
        BY <2>2, <2>3 DEF Inv
<1>2. CASE Reload
    <2>1. Store!TypeOK' /\ cache' # NotLoaded
        BY <1>2, StoreReplace DEF Inv, TypeOK, Reload
    <2>2. TypeOK'
        <3>1. cache' \in Store!Tokens \cup {NotLoaded}
            BY <2>1 DEF Store!TypeOK
        <3> QED
            BY <1>2, <2>1, <3>1 DEF Inv, TypeOK, Reload
    <2>3. ASSUME NEW w \in Worker PROVE RequestInv(w)'
        BY <1>2, <2>1, SeesMore DEF Inv, Reload
    <2> QED
        BY <2>2, <2>3 DEF Inv
<1> QED
    BY <1>1, <1>2
-----------------------------------------------------------------------------
(* The invariant and the theorems *)

LEMMA InitInv == Init => Inv
BY StoreInit DEF Init, Inv, TypeOK, RequestInv, Stage

LEMMA NextInv == Inv /\ [Next]_vars => Inv'
<1> SUFFICES ASSUME Inv, [Next]_vars PROVE Inv'
    OBVIOUS
<1>1. ASSUME NEW w \in Worker, Handle(w) PROVE Inv'
    BY <1>1, AuthInv, CheckKeyInv, CheckScopeInv, TokenLimiterInv, UserLimiterInv, DoneInv DEF Handle
<1>2. ASSUME NEW w \in Worker, NEW r \in Request, Receive(w, r) PROVE Inv'
    BY <1>2, ReceiveInv
<1>3. CASE ChangeTable \/ Load \/ LoadFails \/ Reload
    BY <1>3, StoreInv
<1>4. CASE UNCHANGED vars
    <2>1. Store!TypeOK'
        BY <1>4, StoreUnchanged DEF Inv, TypeOK, vars
    <2>2. TypeOK'
        BY <1>4, <2>1 DEF Inv, TypeOK, vars, requestVars
    <2>3. ASSUME NEW w \in Worker PROVE RequestInv(w)'
        BY <1>4, OtherRequest DEF Inv, vars, requestVars, storeVars
    <2> QED
        BY <2>2, <2>3 DEF Inv
<1> QED
    BY <1>1, <1>2, <1>3, <1>4 DEF Next

LEMMA Invariance == Spec => []Inv
BY InitInv, NextInv, PTL DEF Spec

\* Every variable of the service and of the requests keeps its type.
THEOREM TypeCorrect == Spec => []TypeOK
<1>1. Inv => TypeOK
    BY DEF Inv
<1> QED
    BY <1>1, Invariance, PTL

\* Every 401, 429, 503 and 200 is what a single look at one of the tables in
\* use during the request would have answered (OptionalAPIKeyAuth), however many
\* reloads come between the looks that the middlewares take.
THEOREM AnswersAreJustified == Spec => []AnswerIsJustified
<1>1. Inv => AnswerIsJustified
    BY DEF Inv, RequestInv, Justified, AnswerIsJustified
<1> QED
    BY <1>1, Invariance, PTL

\* TokenRateLimit counts a request under a limit its key had at the time, and
\* UserRateLimit counts all public requests and no others.
THEOREM RequestsAreCountedAsDue == Spec => []CountedAsDue
<1>1. ASSUME Inv PROVE CountedAsDue
    <2> SUFFICES ASSUME NEW w \in Worker, stage[w] = "answered"
                 PROVE  /\ counted[w] = AsUser => Public(request[w])
                        /\ counted[w] \in Nat =>
                            \E c \in during[w] : HasLimit(c, request[w].header.token, counted[w])
                        /\ (status[w] = 200 /\ Public(request[w]) /\ EnableUserLimiter)
                            => counted[w] = AsUser
        BY DEF CountedAsDue
    <2>1. Due(w)
        BY <1>1 DEF Inv, RequestInv
    <2>2. AsUser # None /\ AsUser \notin Nat /\ None \notin Nat
        BY ExtAuthzAssumption DEF ExtAuthzAssumption
    <2> QED
        BY <2>1, <2>2 DEF Due, CountedAsKey
<1> QED
    BY <1>1, Invariance, PTL
-----------------------------------------------------------------------------
(* Which requests with a key go uncounted.  Past the token limiter the reason  *)
(* is among the tables the request has seen, and stays there; before it, a     *)
(* request with a key finds a table in the cache, as it was admitted by one.   *)

HasReason(w) ==
    (apiKey[w] # None /\ EnableTokenRateLimiter /\ counted[w] = None) =>
        \/ apiKey[w].padded
        \/ \E c \in during[w] : HasLimit(c, apiKey[w].token, 0)
        \/ RevokedMeanwhile(w)

ReasonInv(w) ==
    /\ stage[w] # "answered" => status[w] = None
    /\ (stage[w] = "tokenLimit" /\ apiKey[w] # None) => cache # NotLoaded
    /\ stage[w] = "userLimit" => HasReason(w)
    /\ (stage[w] = "answered" /\ status[w] = 200) => HasReason(w)

\* What was a reason once remains one.
LEMMA ReasonKept ==
    ASSUME NEW w \in Worker, HasReason(w), request'[w] = request[w],
           apiKey'[w] = apiKey[w], counted'[w] = counted[w], during[w] \subseteq during'[w]
    PROVE  HasReason(w)'
<1>1. RevokedMeanwhile(w) => RevokedMeanwhile(w)'
    BY DEF RevokedMeanwhile
<1> QED
    BY <1>1 DEF HasReason

LEMMA OtherReason ==
    ASSUME NEW w \in Worker, ReasonInv(w), cache' = cache \/ cache' # NotLoaded,
           stage'[w] = stage[w], request'[w] = request[w], apiKey'[w] = apiKey[w],
           counted'[w] = counted[w], status'[w] = status[w], during[w] \subseteq during'[w]
    PROVE  ReasonInv(w)'
BY ReasonKept DEF ReasonInv

\* The limit 0 of a key that was authorized: it has white space around it, or
\* the limit 0, or was revoked after it was authorized.
LEMMA NoLimitHasReason ==
    ASSUME Inv, NEW w \in Worker, stage[w] = "tokenLimit", ReasonInv(w), LimitFor(w) = 0
    PROVE  HasReason(w)
<1> SUFFICES ASSUME apiKey[w] # None, EnableTokenRateLimiter, ~apiKey[w].padded
             PROVE  \/ \E c \in during[w] : HasLimit(c, apiKey[w].token, 0)
                    \/ RevokedMeanwhile(w)
    BY DEF HasReason
<1>1. Admitted(w) /\ cache \in during[w] /\ cache # NotLoaded
    BY DEF Inv, RequestInv, ReasonInv
<1>2. RateLimit(apiKey[w]) = 0
    BY DEF LimitFor
<1>3. CASE Store!Validate(apiKey[w].token)
    <2>1. HasLimit(cache, apiKey[w].token, 0)
        BY <1>2, <1>3 DEF RateLimit, HasLimit, Store!Validate
    <2> QED
        BY <1>1, <2>1
<1>4. CASE ~Store!Validate(apiKey[w].token)
    <2>1. cache[apiKey[w].token] = NoRow
        BY <1>1, <1>4 DEF Store!Validate
    <2>2. \E b \in during[w] : Authorizes(b, request[w])
        BY <1>1 DEF Admitted
    <2> QED
        BY <1>1, <2>1, <2>2 DEF RevokedMeanwhile
<1> QED
    BY <1>3, <1>4

LEMMA HandleReason ==
    ASSUME Inv, NEW w \in Worker, ReasonInv(w), Handle(w)
    PROVE  ReasonInv(w)'
<1> USE DEF ReasonInv
<1>0. None # 200
    BY ExtAuthzAssumption DEF ExtAuthzAssumption
<1>1. TypeOK /\ RequestInv(w)
    BY DEF Inv
<1>2. CASE AllowPublic(w)
    BY <1>1, <1>2 DEF TypeOK, RequestInv, AllowPublic, Move
<1>3. CASE RejectMissingKey(w)
    BY <1>0, <1>1, <1>3 DEF TypeOK, RejectMissingKey, Answer
<1>4. CASE CheckReady(w)
    BY <1>0, <1>1, <1>4 DEF TypeOK, CheckReady, Answer, Move
<1>5. CASE CheckKey(w)
    <2>1. cache' = cache /\ cache # NotLoaded
        BY <1>1, <1>5 DEF RequestInv, CheckKey, storeVars
    <2> QED
        BY <1>0, <1>1, <1>5, <2>1 DEF TypeOK, CheckKey, Answer, Move, Authenticated
<1>6. CASE CheckScope(w)
    <2>1. cache' = cache /\ cache # NotLoaded
        BY <1>1, <1>6 DEF RequestInv, CheckScope, storeVars
    <2> QED
        BY <1>0, <1>1, <1>6, <2>1 DEF TypeOK, CheckScope, Answer, Authenticated
<1>7. CASE SkipTokenLimiter(w)
    <2>1. HasReason(w)
        BY <1>7, NoLimitHasReason DEF SkipTokenLimiter, Move
    <2>2. HasReason(w)'
        BY <1>7, <2>1, ReasonKept DEF SkipTokenLimiter
    <2> QED
        BY <1>1, <1>7, <2>2 DEF TypeOK, SkipTokenLimiter, Move
<1>8. CASE CountToken(w)
    <2>1. LimitFor(w) # None
        BY <1>1, <1>8, LimitIsOfTheKey, ExtAuthzAssumption
           DEF ExtAuthzAssumption, TypeOK, RequestInv, CountToken
    <2>2. counted'[w] # None
        BY <1>1, <1>8, <2>1 DEF TypeOK, CountToken
    <2>3. HasReason(w)'
        BY <2>2 DEF HasReason
    <2> QED
        BY <1>1, <1>8, <2>3 DEF TypeOK, CountToken, Answer, Move
<1>9. CASE Allow(w)
    <2>1. HasReason(w)'
        BY <1>9, ReasonKept DEF Allow
    <2> QED
        BY <1>1, <1>9, <2>1 DEF TypeOK, Allow, Answer
<1>10. CASE CountUser(w)
    <2>1. HasReason(w)'
        BY <1>10 DEF HasReason, CountUser
    <2> QED
        BY <1>1, <1>10, <2>1 DEF TypeOK, CountUser, Answer
<1>11. CASE Done(w)
    BY <1>1, <1>11 DEF TypeOK, Done, Move
<1> QED
    BY <1>2, <1>3, <1>4, <1>5, <1>6, <1>7, <1>8, <1>9, <1>10, <1>11 DEF Handle

LEMMA InitReason == Init => \A w \in Worker : ReasonInv(w)
BY DEF Init, ReasonInv

LEMMA NextReason ==
    ASSUME Inv, \A w \in Worker : ReasonInv(w), [Next]_vars
    PROVE  \A w \in Worker : ReasonInv(w)'
<1> SUFFICES ASSUME NEW w \in Worker PROVE ReasonInv(w)'
    OBVIOUS
<1>1. TypeOK /\ ReasonInv(w)
    BY DEF Inv
<1>2. ASSUME NEW v \in Worker, v # w, Handle(v) PROVE ReasonInv(w)'
    <2>1. cache' = cache
        BY <1>2 DEF Handle, AllowPublic, RejectMissingKey, CheckReady, CheckKey, CheckScope,
               SkipTokenLimiter, CountToken, Allow, CountUser, Done, storeVars
    <2>2. /\ stage'[w] = stage[w] /\ request'[w] = request[w] /\ apiKey'[w] = apiKey[w]
          /\ counted'[w] = counted[w] /\ status'[w] = status[w] /\ during'[w] = during[w]
        BY <1>1, <1>2 DEF TypeOK, Handle, AllowPublic, RejectMissingKey, CheckReady, CheckKey,
               CheckScope, SkipTokenLimiter, CountToken, Allow, CountUser, Done,
               Move, Answer, Authenticated
    <2> QED
        BY <1>1, <2>1, <2>2, OtherReason
<1>3. ASSUME NEW v \in Worker, v # w, NEW r \in Request, Receive(v, r) PROVE ReasonInv(w)'
    <2>1. /\ cache' = cache
          /\ stage'[w] = stage[w] /\ request'[w] = request[w] /\ apiKey'[w] = apiKey[w]
          /\ counted'[w] = counted[w] /\ status'[w] = status[w] /\ during'[w] = during[w]
        BY <1>1, <1>3 DEF TypeOK, Receive, Move, storeVars
    <2> QED
        BY <1>1, <2>1, OtherReason
<1>4. ASSUME NEW r \in Request, Receive(w, r) PROVE ReasonInv(w)'
    BY <1>1, <1>4 DEF TypeOK, Receive, Move, ReasonInv
<1>5. CASE ChangeTable \/ Load \/ LoadFails
    <2>1. cache' = cache
        BY <1>1, <1>5, StoreEdit, StoreLoad DEF TypeOK, ChangeTable, Load, LoadFails
    <2> QED
        BY <1>1, <1>5, <2>1, OtherReason DEF ChangeTable, Load, LoadFails, requestVars
<1>6. CASE Reload
    <2>1. cache' # NotLoaded
        BY <1>1, <1>6, StoreReplace DEF TypeOK, Reload
    <2>2. during[w] \subseteq during'[w]
        BY <1>6 DEF Reload
    <2> QED
        BY <1>1, <1>6, <2>1, <2>2, OtherReason DEF Reload
<1>7. CASE UNCHANGED vars
    BY <1>1, <1>7, OtherReason DEF vars, requestVars, storeVars
<1> QED
    BY <1>1, <1>2, <1>3, <1>4, <1>5, <1>6, <1>7, HandleReason DEF Next

\* How far TokenRateLimit can be relied on, for any number of keys, requests and
\* reloads: a request with a key that is let through uncounted came with white
\* space around its key, or some table of its time gives the key the limit 0, or
\* one table of its time authorized the key and another did not have it.
THEOREM UncountedHaveReason == Spec => []UncountedForAReason
<1>1. Inv /\ (\A w \in Worker : ReasonInv(w)) => UncountedForAReason
    <2> SUFFICES ASSUME NEW w \in Worker, ReasonInv(w), status[w] = 200
                 PROVE  HasReason(w)
        BY DEF UncountedForAReason, HasReason
    <2>1. stage[w] = "answered"
        BY ExtAuthzAssumption DEF ExtAuthzAssumption, ReasonInv
    <2> QED
        BY <2>1 DEF ReasonInv
<1>2. Inv /\ (\A w \in Worker : ReasonInv(w)) /\ [Next]_vars => (\A w \in Worker : ReasonInv(w))'
    BY NextReason
<1> QED
    BY <1>1, <1>2, InitReason, Invariance, PTL DEF Spec
-----------------------------------------------------------------------------
(* The token store of the service is the one of TokenReload, so that what was  *)
(* proved about that one holds here; and the tables that requests see are      *)
(* versions of the table in Postgres.                                          *)

StoreFacts == INSTANCE TokenReloadProofs

\* Requests read the cache and leave the store alone.
LEMMA RequestsOnlyRead ==
    ASSUME NEW w \in Worker, Handle(w) \/ \E r \in Request : Receive(w, r)
    PROVE  UNCHANGED storeVars
<1>1. CASE \E r \in Request : Receive(w, r)
    BY <1>1 DEF Receive, storeVars
<1>2. CASE Handle(w)
    BY <1>2 DEF Handle, AllowPublic, RejectMissingKey, CheckReady, CheckKey, CheckScope,
           SkipTokenLimiter, CountToken, Allow, CountUser, Done, storeVars
<1> QED
    BY <1>1, <1>2

\* The refinement of TokenReload: however many requests are under way, the
\* Reloader, the table and the cache go on as if there were none.
THEOREM StoreIsTokenReload == Spec => StoreFacts!Spec
<1>1. Init => StoreFacts!Init
    BY DEF Init, Store!Init, StoreFacts!Init, Store!Table, StoreFacts!Table
<1>2. [Next]_vars => [StoreFacts!Next]_(StoreFacts!tokenVars)
    <2> SUFFICES ASSUME [Next]_vars PROVE StoreFacts!Next \/ UNCHANGED storeVars
        BY DEF storeVars, StoreFacts!tokenVars
    <2>1. ASSUME NEW w \in Worker, Handle(w) \/ \E r \in Request : Receive(w, r)
          PROVE  UNCHANGED storeVars
        BY <2>1, RequestsOnlyRead
    <2>2. ChangeTable => StoreFacts!Next
        BY DEF ChangeTable, Store!Edit, StoreFacts!Edit, StoreFacts!Next
    <2>3. Load => StoreFacts!Next
        BY DEF Load, Store!LoadTokens, StoreFacts!LoadTokens, StoreFacts!Next,
               Store!Tokens, StoreFacts!Tokens
    <2>4. LoadFails => StoreFacts!Next
        BY DEF LoadFails, Store!LoadFails, StoreFacts!LoadFails, StoreFacts!Next,
               Store!tokenVars, StoreFacts!tokenVars
    <2>5. Reload => StoreFacts!Next
        BY DEF Reload, Store!Replace, StoreFacts!Replace, StoreFacts!Next
    <2>6. UNCHANGED vars => UNCHANGED storeVars
        BY DEF vars
    <2> QED
        BY <2>1, <2>2, <2>3, <2>4, <2>5, <2>6 DEF Next
<1> QED
    BY <1>1, <1>2, PTL DEF Spec, StoreFacts!Spec

\* What TokenReloadProofs knows of the store.
LEMMA StoreInvariance == Spec => []StoreFacts!IInv
BY StoreIsTokenReload, StoreFacts!Invariance, ExtAuthzAssumption
   DEF ExtAuthzAssumption

\* The table that is in use, once there is one, is a version of the table in
\* Postgres.
LEMMA InUse ==
    ASSUME StoreFacts!IInv
    PROVE  /\ edits \in Nat /\ past \in [0..MaxEdits -> Store!Table] /\ edits <= MaxEdits
           /\ cache = NotLoaded \/ \E v \in 0..edits : cache = past[v]
<1> USE ExtAuthzAssumption DEF ExtAuthzAssumption
<1>1. StoreFacts!TypeOK /\ StoreFacts!LoadInv /\ StoreFacts!CacheIsSnapshot
    BY DEF StoreFacts!IInv
<1>2. edits \in 0..MaxEdits /\ cacheAt \in 0..MaxEdits /\ loadedAt \in 0..MaxEdits
    BY <1>1 DEF StoreFacts!TypeOK
<1>3. past \in [0..MaxEdits -> Store!Table]
    BY <1>1 DEF StoreFacts!TypeOK, Store!Table, StoreFacts!Table
<1>4. cacheAt \in 0..edits
    BY <1>1, <1>2 DEF StoreFacts!LoadInv
<1> QED
    BY <1>1, <1>2, <1>3, <1>4 DEF StoreFacts!CacheIsSnapshot

LEMMA InUsePrimed ==
    ASSUME StoreFacts!IInv'
    PROVE  cache' = NotLoaded \/ \E v \in 0..edits' : cache' = past'[v]
<1>1. cache' # NotLoaded => cache' = past'[cacheAt']
    BY DEF StoreFacts!IInv, StoreFacts!CacheIsSnapshot
<1>2. cacheAt' \in 0..edits'
    BY ExtAuthzAssumption
       DEF ExtAuthzAssumption, StoreFacts!IInv, StoreFacts!TypeOK, StoreFacts!LoadInv
<1> QED
    BY <1>1, <1>2

\* All that a request has seen are versions of the table.
SeenInv(w) ==
    \A c \in during[w] : c = NotLoaded \/ \E v \in 0..edits : c = past[v]

LEMMA NextSeen ==
    ASSUME Inv, StoreFacts!IInv, StoreFacts!IInv', \A w \in Worker : SeenInv(w), [Next]_vars
    PROVE  \A w \in Worker : SeenInv(w)'
<1> SUFFICES ASSUME NEW w \in Worker PROVE SeenInv(w)'
    OBVIOUS
<1>1. TypeOK /\ SeenInv(w) /\ edits \in Nat /\ edits <= MaxEdits /\ MaxEdits \in Nat
    BY InUse, ExtAuthzAssumption DEF Inv, ExtAuthzAssumption
<1>2. cache = NotLoaded \/ \E v \in 0..edits : cache = past[v]
    BY InUse
<1>3. ASSUME NEW v \in Worker, Handle(v) \/ \E r \in Request : Receive(v, r)
      PROVE  SeenInv(w)'
    <2>1. UNCHANGED <<edits, past>>
        BY <1>3, RequestsOnlyRead DEF storeVars
    <2>2. during'[w] \subseteq during[w] \cup {cache}
        <3>1. CASE \E r \in Request : Receive(v, r)
            BY <1>1, <3>1 DEF TypeOK, Receive
        <3>2. CASE Done(v)
            BY <1>1, <3>2 DEF TypeOK, Done
        <3>3. CASE Handle(v) /\ ~Done(v)
            BY <3>3 DEF Handle, AllowPublic, RejectMissingKey, CheckReady, CheckKey, CheckScope,
                   SkipTokenLimiter, CountToken, Allow, CountUser
        <3> QED
            BY <1>3, <3>1, <3>2, <3>3
    <2> QED
        BY <1>1, <1>2, <2>1, <2>2 DEF SeenInv
<1>4. CASE ChangeTable
    <2>1. /\ edits' = edits + 1
          /\ \A v \in 0..edits : past'[v] = past[v]
          /\ UNCHANGED during
        BY <1>1, <1>4, InUse DEF ChangeTable, Store!Edit, requestVars
    <2> QED
        BY <1>1, <2>1 DEF SeenInv
<1>5. CASE Load \/ LoadFails
    BY <1>1, <1>5 DEF Load, LoadFails, Store!LoadTokens, Store!LoadFails, Store!tokenVars,
           requestVars, SeenInv
<1>6. CASE Reload
    <2>1. UNCHANGED <<edits, past>> /\ during'[w] \subseteq during[w] \cup {cache'}
        BY <1>6 DEF Reload, Store!Replace
    <2>2. cache' = NotLoaded \/ \E v \in 0..edits' : cache' = past'[v]
        BY <1>6, InUsePrimed
    <2> QED
        BY <1>1, <2>1, <2>2 DEF SeenInv
<1>7. CASE UNCHANGED vars
    BY <1>1, <1>7 DEF vars, storeVars, requestVars, SeenInv
<1> QED
    BY <1>3, <1>4, <1>5, <1>6, <1>7 DEF Next

\* End to end from Postgres to the gateway: a request is let in, and a key
\* refused, on the strength of a version of the table that was read as a whole,
\* for any number of edits, reloads and requests.
THEOREM AnswersAreFromTheTable == Spec => []AnswersComeFromTheTable
<1>1. ASSUME Inv, \A w \in Worker : SeenInv(w) PROVE AnswersComeFromTheTable
    <2> SUFFICES ASSUME NEW w \in Worker, stage[w] = "answered",
                        ~Public(request[w]), request[w].header # None
                 PROVE  LET versions == {v \in 0..edits : past[v] \in Store!Tokens}
                        IN  /\ status[w] \in {200, 429} =>
                                \E v \in versions : Authorizes(past[v], request[w])
                            /\ status[w] = 401 =>
                                \E v \in versions : ~Authorizes(past[v], request[w])
        BY DEF AnswersComeFromTheTable
    <2>1. Justified(w) /\ SeenInv(w)
        BY <1>1 DEF Inv, RequestInv
    <2>2. ASSUME NEW c \in during[w], c # NotLoaded
          PROVE  \E v \in 0..edits : past[v] \in Store!Tokens /\ c = past[v]
        <3>1. c \in Store!Tokens
            BY <1>1, <2>2 DEF Inv, TypeOK
        <3> QED
            BY <2>1, <2>2, <3>1 DEF SeenInv
    <2>3. ASSUME status[w] \in {200, 429}
          PROVE  \E v \in 0..edits : past[v] \in Store!Tokens /\ Authorizes(past[v], request[w])
        <3>1. PICK c \in during[w] : Authorizes(c, request[w])
            BY <2>1, <2>3 DEF Justified
        <3>2. c # NotLoaded
            BY <3>1 DEF Authorizes
        <3> QED
            BY <2>2, <3>1, <3>2
    <2>4. ASSUME status[w] = 401
          PROVE  \E v \in 0..edits : past[v] \in Store!Tokens /\ ~Authorizes(past[v], request[w])
        <3>1. PICK c \in during[w] : c # NotLoaded /\ ~Authorizes(c, request[w])
            BY <2>1, <2>4 DEF Justified
        <3> QED
            BY <2>2, <3>1
    <2> QED
        BY <2>3, <2>4
<1>2. Init => \A w \in Worker : SeenInv(w)
    BY DEF Init, SeenInv
<1>3. /\ Inv /\ StoreFacts!IInv /\ StoreFacts!IInv'
      /\ (\A w \in Worker : SeenInv(w)) /\ [Next]_vars
      => (\A w \in Worker : SeenInv(w))'
    BY NextSeen
<1> QED
    BY <1>1, <1>2, <1>3, Invariance, StoreInvariance, PTL DEF Spec
=============================================================================
