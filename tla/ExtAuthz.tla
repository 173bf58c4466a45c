------------------------------ MODULE ExtAuthz ------------------------------
(***************************************************************************)
(* One request of the gateway to the auth-service (server.go, auth.go,     *)
(* rate_limit.go, ext_authz.go), from OptionalAPIKeyAuth to ExtAuthzOK,    *)
(* while the Reloader of TokenReload replaces the token cache.             *)
(*                                                                         *)
(* A request looks into the cache up to four times (Ready, Validate,       *)
(* HasScope, RateLimit), each time under the read lock and each time in    *)
(* whatever table is there by then.  What a limiter answers is a choice    *)
(* here; how limiters count is the subject of RateLimit.                   *)
(***************************************************************************)
EXTENDS Naturals

CONSTANTS Token, Entry, NoRow, BadRow, NotLoaded, MaxEdits,
          Worker,                  \* goroutines that serve a request
          None,                    \* no key, no answer
          AsUser,                  \* counted by the user limiter
          Padding,                 \* may a key come with white space around it
          EnableUserLimiter,       \* and user_limit is positive
          EnableTokenRateLimiter

\* What the columns rate_limit and scope of a row say.
ASSUME ExtAuthzAssumption ==
    /\ Entry \subseteq [rateLimit : Nat, ops : BOOLEAN]
    /\ None \notin [token : Token, padded : BOOLEAN]
    /\ AsUser # None
    /\ {None, AsUser} \cap Nat = {}
    /\ Padding \subseteq BOOLEAN
    /\ EnableUserLimiter \in BOOLEAN
    /\ EnableTokenRateLimiter \in BOOLEAN
    /\ NoRow \notin Entry
    /\ BadRow \notin Entry \cup {NoRow}
    /\ NotLoaded \notin [Token -> Entry \cup {NoRow}]
    /\ MaxEdits \in Nat

VARIABLES table, edits, cache, loaded, cacheAt, loadedAt, past

Store == INSTANCE TokenReload

VARIABLES
    stage,    \* the middleware each request is in
    request,  \* what the gateway asks about
    apiKey,   \* c.Locals("api_key")
    counted,  \* the limit of the key, AsUser, or None if not counted
    status,   \* the answer
    during    \* history: the caches that were in use during the request

storeVars == <<table, edits, cache, loaded, cacheAt, loadedAt, past>>
requestVars == <<stage, request, apiKey, counted, status, during>>
vars == <<storeVars, requestVars>>

\* The X-API-Key header; no row of the table has white space around its key.
Header == [token : Token, padded : Padding]
TrimSpace(h) == h.token

\* The header, is the path an ops path, is the method OPTIONS.
Request == [header : Header \cup {None}, ops : BOOLEAN, preflight : BOOLEAN]

Stage == {"idle", "auth", "validate", "scope", "tokenLimit", "userLimit", "answered"}
Status == {200, 401, 429, 503}

TypeOK ==
    /\ Store!TypeOK
    /\ stage \in [Worker -> Stage]
    /\ request \in [Worker -> Request \cup {None}]
    /\ apiKey \in [Worker -> Header \cup {None}]
    /\ counted \in [Worker -> Nat \cup {AsUser, None}]
    /\ status \in [Worker -> Status \cup {None}]
    /\ during \in [Worker -> SUBSET (Store!Tokens \cup {NotLoaded})]

Init ==
    /\ Store!Init
    /\ stage = [w \in Worker |-> "idle"]
    /\ request = [w \in Worker |-> None]
    /\ apiKey = [w \in Worker |-> None]
    /\ counted = [w \in Worker |-> None]
    /\ status = [w \in Worker |-> None]
    /\ during = [w \in Worker |-> {}]

Move(w, from, to) == stage[w] = from /\ stage' = [stage EXCEPT ![w] = to]

Answer(w, s) ==
    /\ stage' = [stage EXCEPT ![w] = "answered"]
    /\ status' = [status EXCEPT ![w] = s]

\* OptionalAPIKeyAuth: a key that no one asks for is not looked at.
Public(r) == ~r.ops /\ (r.preflight \/ r.header = None)
-----------------------------------------------------------------------------
(* Mutated forms: actions below with a bug that a change to the            *)
(* middlewares might bring in.  They are not part of the specification.    *)

\* The validator does not ask whether the tokens were ever loaded.
MutCheckReady(w) ==
    /\ stage[w] = "auth"
    /\ ~Public(request[w])
    /\ request[w].header # None
    /\ Move(w, "auth", "validate")
    /\ UNCHANGED <<storeVars, request, apiKey, counted, status, during>>

\* UserRateLimit looks at the header instead of c.Locals("api_key").
MutAllow(w) ==
    /\ stage[w] = "userLimit"
    /\ ~EnableUserLimiter \/ request[w].header # None
    /\ Answer(w, 200)
    /\ UNCHANGED <<storeVars, request, apiKey, counted, during>>

\* TokenRateLimit lets preflight requests pass.
MutSkipTokenLimiter(w) ==
    /\ Move(w, "tokenLimit", "userLimit")
    /\ apiKey[w] = None \/ request[w].preflight
    /\ UNCHANGED <<storeVars, request, apiKey, counted, status, during>>
-----------------------------------------------------------------------------
\* Receiving a request, and having sent its answer.
Receive(w, r) ==
    /\ Move(w, "idle", "auth")
    /\ request' = [request EXCEPT ![w] = r]
    /\ during' = [during EXCEPT ![w] = {cache}]
    /\ UNCHANGED <<storeVars, apiKey, counted, status>>

Done(w) ==
    /\ Move(w, "answered", "idle")
    /\ request' = [request EXCEPT ![w] = None]
    /\ apiKey' = [apiKey EXCEPT ![w] = None]
    /\ counted' = [counted EXCEPT ![w] = None]
    /\ status' = [status EXCEPT ![w] = None]
    /\ during' = [during EXCEPT ![w] = {}]
    /\ UNCHANGED storeVars
-----------------------------------------------------------------------------
(* OptionalAPIKeyAuth *)

AllowPublic(w) ==
    /\ Move(w, "auth", "tokenLimit")
    /\ Public(request[w])
    /\ UNCHANGED <<storeVars, request, apiKey, counted, status, during>>

RejectMissingKey(w) ==
    /\ stage[w] = "auth"
    /\ ~Public(request[w])
    /\ request[w].header = None
    /\ Answer(w, 401)
    /\ UNCHANGED <<storeVars, request, apiKey, counted, during>>

CheckReady(w) ==
    /\ stage[w] = "auth"
    /\ ~Public(request[w])
    /\ request[w].header # None
    /\ IF cache = NotLoaded
       THEN Answer(w, 503)
       ELSE Move(w, "auth", "validate") /\ UNCHANGED status
    /\ UNCHANGED <<storeVars, request, apiKey, counted, during>>

\* The validator returns true: keyauth puts the key it found in the header,
\* not the one the validator trimmed, into the locals.
Authenticated(w) ==
    /\ stage' = [stage EXCEPT ![w] = "tokenLimit"]
    /\ apiKey' = [apiKey EXCEPT ![w] = request[w].header]
    /\ UNCHANGED status

CheckKey(w) ==
    /\ stage[w] = "validate"
    /\ \/ ~Store!Validate(TrimSpace(request[w].header)) /\ Answer(w, 401) /\ UNCHANGED apiKey
       \/ /\ Store!Validate(TrimSpace(request[w].header))
          /\ IF request[w].ops
             THEN Move(w, "validate", "scope") /\ UNCHANGED <<apiKey, status>>
             ELSE Authenticated(w)
    /\ UNCHANGED <<storeVars, request, counted, during>>

HasOpsScope(k) == Store!Validate(k) /\ cache[k].ops

CheckScope(w) ==
    /\ stage[w] = "scope"
    /\ IF HasOpsScope(TrimSpace(request[w].header))
       THEN Authenticated(w)
       ELSE Answer(w, 401) /\ UNCHANGED apiKey
    /\ UNCHANGED <<storeVars, request, counted, during>>
-----------------------------------------------------------------------------
(* TokenRateLimit and UserRateLimit *)

\* Cache.RateLimit: a key that is not in the table has the limit 0.
RateLimit(h) ==
    IF ~h.padded /\ Store!Validate(h.token) THEN cache[h.token].rateLimit ELSE 0

\* The limit that TokenRateLimit applies; 0 is none.
LimitFor(w) ==
    IF EnableTokenRateLimiter /\ apiKey[w] # None THEN RateLimit(apiKey[w]) ELSE 0

SkipTokenLimiter(w) ==
    /\ Move(w, "tokenLimit", "userLimit")
    /\ LimitFor(w) = 0
    /\ UNCHANGED <<storeVars, request, apiKey, counted, status, during>>

CountToken(w) ==
    /\ stage[w] = "tokenLimit"
    /\ LimitFor(w) # 0
    /\ counted' = [counted EXCEPT ![w] = LimitFor(w)]
    /\ \/ Move(w, "tokenLimit", "userLimit") /\ UNCHANGED status
       \/ Answer(w, 429)
    /\ UNCHANGED <<storeVars, request, apiKey, during>>

\* ExtAuthzOK, with or without having been counted as a user.
Allow(w) ==
    /\ stage[w] = "userLimit"
    /\ ~EnableUserLimiter \/ apiKey[w] # None
    /\ Answer(w, 200)
    /\ UNCHANGED <<storeVars, request, apiKey, counted, during>>

CountUser(w) ==
    /\ stage[w] = "userLimit"
    /\ EnableUserLimiter
    /\ apiKey[w] = None
    /\ counted' = [counted EXCEPT ![w] = AsUser]
    /\ \E s \in {200, 429} : Answer(w, s)
    /\ UNCHANGED <<storeVars, request, apiKey, during>>
-----------------------------------------------------------------------------
(* The token store goes on; requests under way have now seen two caches. *)

Reload ==
    /\ Store!Replace
    /\ during' = [w \in Worker |->
                    IF stage[w] \in {"idle", "answered"} THEN during[w] ELSE during[w] \cup {cache'}]
    /\ UNCHANGED <<stage, request, apiKey, counted, status>>

ChangeTable ==
    /\ \E t \in Token, row \in Entry \cup {NoRow, BadRow} : Store!Edit(t, row)
    /\ UNCHANGED requestVars

Load == Store!LoadTokens /\ UNCHANGED requestVars
LoadFails == Store!LoadFails /\ UNCHANGED requestVars

Handle(w) ==
    \/ AllowPublic(w) \/ RejectMissingKey(w)
    \/ CheckReady(w) \/ CheckKey(w) \/ CheckScope(w)
    \/ SkipTokenLimiter(w) \/ CountToken(w) \/ Allow(w) \/ CountUser(w)
    \/ Done(w)

Next ==
    \/ \E w \in Worker : Handle(w) \/ \E r \in Request : Receive(w, r)
    \/ ChangeTable \/ Load \/ LoadFails \/ Reload

Spec == Init /\ [][Next]_vars

\* Requests go on, as the locks they take are held for an instant; the Reloader
\* is as fair as in TokenReload.
FairSpec ==
    /\ Spec
    /\ \A w \in Worker : WF_vars(Handle(w))
    /\ SF_vars(Load) /\ WF_vars(Reload)
-----------------------------------------------------------------------------
(* Properties *)

\* What one look at one table would decide.
Authorizes(c, r) ==
    /\ c # NotLoaded
    /\ c[r.header.token] # NoRow
    /\ r.ops => c[r.header.token].ops

\* A request is never let in on the strength of two tables neither of which
\* would let it in, nor refused although every table of its time would let it
\* in: some cache in use during the request justifies each answer.
AnswerIsJustified ==
    \A w \in Worker : stage[w] = "answered" =>
        LET r == request[w]
        IN  /\ status[w] = 503 => NotLoaded \in during[w]
            /\ status[w] = 401 =>
                /\ ~Public(r)
                /\ r.header = None \/ \E c \in during[w] : c # NotLoaded /\ ~Authorizes(c, r)
            /\ (status[w] \in {200, 429} /\ ~Public(r)) => \E c \in during[w] : Authorizes(c, r)

\* The limit of key t in the cache c, where t is in it.
HasLimit(c, t, n) == c # NotLoaded /\ c[t] # NoRow /\ c[t].rateLimit = n

\* A request that is counted as a key's is counted under a limit the key had
\* during the request; a public one that is let through was counted as its
\* user's; nobody who has a key is counted as a user.
CountedAsDue ==
    \A w \in Worker : stage[w] = "answered" =>
        /\ counted[w] = AsUser => Public(request[w])
        /\ counted[w] \in Nat =>
            \E c \in during[w] : HasLimit(c, request[w].header.token, counted[w])
        /\ (status[w] = 200 /\ Public(request[w]) /\ EnableUserLimiter) => counted[w] = AsUser

\* The gateway's answers come from Postgres, through the Reloader, the cache and
\* the middlewares: a key is let in or refused as it stood in some version of
\* the table, and only in one in which every row could be read.
AnswersComeFromTheTable ==
    \A w \in Worker : (stage[w] = "answered" /\ ~Public(request[w]) /\ request[w].header # None) =>
        LET versions == {v \in 0..edits : past[v] \in Store!Tokens}
        IN  /\ status[w] \in {200, 429} => \E v \in versions : Authorizes(past[v], request[w])
            /\ status[w] = 401 => \E v \in versions : ~Authorizes(past[v], request[w])

\* Revocation reaches the gateway: when a row is deleted and loads go on
\* succeeding, requests with its key are in the end no longer let in.
RevokedKeysAreRefused ==
    \A t \in Token :
        (<>[](table[t] = NoRow) /\ <>[](table \in Store!Tokens))
            => <>[](\A w \in Worker : status[w] = 200 /\ apiKey[w] # None => apiKey[w].token # t)

\* How far limits on keys can be trusted, all reloads considered: a request with
\* a key is let through uncounted only if the key was sent with white space
\* around it, had the limit 0, or was authorized by one table of the request's
\* time and gone from another.
RevokedMeanwhile(w) ==
    \E b, c \in during[w] :
        Authorizes(b, request[w]) /\ c # NotLoaded /\ c[apiKey[w].token] = NoRow

UncountedForAReason ==
    \A w \in Worker :
        (status[w] = 200 /\ apiKey[w] # None /\ EnableTokenRateLimiter /\ counted[w] = None)
            => \/ apiKey[w].padded
               \/ \E c \in during[w] : HasLimit(c, apiKey[w].token, 0)
               \/ RevokedMeanwhile(w)

\* "Token-based limiting uses the per-token rate_limit value": a request with a
\* key goes uncounted only if some table in use during the request has the key
\* with the limit 0.  It is not so: if the key is revoked after it was
\* validated, RateLimit answers 0, and 0 means unlimited.
LimitedKeysAreCounted ==
    \A w \in Worker :
        (status[w] = 200 /\ apiKey[w] # None /\ EnableTokenRateLimiter /\ counted[w] = None)
            => \E c \in during[w] : HasLimit(c, apiKey[w].token, 0)
=============================================================================
