----------------------------- MODULE TokenReload -----------------------------
(***************************************************************************)
(* The auth-service's copy of the API tokens: the table in Postgres, edited *)
(* by hand while the service runs; LoadTokens, which reads it as a whole;  *)
(* the Reloader, which loads once at startup and then on every tick; and   *)
(* the Cache that requests are checked against.                            *)
(*                                                                         *)
(* One goroutine loads at a time: main finishes the first LoadOnce before  *)
(* it starts the ticker, and a tick that comes during a load is dropped.   *)
(* The table goes on changing between the query and Replace.               *)
(***************************************************************************)
EXTENDS Naturals

CONSTANTS Token,      \* API keys
          Entry,      \* rate limit and scope of a key
          NoRow,      \* the key is not in the table
          BadRow,     \* its scope is JSON, but not an object of booleans
          NotLoaded,  \* the nil map: nothing was ever loaded
          MaxEdits    \* bound of the model on the edits of the table

ASSUME TokenAssumption ==
    /\ NoRow \notin Entry
    /\ BadRow \notin Entry \cup {NoRow}
    /\ NotLoaded \notin [Token -> Entry \cup {NoRow}]
    /\ MaxEdits \in Nat

VARIABLES
    table,    \* the rows in Postgres
    edits,    \* the number of edits so far: the version of the table
    cache,    \* Cache.m
    loaded,   \* what LoadTokens returned to a LoadOnce that is still running
    cacheAt,  \* history: the version that cache was read from
    loadedAt, \* history: the version that loaded was read from
    past      \* history: the tables so far, by version

tokenVars == <<table, edits, cache, loaded, cacheAt, loadedAt, past>>

Tokens == [Token -> Entry \cup {NoRow}]
Table == [Token -> Entry \cup {NoRow, BadRow}]

TypeOK ==
    /\ table \in Table
    /\ edits \in 0..MaxEdits
    /\ cache \in Tokens \cup {NotLoaded}
    /\ loaded \in Tokens \cup {NotLoaded}
    /\ cacheAt \in 0..MaxEdits
    /\ loadedAt \in 0..MaxEdits
    /\ past \in [0..MaxEdits -> Table]

\* The migration's table with any rows; the service has just started.
Init ==
    /\ table \in Table
    /\ edits = 0
    /\ cache = NotLoaded
    /\ loaded = NotLoaded
    /\ cacheAt = 0
    /\ loadedAt = 0
    /\ past = [v \in 0..MaxEdits |-> table]
-----------------------------------------------------------------------------
(* Mutated forms: actions below with a bug that a change to the loader     *)
(* might bring in.  They are not part of the specification.                *)

\* Rows that cannot be decoded are skipped.
MutLoadTokens ==
    /\ loaded = NotLoaded
    /\ loaded' = [t \in Token |-> IF table[t] = BadRow THEN NoRow ELSE table[t]]
    /\ loadedAt' = edits
    /\ UNCHANGED <<table, edits, cache, cacheAt, past>>

\* The error of json.Unmarshal is ignored.
MutLoadTokensUndecoded ==
    /\ loaded = NotLoaded
    /\ loaded' = table
    /\ loadedAt' = edits
    /\ UNCHANGED <<table, edits, cache, cacheAt, past>>

\* Replace is called with the nil map that comes with an error.
MutLoadFails ==
    /\ loaded = NotLoaded
    /\ cache' = NotLoaded
    /\ cacheAt' = 0
    /\ UNCHANGED <<table, edits, loaded, loadedAt, past>>

\* Rows are merged into the map instead of replacing it.
MutReplaceMerges ==
    /\ loaded # NotLoaded
    /\ cache' = [t \in Token |-> IF loaded[t] = NoRow /\ cache # NotLoaded
                                 THEN cache[t] ELSE loaded[t]]
    /\ cacheAt' = loadedAt
    /\ loaded' = NotLoaded
    /\ UNCHANGED <<table, edits, loadedAt, past>>
-----------------------------------------------------------------------------
\* An operator inserts, updates or deletes a row.
Edit(t, row) ==
    /\ edits < MaxEdits
    /\ row # table[t]
    /\ edits' = edits + 1
    /\ table' = [table EXCEPT ![t] = row]
    /\ past' = [past EXCEPT ![edits + 1] = [table EXCEPT ![t] = row]]
    /\ UNCHANGED <<cache, loaded, cacheAt, loadedAt>>

\* LoadTokens reads one snapshot of the table; one bad row fails the load.
LoadTokens ==
    /\ loaded = NotLoaded
    /\ table \in Tokens
    /\ loaded' = table
    /\ loadedAt' = edits
    /\ UNCHANGED <<table, edits, cache, cacheAt, past>>

\* No connection, a failed schema check, a timeout, or a bad row: LoadOnce
\* returns the error and leaves the cache alone.
LoadFails ==
    /\ loaded = NotLoaded
    /\ UNCHANGED tokenVars

Replace ==
    /\ loaded # NotLoaded
    /\ cache' = loaded
    /\ cacheAt' = loadedAt
    /\ loaded' = NotLoaded
    /\ UNCHANGED <<table, edits, loadedAt, past>>

Next ==
    \/ \E t \in Token, row \in Entry \cup {NoRow, BadRow} : Edit(t, row)
    \/ LoadTokens
    \/ LoadFails
    \/ Replace

Spec == Init /\ [][Next]_tokenVars

\* The ticker never stops, and a load succeeds again and again if the table
\* can be loaded again and again: Postgres is not down for good.
FairSpec == Spec /\ SF_tokenVars(LoadTokens) /\ WF_tokenVars(Replace)
-----------------------------------------------------------------------------
(* Properties *)

\* Cache.Validate
Validate(t) == cache # NotLoaded /\ cache[t] # NoRow

\* Requests are never checked against a mixture of two tables or a part of
\* one: the cache is the whole table as it was at one instant.
CacheIsSnapshot == cache # NotLoaded => cache = past[cacheAt]

\* A load that fails leaves the cache in use ("DBDownKeepsExistingCache"), and
\* no load puts a table in use that is older than the one before.
CacheNeverGoesBack ==
    [][/\ cache # NotLoaded => cache' # NotLoaded
       /\ cacheAt <= cacheAt']_tokenVars

\* While Postgres answers and no row is bad, a key whose row was deleted is
\* in the end no longer accepted.
RevocationTakesEffect ==
    \A t \in Token :
        (<>[](table[t] = NoRow) /\ <>[](table \in Tokens))
            => <>[](cache # NotLoaded /\ ~Validate(t))
=============================================================================
