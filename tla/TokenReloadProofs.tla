-------------------------- MODULE TokenReloadProofs --------------------------
(***************************************************************************)
(* Theorems about TokenReload for any set of keys and entries and any      *)
(* number of edits.                                                        *)
(*                                                                         *)
(* That the cache is a whole table, and never an older one than before, is *)
(* a statement about Replace, but true because of the load that precedes   *)
(* it: IInv says what is known of a load that is under way.                *)
(***************************************************************************)
EXTENDS TokenReload, TLAPS

\* The load under way read a whole table, not before the one now in use.
LoadInv ==
    /\ past[edits] = table
    /\ loaded # NotLoaded => loaded = past[loadedAt]
    /\ cacheAt <= loadedAt
    /\ loadedAt <= edits

IInv == TypeOK /\ LoadInv /\ CacheIsSnapshot

LEMMA Initial == Init => IInv
BY TokenAssumption DEF TokenAssumption, Init, IInv, TypeOK, LoadInv, CacheIsSnapshot, Tokens, Table

LEMMA Step == IInv /\ [Next]_tokenVars => IInv'
<1> SUFFICES ASSUME IInv, [Next]_tokenVars PROVE IInv'
    OBVIOUS
<1> USE TokenAssumption DEF TokenAssumption, IInv, TypeOK, LoadInv, CacheIsSnapshot
\* An edit writes the next version of the history and leaves the others alone.
<1>1. ASSUME NEW t \in Token, NEW row \in Entry \cup {NoRow, BadRow}, Edit(t, row)
      PROVE  IInv'
    <2>1. table' \in Table
        BY <1>1 DEF Edit, Table
    <2>2. edits' \in 0..MaxEdits /\ past' \in [0..MaxEdits -> Table]
        BY <1>1, <2>1 DEF Edit
    <2>3. \A v \in 0..edits : past'[v] = past[v]
        BY <1>1 DEF Edit
    <2>4. past'[edits'] = table'
        BY <1>1 DEF Edit
    <2> QED
        BY <1>1, <2>1, <2>2, <2>3, <2>4 DEF Edit
<1>2. CASE LoadTokens
    BY <1>2 DEF LoadTokens, Tokens
<1>3. CASE LoadFails
    BY <1>3 DEF LoadFails, tokenVars
<1>4. CASE Replace
    BY <1>4 DEF Replace
<1>5. CASE UNCHANGED tokenVars
    BY <1>5 DEF tokenVars
<1> QED
    BY <1>1, <1>2, <1>3, <1>4, <1>5 DEF Next

LEMMA Invariance == Spec => []IInv
BY Initial, Step, PTL DEF Spec

\* Every variable keeps its type; in particular no bad row reaches the cache.
THEOREM TypeCorrect == Spec => []TypeOK
BY Invariance, PTL DEF IInv

\* Requests are checked against a whole table, never a mixture of two.
THEOREM SnapshotInUse == Spec => []CacheIsSnapshot
BY Invariance, PTL DEF IInv

\* No reload, failed or successful, goes back to the nil map or an older table.
THEOREM NoStepBack == Spec => CacheNeverGoesBack
<1>1. IInv /\ [Next]_tokenVars =>
          [/\ cache # NotLoaded => cache' # NotLoaded
           /\ cacheAt <= cacheAt']_tokenVars
    <2> SUFFICES ASSUME IInv, Next
                 PROVE  (cache # NotLoaded => cache' # NotLoaded) /\ cacheAt <= cacheAt'
        OBVIOUS
    <2>1. cacheAt <= loadedAt /\ cacheAt \in Nat
        BY TokenAssumption DEF IInv, TypeOK, LoadInv, TokenAssumption
    <2>2. CASE Replace
        BY <2>1, <2>2 DEF Replace
    <2>3. CASE UNCHANGED <<cache, cacheAt>>
        BY <2>1, <2>3
    <2> QED
        BY <2>2, <2>3 DEF Next, Edit, LoadTokens, LoadFails, tokenVars
<1> QED
    BY <1>1, Invariance, PTL DEF Spec, CacheNeverGoesBack
=============================================================================
