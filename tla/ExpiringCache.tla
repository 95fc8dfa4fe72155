---------------------------- MODULE ExpiringCache ----------------------------
(***************************************************************************)
(* ExpiringCache of src/src/limits.rs: a bounded map whose entries expire  *)
(* a fixed time after they were inserted.  A cache is a function from keys *)
(* to entries, NoEntry where the map has none.                             *)
(***************************************************************************)
EXTENDS Naturals, FiniteSets

CONSTANT NoEntry

Entry(value, expires) == [value |-> value, expires |-> expires]

EmptyCache(keys) == [k \in keys |-> NoEntry]
Cached(cache)    == {k \in DOMAIN cache : cache[k] # NoEntry}

\* Would get return a value?
Live(cache, k, now) == cache[k] # NoEntry /\ cache[k].expires > now

\* get: an entry that has expired is removed when it is visited.
AfterGet(cache, k, now) ==
  IF Live(cache, k, now) THEN cache ELSE [cache EXCEPT ![k] = NoEntry]

\* The entries insert may evict: the one that expires first, whether it has
\* expired or not; a hash map breaks a tie as it likes.
Victims(cache, k, capacity) ==
  IF cache[k] = NoEntry /\ Cardinality(Cached(cache)) = capacity
    THEN {v \in Cached(cache) :
            \A w \in Cached(cache) : cache[v].expires <= cache[w].expires}
    ELSE {k}

\* insert, with the entry it evicts (k itself for none)
AfterInsert(cache, k, entry, victim) == [cache EXCEPT ![victim] = NoEntry, ![k] = entry]
=============================================================================
