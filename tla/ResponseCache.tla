---------------------------- MODULE ResponseCache ----------------------------
(***************************************************************************)
(* InMemoryResponseCache of middleware.py: one entry per cache key, with   *)
(* the time at which it expires.  An expired entry is deleted by the get   *)
(* that finds it, and by nothing else.  Both methods run under a lock      *)
(* without awaiting inside it, so each is one atomic step.                 *)
(***************************************************************************)
EXTENDS Integers

CONSTANTS CacheKeys,  \* the hashes build_cache_key makes
          None

VARIABLES now,   \* clock.now()
          store  \* _store: cache key -> [expires_at, value], or None

CacheInit == store = [k \in CacheKeys |-> None]

Entries(Values) == [expires_at : Nat, value : Values] \cup {None}

-----------------------------------------------------------------------------
(* Plausible slips, used to show that the properties can be broken.        *)
Expired_Late(k) == store[k] # None /\ now > store[k].expires_at

Set_StoresTtl(k, value, ttl) ==
  store' = [store EXCEPT ![k] = [expires_at |-> now + ttl, value |-> ttl]]

-----------------------------------------------------------------------------
Expired(k) == store[k] # None /\ now >= store[k].expires_at

(* What get returns ...                                                    *)
Lookup(k) == IF store[k] = None \/ Expired(k) THEN None ELSE store[k].value

(* ... and what it does.                                                   *)
Get(k) == store' = [store EXCEPT ![k] = IF Expired(k) THEN None ELSE @]

Set(k, value, ttl) ==
  store' = [store EXCEPT ![k] = [expires_at |-> now + ttl, value |-> value]]
=============================================================================
