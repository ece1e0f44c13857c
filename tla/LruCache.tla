------------------------------ MODULE LruCache ------------------------------
(***************************************************************************)
(* lru_cache_t of src/src/ngx_lua_cpp.cpp: a bounded map with expiry and a *)
(* list of the keys, most recently used first.  Every operation holds the  *)
(* mutex.                                                                  *)
(***************************************************************************)
EXTENDS Naturals, Sequences, FiniteSets, SequencesExt

CONSTANTS
    CacheKeys, CacheValues,
    MaxEntries, \* 1024 in the code
    TTLs,       \* time-to-live values that are asked for; 0: for ever
    MaxTime,    \* bound: the clock
    MaxCalls    \* bound: calls of set() and get()

ASSUME CacheAssumption == MaxEntries \in Nat \ {0} /\ TTLs \subseteq Nat

VARIABLES
    clock,      \* now_ms()
    lru,        \* the list
    entries,    \* key -> value and expiry time, for the keys present
    lastSet,    \* value and expiry of the last set() of a key (history)
    lastUse,    \* number of the call that last used a key (history)
    cacheCalls, \* calls made
    lookup      \* what the last get() returned

cacheVars == <<clock, lru, entries, lastSet, lastUse, cacheCalls, lookup>>

NoEntry == [value |-> "none", expire |-> 0]
NoLookup == [key |-> "none", hit |-> FALSE, value |-> "none", remain |-> 0]

CacheInit ==
    /\ clock = 1 /\ lru = <<>> /\ entries = <<>> /\ cacheCalls = 0
    /\ lastSet = [k \in CacheKeys |-> NoEntry] /\ lastUse = [k \in CacheKeys |-> 0]
    /\ lookup = NoLookup

\* iters[key]: where a key is in the list; splice() and erase() there
Iter(k) == CHOOSE i \in DOMAIN lru : lru[i] = k
Erased(k) == RemoveAt(lru, Iter(k))
ToFront(k) == <<k>> \o Erased(k)
SetKey(f, k, e) == [x \in DOMAIN f \cup {k} |-> IF x = k THEN e ELSE f[x]]
DropKey(f, k) == [x \in DOMAIN f \ {k} |-> f[x]]
Used(k) == cacheCalls < MaxCalls /\ cacheCalls' = cacheCalls + 1 /\ lastUse' = [lastUse EXCEPT ![k] = cacheCalls + 1]

\* Mutant: a key that is set again keeps its place in the list.
CacheSetStays(k, v, ttl) ==
    LET e == [value |-> v, expire |-> IF ttl > 0 THEN clock + ttl ELSE 0]
        full == Cardinality(DOMAIN entries) >= MaxEntries IN
    /\ Used(k) /\ lastSet' = [lastSet EXCEPT ![k] = e]
    /\ IF k \in DOMAIN entries
         THEN UNCHANGED lru /\ entries' = SetKey(entries, k, e)
         ELSE /\ lru' = <<k>> \o (IF full THEN Front(lru) ELSE lru)
              /\ entries' = SetKey(IF full THEN DropKey(entries, Last(lru)) ELSE entries, k, e)
    /\ lookup' = NoLookup /\ UNCHANGED clock

\* set(): a known key moves to the front; a new one may evict the last
CacheSet(k, v, ttl) ==
    LET e == [value |-> v, expire |-> IF ttl > 0 THEN clock + ttl ELSE 0]
        full == Cardinality(DOMAIN entries) >= MaxEntries IN
    /\ Used(k) /\ lastSet' = [lastSet EXCEPT ![k] = e]
    /\ IF k \in DOMAIN entries
         THEN lru' = ToFront(k) /\ entries' = SetKey(entries, k, e)
         ELSE /\ lru' = <<k>> \o (IF full THEN Front(lru) ELSE lru)
              /\ entries' = SetKey(IF full THEN DropKey(entries, Last(lru)) ELSE entries, k, e)
    /\ lookup' = NoLookup /\ UNCHANGED clock

\* get(): nothing, an expired entry that is erased now, or a hit
CacheMiss(k) ==
    /\ k \notin DOMAIN entries
    /\ cacheCalls < MaxCalls /\ cacheCalls' = cacheCalls + 1
    /\ lookup' = [NoLookup EXCEPT !.key = k]
    /\ UNCHANGED <<clock, lru, entries, lastSet, lastUse>>

Expired(e) == e.expire > 0 /\ clock >= e.expire

CacheExpire(k) ==
    /\ k \in DOMAIN entries /\ Expired(entries[k])
    /\ cacheCalls < MaxCalls /\ cacheCalls' = cacheCalls + 1
    /\ lru' = Erased(k) /\ entries' = DropKey(entries, k)
    /\ lookup' = [NoLookup EXCEPT !.key = k]
    /\ UNCHANGED <<clock, lastSet, lastUse>>

\* Mutant: the entry served is not checked for expiry (only for absence).
CacheHitStale(k) ==
    /\ k \in DOMAIN entries /\ Used(k) /\ lru' = ToFront(k)
    /\ lookup' = [key |-> k, hit |-> TRUE, value |-> entries[k].value, remain |-> 0]
    /\ UNCHANGED <<clock, entries, lastSet>>

CacheHit(k) ==
    /\ k \in DOMAIN entries /\ ~Expired(entries[k]) /\ Used(k) /\ lru' = ToFront(k)
    /\ lookup' = [key |-> k, hit |-> TRUE, value |-> entries[k].value,
                  remain |-> IF entries[k].expire > 0 THEN entries[k].expire - clock ELSE 0]
    /\ UNCHANGED <<clock, entries, lastSet>>

CacheTick ==
    /\ clock < MaxTime /\ clock' = clock + 1 /\ lookup' = NoLookup
    /\ UNCHANGED <<lru, entries, lastSet, lastUse, cacheCalls>>

CacheNext ==
    \/ CacheTick
    \/ \E k \in CacheKeys : \/ \E v \in CacheValues, ttl \in TTLs : CacheSet(k, v, ttl)
                            \/ CacheMiss(k) \/ CacheExpire(k) \/ CacheHit(k)

CacheSpec == CacheInit /\ [][CacheNext]_cacheVars

(***************************************************************************)
(* The list is the keys present, each once, in the order of their last use *)
(* over sets, hits, evictions and expiries: so the victim of an eviction   *)
(* is always the key not used for longest.                                 *)
(***************************************************************************)
LruOrder ==
    /\ Len(lru) <= MaxEntries
    /\ {lru[i] : i \in DOMAIN lru} = DOMAIN entries
    /\ \A i, j \in DOMAIN lru : i < j => lastUse[lru[i]] > lastUse[lru[j]]

\* A hit returns the value of the last set() of the key, before it expires,
\* although the key may have been evicted or have expired and come back.
ServesLastSet ==
    lookup.hit => /\ lookup.value = lastSet[lookup.key].value
                  /\ lastSet[lookup.key].expire = 0 \/ clock < lastSet[lookup.key].expire
                  /\ lookup.remain > 0 <=> lastSet[lookup.key].expire > 0

(***************************************************************************)
(* The cache serves what was last set and evicts what was not used for     *)
(* longest, over set(), hits, evictions, expiries and keys that come back. *)
(***************************************************************************)
CacheRight == LruOrder /\ ServesLastSet

=============================================================================
