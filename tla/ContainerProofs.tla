-------------------------- MODULE ContainerProofs ---------------------------
(***************************************************************************)
(* The LRU cache, the socket calls, the fan-out over the pool and the two  *)
(* allocators, for any keys, bounds, URLs, rows, numbers of calls, rings,  *)
(* blocks and threads.  Each is a specification of its own, so each has    *)
(* its own inductive invariant.                                            *)
(***************************************************************************)
EXTENDS LruCache, Requests, Memory, TLAPS, SequenceTheorems, FiniteSetTheorems

-----------------------------------------------------------------------------
(* LruCache                                                                  *)

Members(s) == {s[i] : i \in DOMAIN s}

\* Each element of s was used after the ones behind it.
UseOrder(s, use) == \A i, j \in DOMAIN s : i < j => use[s[i]] > use[s[j]]

\* erase() of one position leaves the others in their order.
LEMMA EraseElements ==
    ASSUME NEW S, NEW s \in Seq(S), NEW p \in DOMAIN s
    PROVE  LET r == RemoveAt(s, p) IN
           /\ r \in Seq(S) /\ Len(r) = Len(s) - 1
           /\ \A i \in DOMAIN r : r[i] = IF i < p THEN s[i] ELSE s[i + 1]
<1> DEFINE a == SubSeq(s, 1, p - 1)
           b == SubSeq(s, p + 1, Len(s))
<1>1. Len(s) \in Nat /\ DOMAIN s = 1 .. Len(s) /\ p \in 1 .. Len(s) /\ \A i \in 1 .. Len(s) : s[i] \in S
  BY LenProperties, ElementOfSeq
<1>2. a \in Seq(S) /\ Len(a) = p - 1 /\ \A i \in 1 .. p - 1 : a[i] = s[i]
  <2>1. \A i \in 1 .. p - 1 : s[i] \in S /\ 1 + i - 1 = i
    BY <1>1
  <2>2. 1 \in Int /\ p - 1 \in Int /\ (p - 1) - 1 + 1 = p - 1
    BY <1>1
  <2> QED
    BY <1>1, <2>1, <2>2, SubSeqProperties
<1>3. b \in Seq(S) /\ Len(b) = Len(s) - p /\ \A i \in 1 .. Len(s) - p : b[i] = s[p + i]
  <2>1. \A i \in p + 1 .. Len(s) : s[i] \in S
    BY <1>1
  <2>2. p + 1 \in Int /\ Len(s) \in Int /\ Len(s) - (p + 1) + 1 = Len(s) - p
    BY <1>1
  <2>3. \A i \in 1 .. Len(s) - p : p + 1 + i - 1 = p + i
    BY <1>1
  <2>4. /\ b \in Seq(S) /\ Len(b) = IF p + 1 <= Len(s) THEN Len(s) - (p + 1) + 1 ELSE 0
        /\ \A i \in 1 .. Len(s) - (p + 1) + 1 : b[i] = s[p + 1 + i - 1]
    BY <2>1, <2>2, SubSeqProperties
  <2> QED
    BY <1>1, <2>2, <2>3, <2>4
<1> HIDE DEF a, b
<1>4. /\ a \o b \in Seq(S) /\ Len(a \o b) = Len(a) + Len(b)
      /\ \A i \in 1 .. Len(a) + Len(b) : (a \o b)[i] = IF i <= Len(a) THEN a[i] ELSE b[i - Len(a)]
  BY <1>2, <1>3, ConcatProperties
<1>5. Len(a) + Len(b) = Len(s) - 1
  BY <1>1, <1>2, <1>3
<1>6. DOMAIN (a \o b) = 1 .. Len(s) - 1
  BY <1>4, <1>5, LenProperties
<1>7. \A i \in 1 .. Len(s) - 1 : (a \o b)[i] = IF i < p THEN s[i] ELSE s[i + 1]
  <2> TAKE i \in 1 .. Len(s) - 1
  <2>1. CASE i < p
    BY <2>1, <1>1, <1>2, <1>4, <1>5
  <2>2. CASE i >= p
    <3>1. (a \o b)[i] = b[i - (p - 1)] /\ i - (p - 1) \in 1 .. Len(s) - p
      BY <2>2, <1>1, <1>2, <1>4, <1>5, SMTT(30)
    <3>2. b[i - (p - 1)] = s[p + (i - (p - 1))] /\ p + (i - (p - 1)) = i + 1
      BY <3>1, <1>1, <1>3
    <3> QED
      BY <3>1, <3>2, <2>2, <1>1
  <2>3. i < p \/ i >= p
    BY <1>1
  <2> QED
    BY <2>1, <2>2, <2>3
<1>8. RemoveAt(s, p) = a \o b
  BY DEF RemoveAt, a, b
<1> QED
  BY <1>4, <1>5, <1>6, <1>7, <1>8

\* and exactly the other elements, if no element is there twice.
LEMMA EraseOrder ==
    ASSUME NEW S, NEW s \in Seq(S), NEW p \in DOMAIN s, NEW use \in [S -> Nat], UseOrder(s, use)
    PROVE  LET r == RemoveAt(s, p) IN
           /\ r \in Seq(S) /\ Len(r) = Len(s) - 1
           /\ Members(r) = Members(s) \ {s[p]} /\ UseOrder(r, use)
<1> DEFINE r == RemoveAt(s, p)
<1>1. /\ r \in Seq(S) /\ Len(r) = Len(s) - 1
      /\ \A i \in DOMAIN r : r[i] = IF i < p THEN s[i] ELSE s[i + 1]
  BY EraseElements
<1> HIDE DEF r
<1>2. /\ Len(s) \in Nat /\ DOMAIN s = 1 .. Len(s) /\ DOMAIN r = 1 .. Len(s) - 1
      /\ p \in 1 .. Len(s) /\ \A i \in 1 .. Len(s) : s[i] \in S /\ use[s[i]] \in Nat
  BY <1>1, LenProperties, ElementOfSeq
<1>0. \A i, j \in 1 .. Len(s) : i < j => use[s[i]] > use[s[j]]
  BY <1>2 DEF UseOrder
<1>3. \A i, j \in 1 .. Len(s) : i # j => s[i] # s[j]
  <2> SUFFICES ASSUME NEW i \in 1 .. Len(s), NEW j \in 1 .. Len(s), i # j, s[i] = s[j] PROVE FALSE
    OBVIOUS
  <2>1. i < j \/ j < i
    OBVIOUS
  <2>2. use[s[i]] > use[s[j]] \/ use[s[j]] > use[s[i]]
    BY <2>1, <1>0
  <2>3. use[s[i]] \in Nat /\ ~(use[s[i]] > use[s[i]])
    BY <1>2
  <2> QED
    BY <2>2, <2>3
<1>4. UseOrder(r, use)
  <2> SUFFICES ASSUME NEW i \in DOMAIN r, NEW j \in DOMAIN r, i < j PROVE use[r[i]] > use[r[j]]
    BY DEF UseOrder
  <2> DEFINE x == IF i < p THEN i ELSE i + 1
             y == IF j < p THEN j ELSE j + 1
  <2>0. /\ i \in 1 .. Len(s) - 1 /\ j \in 1 .. Len(s) - 1 /\ Len(s) \in Nat /\ p \in Nat
    BY <1>2
  <2>1. x \in 1 .. Len(s) /\ y \in 1 .. Len(s) /\ x < y
    BY <2>0, SMTT(30)
  <2>2. r[i] = s[x] /\ r[j] = s[y]
    BY <1>1
  <2> HIDE DEF x, y
  <2> QED
    BY <2>1, <2>2, <1>0
<1>5. \A x \in Members(r) : x \in Members(s) /\ x # s[p]
  <2> SUFFICES ASSUME NEW i \in DOMAIN r PROVE r[i] \in Members(s) /\ r[i] # s[p]
    BY DEF Members
  <2> DEFINE x == IF i < p THEN i ELSE i + 1
  <2>1. x \in 1 .. Len(s) /\ x # p
    BY <1>2
  <2>2. r[i] = s[x]
    BY <1>1
  <2> QED
    BY <2>1, <2>2, <1>2, <1>3 DEF Members
<1>6. \A x \in Members(s) : x # s[p] => x \in Members(r)
  <2> SUFFICES ASSUME NEW i \in 1 .. Len(s), s[i] # s[p] PROVE s[i] \in Members(r)
    BY <1>2 DEF Members
  <2>1. CASE i < p
    <3>0. i \in 1 .. Len(s) - 1
      BY <2>1, <1>2
    <3>1. i \in DOMAIN r /\ r[i] = s[i]
      BY <3>0, <2>1, <1>1, <1>2
    <3> QED
      BY <3>1 DEF Members
  <2>2. CASE i > p
    <3>1. i - 1 \in DOMAIN r /\ ~(i - 1 < p) /\ (i - 1) + 1 = i
      BY <2>2, <1>2
    <3>2. r[i - 1] = s[i]
      BY <3>1, <1>1
    <3> QED
      BY <3>1, <3>2 DEF Members
  <2>3. i < p \/ i > p \/ i = p
    BY <1>2
  <2> QED
    BY <2>1, <2>2, <2>3
<1>7. Members(r) = Members(s) \ {s[p]}
  BY <1>5, <1>6
<1> QED
  BY <1>1, <1>4, <1>7 DEF r

\* push_front() of an element used after all the others.
LEMMA PushOrder ==
    ASSUME NEW S, NEW s \in Seq(S), NEW k \in S, NEW use \in [S -> Nat], NEW new \in [S -> Nat],
           UseOrder(s, use),
           \A x \in Members(s) : new[x] = use[x] /\ new[k] > use[x]
    PROVE  /\ <<k>> \o s \in Seq(S) /\ Len(<<k>> \o s) = Len(s) + 1
           /\ Members(<<k>> \o s) = Members(s) \cup {k} /\ UseOrder(<<k>> \o s, new)
<1> DEFINE r == <<k>> \o s
<1>0. <<k>> \in Seq(S) /\ Len(<<k>>) = 1 /\ <<k>>[1] = k
  OBVIOUS
<1>1. /\ r \in Seq(S) /\ Len(r) = 1 + Len(s)
      /\ \A i \in 1 .. 1 + Len(s) : r[i] = IF i <= 1 THEN <<k>>[i] ELSE s[i - 1]
  BY <1>0, ConcatProperties
<1> HIDE DEF r
<1>2. /\ Len(s) \in Nat /\ DOMAIN s = 1 .. Len(s) /\ DOMAIN r = 1 .. 1 + Len(s)
      /\ \A i \in 1 .. Len(s) : s[i] \in S /\ s[i] \in Members(s)
  BY <1>1, LenProperties, ElementOfSeq DEF Members
<1>3. r[1] = k /\ \A i \in 2 .. 1 + Len(s) : i - 1 \in 1 .. Len(s) /\ r[i] = s[i - 1]
  BY <1>0, <1>1, <1>2
<1>4. UseOrder(r, new)
  <2> SUFFICES ASSUME NEW i \in DOMAIN r, NEW j \in DOMAIN r, i < j PROVE new[r[i]] > new[r[j]]
    BY DEF UseOrder
  <2>1. j \in 2 .. 1 + Len(s) /\ r[j] = s[j - 1] /\ j - 1 \in 1 .. Len(s)
    BY <1>2, <1>3, SMTT(30)
  <2>2. s[j - 1] \in Members(s) /\ new[s[j - 1]] = use[s[j - 1]] /\ new[k] > use[s[j - 1]]
    BY <2>1, <1>2
  <2>3. CASE i = 1
    BY <2>1, <2>2, <2>3, <1>3
  <2>4. CASE i # 1
    <3>1. r[i] = s[i - 1] /\ i - 1 \in 1 .. Len(s) /\ i - 1 < j - 1
      BY <2>4, <1>2, <1>3, SMTT(30)
    <3>2. use[s[i - 1]] > use[s[j - 1]]
      BY <3>1, <2>1, <1>2 DEF UseOrder
    <3>3. new[s[i - 1]] = use[s[i - 1]]
      BY <3>1, <1>2
    <3> QED
      BY <2>1, <2>2, <3>1, <3>2, <3>3
  <2> QED
    BY <2>3, <2>4
<1>5. \A x \in Members(r) : x \in Members(s) \cup {k}
  <2> SUFFICES ASSUME NEW i \in 1 .. 1 + Len(s) PROVE r[i] \in Members(s) \cup {k}
    BY <1>2 DEF Members
  <2>1. i = 1 \/ i \in 2 .. 1 + Len(s)
    BY <1>2
  <2> QED
    BY <2>1, <1>2, <1>3
<1>6. k \in Members(r)
  <2>1. 1 \in DOMAIN r
    BY <1>2
  <2> QED
    BY <2>1, <1>3 DEF Members
<1>7. \A x \in Members(s) : x \in Members(r)
  <2> SUFFICES ASSUME NEW i \in 1 .. Len(s) PROVE s[i] \in Members(r)
    BY <1>2 DEF Members
  <2>1. i + 1 \in 2 .. 1 + Len(s) /\ i + 1 \in DOMAIN r /\ (i + 1) - 1 = i
    BY <1>2
  <2>2. r[i + 1] = s[i]
    BY <2>1, <1>3
  <2> QED
    BY <2>1, <2>2 DEF Members
<1>8. Members(r) = Members(s) \cup {k}
  BY <1>5, <1>6, <1>7
<1>9. Len(r) = Len(s) + 1
  BY <1>1, <1>2
<1> QED
  BY <1>1, <1>4, <1>8, <1>9 DEF r

CacheInv ==
    /\ clock \in Nat /\ cacheCalls \in Nat /\ lru \in Seq(CacheKeys)
    /\ lastSet \in [CacheKeys -> [value : CacheValues \cup {"none"}, expire : Nat]]
    /\ lastUse \in [CacheKeys -> Nat] /\ \A k \in CacheKeys : lastUse[k] <= cacheCalls
    /\ \A k \in DOMAIN entries : entries[k] = lastSet[k]
    /\ CacheRight

LEMMA CacheStarts == CacheInit => CacheInv
<1> SUFFICES ASSUME CacheInit PROVE CacheInv
  OBVIOUS
<1>1. lru = <<>> /\ entries = <<>> /\ lookup = NoLookup /\ clock = 1 /\ cacheCalls = 0
  BY DEF CacheInit
<1>2. lastSet \in [CacheKeys -> [value : CacheValues \cup {"none"}, expire : Nat]]
  BY DEF CacheInit, NoEntry
<1>3. lastUse \in [CacheKeys -> Nat] /\ \A k \in CacheKeys : lastUse[k] <= cacheCalls
  BY <1>1 DEF CacheInit
<1>4. lru \in Seq(CacheKeys) /\ Len(lru) = 0 /\ DOMAIN lru = {} /\ DOMAIN entries = {}
  BY <1>1
<1>5. LruOrder
  BY <1>4, CacheAssumption DEF LruOrder
<1>6. ServesLastSet
  BY <1>1 DEF ServesLastSet, NoLookup
<1> QED
  BY <1>1, <1>2, <1>3, <1>4, <1>5, <1>6 DEF CacheInv, CacheRight

\* The list and the map have the same size: the test of set() on the one is
\* a bound on the other.
LEMMA CacheSized ==
    ASSUME CacheInv
    PROVE  Cardinality(DOMAIN entries) = Len(lru)
<1>1. /\ Len(lru) \in Nat /\ DOMAIN lru = 1 .. Len(lru)
      /\ \A i \in 1 .. Len(lru) : lru[i] \in CacheKeys /\ lastUse[lru[i]] \in Nat
  BY LenProperties, ElementOfSeq DEF CacheInv
<1>2. DOMAIN entries = {lru[i] : i \in 1 .. Len(lru)}
  BY <1>1 DEF CacheInv, CacheRight, LruOrder
<1>3. \A i, j \in 1 .. Len(lru) : i < j => lastUse[lru[i]] > lastUse[lru[j]]
  BY <1>1 DEF CacheInv, CacheRight, LruOrder
<1>4. \A i, j \in 1 .. Len(lru) : lru[i] = lru[j] => i = j
  <2> SUFFICES ASSUME NEW i \in 1 .. Len(lru), NEW j \in 1 .. Len(lru), i # j, lru[i] = lru[j] PROVE FALSE
    OBVIOUS
  <2>1. i < j \/ j < i
    OBVIOUS
  <2>2. lastUse[lru[i]] > lastUse[lru[j]] \/ lastUse[lru[j]] > lastUse[lru[i]]
    BY <2>1, <1>3
  <2>3. ~(lastUse[lru[i]] > lastUse[lru[i]])
    BY <1>1
  <2> QED
    BY <2>2, <2>3
<1> DEFINE f == [i \in 1 .. Len(lru) |-> lru[i]]
<1>5. f \in Bijection(1 .. Len(lru), DOMAIN entries)
  BY <1>2, <1>4 DEF Bijection, Injection, Surjection, IsInjective
<1>6. ExistsBijection(1 .. Len(lru), DOMAIN entries)
  BY <1>5 DEF ExistsBijection
<1> QED
  BY <1>1, <1>6, FS_CountingElements

\* iters[key] is where the key is.
LEMMA IterFinds ==
    ASSUME CacheInv, NEW k \in DOMAIN entries
    PROVE  Iter(k) \in DOMAIN lru /\ lru[Iter(k)] = k
<1>1. \E i \in DOMAIN lru : lru[i] = k
  BY DEF CacheInv, CacheRight, LruOrder
<1> QED
  BY <1>1 DEF Iter

\* What CacheInv says of the list, in the terms of the lemmas above.
LEMMA CacheList ==
    ASSUME CacheInv
    PROVE  /\ Members(lru) = DOMAIN entries /\ UseOrder(lru, lastUse)
           /\ Len(lru) \in Nat /\ Len(lru) <= MaxEntries
           /\ DOMAIN entries \subseteq CacheKeys
<1>1. /\ Len(lru) \in Nat /\ DOMAIN lru = 1 .. Len(lru)
      /\ \A i \in 1 .. Len(lru) : lru[i] \in CacheKeys
  BY LenProperties, ElementOfSeq DEF CacheInv
<1> QED
  BY <1>1 DEF CacheInv, CacheRight, LruOrder, Members, UseOrder

\* A call that uses k puts it in front of the keys s that stay.
LEMMA UseMoves ==
    ASSUME CacheInv, NEW k \in CacheKeys, Used(k), NEW s \in Seq(CacheKeys),
           UseOrder(s, lastUse), k \notin Members(s)
    PROVE  /\ cacheCalls' \in Nat /\ lastUse' \in [CacheKeys -> Nat]
           /\ \A x \in CacheKeys : lastUse'[x] <= cacheCalls'
           /\ <<k>> \o s \in Seq(CacheKeys) /\ Len(<<k>> \o s) = Len(s) + 1
           /\ Members(<<k>> \o s) = Members(s) \cup {k} /\ UseOrder(<<k>> \o s, lastUse')
<1>1. cacheCalls \in Nat /\ lastUse \in [CacheKeys -> Nat] /\ \A x \in CacheKeys : lastUse[x] <= cacheCalls
  BY DEF CacheInv
<1>2. cacheCalls' = cacheCalls + 1 /\ lastUse' = [lastUse EXCEPT ![k] = cacheCalls + 1]
  BY DEF Used
<1>3. cacheCalls' \in Nat /\ lastUse' \in [CacheKeys -> Nat]
  BY <1>1, <1>2
<1>4. \A x \in CacheKeys : lastUse'[x] <= cacheCalls'
  BY <1>1, <1>2
<1>5. \A x \in Members(s) : x \in CacheKeys
  BY LenProperties, ElementOfSeq DEF Members
<1>6. \A x \in Members(s) : lastUse'[x] = lastUse[x] /\ lastUse'[k] > lastUse[x]
  BY <1>1, <1>2, <1>5
<1> QED
  BY <1>1, <1>3, <1>4, <1>6, PushOrder, ZenonT(60)

LEMMA CacheSetKeeps ==
    ASSUME CacheInv, NEW k \in CacheKeys, NEW v \in CacheValues, NEW ttl \in TTLs, CacheSet(k, v, ttl)
    PROVE  CacheInv'
<1> DEFINE e == [value |-> v, expire |-> IF ttl > 0 THEN clock + ttl ELSE 0]
           full == Cardinality(DOMAIN entries) >= MaxEntries
<1>1. Used(k) /\ clock' = clock /\ lookup' = NoLookup /\ lastSet' = [lastSet EXCEPT ![k] = e]
  BY DEF CacheSet
<1>2. clock \in Nat /\ ttl \in Nat /\ MaxEntries \in Nat \ {0}
  BY CacheAssumption DEF CacheInv
<1>3. e \in [value : CacheValues \cup {"none"}, expire : Nat]
  BY <1>2
<1> HIDE DEF e
<1>4. /\ lastSet' \in [CacheKeys -> [value : CacheValues \cup {"none"}, expire : Nat]]
      /\ lastSet'[k] = e /\ \A x \in CacheKeys : x # k => lastSet'[x] = lastSet[x]
  BY <1>1, <1>3 DEF CacheInv
<1>5. /\ Members(lru) = DOMAIN entries /\ UseOrder(lru, lastUse) /\ lru \in Seq(CacheKeys)
      /\ Len(lru) \in Nat /\ Len(lru) <= MaxEntries /\ DOMAIN entries \subseteq CacheKeys
      /\ lastUse \in [CacheKeys -> Nat] /\ \A x \in DOMAIN entries : entries[x] = lastSet[x]
  BY CacheList DEF CacheInv
<1>6. Cardinality(DOMAIN entries) = Len(lru)
  BY CacheSized
\* s: the keys that stay behind k, old: their entries
<1>7. \E s \in Seq(CacheKeys), old \in SUBSET DOMAIN entries :
        /\ UseOrder(s, lastUse) /\ Members(s) = old \ {k} /\ k \notin Members(s) /\ Len(s) < MaxEntries /\ Len(s) \in Nat
        /\ lru' = <<k>> \o s /\ DOMAIN entries' = old \cup {k}
        /\ entries'[k] = e /\ \A x \in old \ {k} : entries'[x] = entries[x]
  <2>1. CASE k \in DOMAIN entries
    <3>1. lru' = ToFront(k) /\ entries' = SetKey(entries, k, e)
      BY <2>1 DEF CacheSet, e
    <3>2. Iter(k) \in DOMAIN lru /\ lru[Iter(k)] = k
      BY <2>1, IterFinds
    <3>3. /\ Erased(k) \in Seq(CacheKeys) /\ Len(Erased(k)) = Len(lru) - 1
          /\ Members(Erased(k)) = Members(lru) \ {k} /\ UseOrder(Erased(k), lastUse)
      BY <1>5, <3>2, EraseOrder DEF Erased
    <3>4. Len(Erased(k)) < MaxEntries /\ Len(Erased(k)) \in Nat
      BY <3>3, <1>2, <1>5, LenProperties
    <3>5. lru' = <<k>> \o Erased(k)
      BY <3>1 DEF ToFront
    <3>6. /\ DOMAIN entries' = DOMAIN entries \cup {k} /\ entries'[k] = e
          /\ \A x \in DOMAIN entries \ {k} : entries'[x] = entries[x]
      BY <3>1 DEF SetKey
    <3> QED
      BY <3>3, <3>4, <3>5, <3>6, <1>5
  <2>2. CASE k \notin DOMAIN entries /\ ~full
    <3>1. lru' = <<k>> \o lru /\ entries' = SetKey(entries, k, e)
      BY <2>2 DEF CacheSet, e
    <3>2. Len(lru) < MaxEntries
      BY <2>2, <1>2, <1>5, <1>6
    <3>3. /\ DOMAIN entries' = DOMAIN entries \cup {k} /\ entries'[k] = e
          /\ \A x \in DOMAIN entries \ {k} : entries'[x] = entries[x]
      BY <3>1 DEF SetKey
    <3>4. Members(lru) = DOMAIN entries \ {k} /\ k \notin Members(lru)
      BY <2>2, <1>5
    <3> QED
      BY <3>1, <3>2, <3>3, <3>4, <1>5
  <2>3. CASE k \notin DOMAIN entries /\ full
    <3> DEFINE z == Last(lru)
               old == DOMAIN entries \ {z}
    <3>1. lru' = <<k>> \o Front(lru) /\ entries' = SetKey(DropKey(entries, z), k, e)
      BY <2>3 DEF CacheSet, e
    <3>2. Len(lru) \in DOMAIN lru /\ z = lru[Len(lru)] /\ Len(lru) = MaxEntries
      <4>1. Len(lru) >= 1 /\ Len(lru) = MaxEntries
        BY <2>3, <1>2, <1>5, <1>6
      <4>2. DOMAIN lru = 1 .. Len(lru)
        BY <1>5, LenProperties
      <4> QED
        BY <4>1, <4>2, <1>5 DEF Last
    <3>3. Front(lru) = RemoveAt(lru, Len(lru))
      <4> DEFINE a == SubSeq(lru, 1, Len(lru) - 1)
      <4>1. SubSeq(lru, Len(lru) + 1, Len(lru)) = <<>>
        BY <1>5, SubSeqEmpty
      <4>2. \A i \in 1 .. Len(lru) - 1 : lru[i] \in CacheKeys
        BY <1>5, ElementOfSeq
      <4>3. a \in Seq(CacheKeys)
        BY <4>2, <1>5, SubSeqProperties
      <4>4. a \o <<>> = a
        BY <4>3, ConcatEmptySeq
      <4> QED
        BY <4>1, <4>4 DEF Front, RemoveAt
    <3>4. /\ Front(lru) \in Seq(CacheKeys) /\ Len(Front(lru)) = Len(lru) - 1
          /\ Members(Front(lru)) = Members(lru) \ {z} /\ UseOrder(Front(lru), lastUse)
      BY <1>5, <3>2, <3>3, EraseOrder
    <3>5. Len(Front(lru)) < MaxEntries /\ Len(Front(lru)) \in Nat
      BY <3>4, <3>2, <1>2, <1>5, LenProperties
    <3>6. /\ DOMAIN entries' = old \cup {k} /\ entries'[k] = e
          /\ \A x \in old \ {k} : entries'[x] = entries[x]
      BY <3>1 DEF SetKey, DropKey
    <3>7. old \in SUBSET DOMAIN entries /\ Members(Front(lru)) = old \ {k}
      BY <2>3, <3>4, <1>5
    <3> QED
      BY <3>1, <3>4, <3>5, <3>6, <3>7
  <2> QED
    BY <2>1, <2>2, <2>3
<1>8. PICK s \in Seq(CacheKeys), old \in SUBSET DOMAIN entries :
        /\ UseOrder(s, lastUse) /\ Members(s) = old \ {k} /\ k \notin Members(s) /\ Len(s) < MaxEntries /\ Len(s) \in Nat
        /\ lru' = <<k>> \o s /\ DOMAIN entries' = old \cup {k}
        /\ entries'[k] = e /\ \A x \in old \ {k} : entries'[x] = entries[x]
  BY <1>7
<1>9. /\ cacheCalls' \in Nat /\ lastUse' \in [CacheKeys -> Nat]
      /\ \A x \in CacheKeys : lastUse'[x] <= cacheCalls'
      /\ lru' \in Seq(CacheKeys) /\ Len(lru') = Len(s) + 1
      /\ Members(lru') = Members(s) \cup {k} /\ UseOrder(lru', lastUse')
  BY <1>1, <1>8, UseMoves
<1>10. Members(lru') = DOMAIN entries' /\ Len(lru') <= MaxEntries
  BY <1>2, <1>8, <1>9
<1>11. LruOrder'
  BY <1>9, <1>10 DEF LruOrder, Members, UseOrder
<1>12. \A x \in DOMAIN entries' : entries'[x] = lastSet'[x]
  BY <1>4, <1>5, <1>8
<1>13. ServesLastSet'
  BY <1>1 DEF ServesLastSet, NoLookup
<1> QED
  BY <1>1, <1>2, <1>4, <1>9, <1>11, <1>12, <1>13 DEF CacheInv, CacheRight

\* get() of an entry that has expired
LEMMA CacheExpireKeeps ==
    ASSUME CacheInv, NEW k \in CacheKeys, CacheExpire(k)
    PROVE  CacheInv'
<1>1. /\ k \in DOMAIN entries /\ cacheCalls' = cacheCalls + 1 /\ lru' = Erased(k)
      /\ entries' = DropKey(entries, k) /\ lookup' = [NoLookup EXCEPT !.key = k]
      /\ clock' = clock /\ lastSet' = lastSet /\ lastUse' = lastUse
  BY DEF CacheExpire
<1>2. /\ Members(lru) = DOMAIN entries /\ UseOrder(lru, lastUse) /\ lru \in Seq(CacheKeys)
      /\ Len(lru) \in Nat /\ Len(lru) <= MaxEntries /\ MaxEntries \in Nat
      /\ lastUse \in [CacheKeys -> Nat] /\ \A x \in DOMAIN entries : entries[x] = lastSet[x]
  BY CacheList, CacheAssumption DEF CacheInv
<1>3. Iter(k) \in DOMAIN lru /\ lru[Iter(k)] = k
  BY <1>1, IterFinds
<1>4. /\ lru' \in Seq(CacheKeys) /\ Len(lru') = Len(lru) - 1
      /\ Members(lru') = Members(lru) \ {k} /\ UseOrder(lru', lastUse)
  BY <1>1, <1>2, <1>3, EraseOrder DEF Erased
<1>5. /\ DOMAIN entries' = DOMAIN entries \ {k}
      /\ \A x \in DOMAIN entries \ {k} : entries'[x] = entries[x]
  BY <1>1 DEF DropKey
<1>6. Members(lru') = DOMAIN entries' /\ Len(lru') <= MaxEntries /\ UseOrder(lru', lastUse')
  BY <1>1, <1>2, <1>4, <1>5
<1>7. LruOrder'
  BY <1>6 DEF LruOrder, Members, UseOrder
<1>8. ServesLastSet'
  BY <1>1 DEF ServesLastSet, NoLookup
<1>9. cacheCalls' \in Nat /\ \A x \in CacheKeys : lastUse'[x] <= cacheCalls'
  BY <1>1 DEF CacheInv
<1>10. \A x \in DOMAIN entries' : entries'[x] = lastSet'[x]
  BY <1>1, <1>2, <1>5
<1> QED
  BY <1>1, <1>4, <1>7, <1>8, <1>9, <1>10 DEF CacheInv, CacheRight

LEMMA CacheHitKeeps ==
    ASSUME CacheInv, NEW k \in CacheKeys, CacheHit(k)
    PROVE  CacheInv'
<1>1. /\ k \in DOMAIN entries /\ ~Expired(entries[k]) /\ Used(k) /\ lru' = <<k>> \o Erased(k)
      /\ lookup' = [key |-> k, hit |-> TRUE, value |-> entries[k].value,
                    remain |-> IF entries[k].expire > 0 THEN entries[k].expire - clock ELSE 0]
      /\ clock' = clock /\ lastSet' = lastSet /\ entries' = entries
  BY DEF CacheHit, ToFront
<1>2. /\ Members(lru) = DOMAIN entries /\ UseOrder(lru, lastUse) /\ lru \in Seq(CacheKeys)
      /\ Len(lru) \in Nat /\ Len(lru) <= MaxEntries /\ lastUse \in [CacheKeys -> Nat]
  BY CacheList DEF CacheInv
<1>3. Iter(k) \in DOMAIN lru /\ lru[Iter(k)] = k
  BY <1>1, IterFinds
<1>4. /\ Erased(k) \in Seq(CacheKeys) /\ Len(Erased(k)) = Len(lru) - 1
      /\ Members(Erased(k)) = Members(lru) \ {k} /\ UseOrder(Erased(k), lastUse)
  BY <1>2, <1>3, EraseOrder DEF Erased
<1>5. k \notin Members(Erased(k))
  BY <1>4
<1>6. /\ cacheCalls' \in Nat /\ lastUse' \in [CacheKeys -> Nat]
      /\ \A x \in CacheKeys : lastUse'[x] <= cacheCalls'
      /\ lru' \in Seq(CacheKeys) /\ Len(lru') = Len(Erased(k)) + 1
      /\ Members(lru') = Members(Erased(k)) \cup {k} /\ UseOrder(lru', lastUse')
  BY <1>1, <1>4, <1>5, UseMoves
<1>7. Members(lru') = DOMAIN entries' /\ Len(lru') = Len(lru)
  <2>1. k \in DOMAIN entries /\ entries' = entries
    BY <1>1
  <2>2. Members(lru') = DOMAIN entries'
    BY <2>1, <1>2, <1>4, <1>6
  <2>3. Len(lru') = Len(lru)
    BY <1>2, <1>4, <1>6
  <2> QED
    BY <2>2, <2>3
<1>8. LruOrder'
  BY <1>2, <1>6, <1>7 DEF LruOrder, Members, UseOrder
<1>9. ServesLastSet'
  <2> DEFINE x == lastSet[k].expire
  <2>1. entries[k] = lastSet[k] /\ x \in Nat /\ clock \in Nat
    BY <1>1 DEF CacheInv
  <2>2. x = 0 \/ clock < x
    BY <2>1, <1>1 DEF Expired
  <2>3. (IF x > 0 THEN x - clock ELSE 0) > 0 <=> x > 0
    BY <2>1, <2>2
  <2>4. /\ lookup'.key = k /\ lookup'.value = lastSet[k].value
        /\ lookup'.remain = IF x > 0 THEN x - clock ELSE 0
    BY <1>1, <2>1
  <2> HIDE DEF x
  <2>5. lookup'.remain > 0 <=> x > 0
    BY <2>3, <2>4
  <2> QED
    BY <1>1, <2>2, <2>4, <2>5 DEF ServesLastSet, x
<1>10. /\ clock' \in Nat /\ lastSet' \in [CacheKeys -> [value : CacheValues \cup {"none"}, expire : Nat]]
       /\ \A x \in DOMAIN entries' : entries'[x] = lastSet'[x]
  <2>1. clock' = clock /\ lastSet' = lastSet /\ entries' = entries
    BY <1>1
  <2> QED
    BY <2>1 DEF CacheInv
<1> QED
  BY <1>6, <1>8, <1>9, <1>10 DEF CacheInv, CacheRight

LEMMA CacheSteps == CacheInv /\ [CacheNext]_cacheVars => CacheInv'
<1> SUFFICES ASSUME CacheInv, [CacheNext]_cacheVars PROVE CacheInv'
  OBVIOUS
<1>1. CASE CacheTick
  <2>1. /\ clock' \in Nat /\ lookup' = NoLookup /\ lru' = lru /\ entries' = entries
        /\ lastSet' = lastSet /\ lastUse' = lastUse /\ cacheCalls' = cacheCalls
    BY <1>1 DEF CacheTick, CacheInv
  <2>2. ServesLastSet'
    BY <2>1 DEF ServesLastSet, NoLookup
  <2> QED
    BY <2>1, <2>2 DEF CacheInv, CacheRight, LruOrder
<1>2. CASE \E k \in CacheKeys : CacheMiss(k)
  <2> PICK k \in CacheKeys : CacheMiss(k)
    BY <1>2
  <2>1. /\ clock' = clock /\ lookup' = [NoLookup EXCEPT !.key = k] /\ lru' = lru /\ entries' = entries
        /\ lastSet' = lastSet /\ lastUse' = lastUse /\ cacheCalls' = cacheCalls + 1
    BY DEF CacheMiss
  <2>2. ServesLastSet'
    BY <2>1 DEF ServesLastSet, NoLookup
  <2>3. cacheCalls' \in Nat /\ \A x \in CacheKeys : lastUse'[x] <= cacheCalls'
    BY <2>1 DEF CacheInv
  <2> QED
    BY <2>1, <2>2, <2>3 DEF CacheInv, CacheRight, LruOrder
<1>3. CASE UNCHANGED cacheVars
  <2>1. /\ clock' = clock /\ lookup' = lookup /\ lru' = lru /\ entries' = entries
        /\ lastSet' = lastSet /\ lastUse' = lastUse /\ cacheCalls' = cacheCalls
    BY <1>3 DEF cacheVars
  <2> QED
    BY <2>1 DEF CacheInv, CacheRight, LruOrder, ServesLastSet
<1>4. CASE \E k \in CacheKeys, v \in CacheValues, ttl \in TTLs : CacheSet(k, v, ttl)
  BY <1>4, CacheSetKeeps
<1>5. CASE \E k \in CacheKeys : CacheExpire(k)
  BY <1>5, CacheExpireKeeps
<1>6. CASE \E k \in CacheKeys : CacheHit(k)
  BY <1>6, CacheHitKeeps
<1> QED
  BY <1>1, <1>2, <1>3, <1>4, <1>5, <1>6 DEF CacheNext

(***************************************************************************)
(* lru_cache_t, for any keys, size, times-to-live and number of calls:     *)
(* the list is the keys of the map in the order of their last use, so that *)
(* set() evicts the key not used for longest and never from an empty list, *)
(* and get() returns the value of the last set(), never an expired one.    *)
(***************************************************************************)
THEOREM CacheKept == CacheSpec => []CacheRight
<1>1. CacheInv => CacheRight
  BY DEF CacheInv
<1> QED
  BY <1>1, CacheStarts, CacheSteps, PTL DEF CacheSpec

-----------------------------------------------------------------------------
(* Sockets                                                                   *)

\* Where a call is says what it holds; a call on its way out has its result;
\* and what is asked for fits into the body.
SocketInv ==
    /\ misuse = FALSE /\ body \in Nat /\ body <= MaxBody
    /\ at = "read" => want \in Nat /\ body + want <= MaxBody
    /\ at \in {"cleanup", "freeaddrinfo", "close", "closeSession", "closeConnection", "closeRequest", "return"}
         => outcome # ""
    /\ \/ at \in {"begin", "return"} /\ held = <<>>
       \/ at \in {"resolve", "cleanup"} /\ held = <<"wsa">>
       \/ at \in {"socket", "freeaddrinfo"} /\ held = <<"wsa", "addrinfo">>
       \/ at \in {"sendto", "recvfrom", "close"} /\ held = <<"wsa", "addrinfo", "socket">>
       \/ at \in {"connect", "closeSession"} /\ held = <<"session">>
       \/ at \in {"request", "closeConnection"} /\ held = <<"session", "connection">>
       \/ at \in {"send", "available", "read", "closeRequest"} /\ held = <<"session", "connection", "request">>

\* Short sequences are their elements.
LEMMA ShortSeq ==
    ASSUME NEW S, NEW s \in Seq(S)
    PROVE  /\ Len(s) = 1 => s = <<s[1]>>
           /\ Len(s) = 2 => s = <<s[1], s[2]>>
           /\ Len(s) = 3 => s = <<s[1], s[2], s[3]>>
<1>0. \A i \in 1 .. Len(s) : s[i] \in S
  BY ElementOfSeq
<1>1. ASSUME Len(s) = 1 PROVE s = <<s[1]>>
  <2> DEFINE t == <<s[1]>>
  <2>1. t \in Seq(S) /\ Len(t) = 1 /\ t[1] = s[1]
    BY <1>0, <1>1
  <2> HIDE DEF t
  <2>2. s = t
    BY <1>1, <2>1, SeqEqual
  <2> QED
    BY <2>2 DEF t
<1>2. ASSUME Len(s) = 2 PROVE s = <<s[1], s[2]>>
  <2> DEFINE t == <<s[1], s[2]>>
  <2>1. t \in Seq(S) /\ Len(t) = 2 /\ t[1] = s[1] /\ t[2] = s[2]
    BY <1>0, <1>2
  <2> HIDE DEF t
  <2>2. \A i \in 1 .. Len(s) : s[i] = t[i]
    BY <1>2, <2>1
  <2>3. s = t
    BY <1>2, <2>1, <2>2, SeqEqual
  <2> QED
    BY <2>3 DEF t
<1>3. ASSUME Len(s) = 3 PROVE s = <<s[1], s[2], s[3]>>
  <2> DEFINE t == <<s[1], s[2], s[3]>>
  <2>1. t \in Seq(S) /\ Len(t) = 3 /\ t[1] = s[1] /\ t[2] = s[2] /\ t[3] = s[3]
    BY <1>0, <1>3
  <2> HIDE DEF t
  <2>2. \A i \in 1 .. Len(s) : s[i] = t[i]
    BY <1>3, <2>1
  <2>3. s = t
    BY <1>3, <2>1, <2>2, SeqEqual
  <2> QED
    BY <2>3 DEF t
<1> QED
  BY <1>1, <1>2, <1>3

\* The last resource given back, for each stack that a call may hold.
LEMMA GivesBack ==
    ASSUME NEW r, NEW q, NEW p, NEW onward, misuse = FALSE
    PROVE  /\ held = <<r>> /\ GiveBack(r, onward) => held' = <<>> /\ misuse' = FALSE /\ at' = onward
           /\ held = <<q, r>> /\ GiveBack(r, onward) => held' = <<q>> /\ misuse' = FALSE /\ at' = onward
           /\ held = <<p, q, r>> /\ GiveBack(r, onward) => held' = <<p, q>> /\ misuse' = FALSE /\ at' = onward
<1>1. ASSUME held = <<r>>, GiveBack(r, onward) PROVE held' = <<>> /\ misuse' = FALSE /\ at' = onward
  <2>1. held # <<>> /\ Len(held) = 1 /\ held[Len(held)] = r
    BY <1>1
  <2>2. SubSeq(held, 1, Len(held) - 1) = <<>>
    BY <2>1, SubSeqEmpty
  <2> QED
    BY <1>1, <2>1, <2>2 DEF GiveBack
<1>2. ASSUME held = <<q, r>>, GiveBack(r, onward) PROVE held' = <<q>> /\ misuse' = FALSE /\ at' = onward
  <2>1. held # <<>> /\ Len(held) = 2 /\ held[Len(held)] = r
    BY <1>2
  <2>2. SubSeq(held, 1, 1) = <<q>>
    <3>1. /\ SubSeq(held, 1, 1) \in Seq({q, r}) /\ Len(SubSeq(held, 1, 1)) = 1
          /\ SubSeq(held, 1, 1)[1] = held[1]
      <4>1. \A i \in 1 .. 1 : held[i] \in {q, r}
        BY <1>2
      <4>2. /\ SubSeq(held, 1, 1) \in Seq({q, r}) /\ Len(SubSeq(held, 1, 1)) = IF 1 <= 1 THEN 1 - 1 + 1 ELSE 0
            /\ \A i \in 1 .. 1 - 1 + 1 : SubSeq(held, 1, 1)[i] = held[1 + i - 1]
        BY <4>1, SubSeqProperties
      <4> QED
        BY <4>2
    <3>2. held[1] = q
      BY <1>2
    <3> QED
      BY <3>1, <3>2, ShortSeq
  <2>3. SubSeq(held, 1, Len(held) - 1) = <<q>>
    BY <2>1, <2>2
  <2> QED
    BY <1>2, <2>1, <2>3 DEF GiveBack
<1>3. ASSUME held = <<p, q, r>>, GiveBack(r, onward) PROVE held' = <<p, q>> /\ misuse' = FALSE /\ at' = onward
  <2>1. held # <<>> /\ Len(held) = 3 /\ held[Len(held)] = r
    BY <1>3
  <2>2. SubSeq(held, 1, 2) = <<p, q>>
    <3>1. /\ SubSeq(held, 1, 2) \in Seq({p, q, r}) /\ Len(SubSeq(held, 1, 2)) = 2
          /\ SubSeq(held, 1, 2)[1] = held[1] /\ SubSeq(held, 1, 2)[2] = held[2]
      <4>1. \A i \in 1 .. 2 : held[i] \in {p, q, r}
        BY <1>3
      <4>2. /\ SubSeq(held, 1, 2) \in Seq({p, q, r}) /\ Len(SubSeq(held, 1, 2)) = IF 1 <= 2 THEN 2 - 1 + 1 ELSE 0
            /\ \A i \in 1 .. 2 - 1 + 1 : SubSeq(held, 1, 2)[i] = held[1 + i - 1]
        BY <4>1, SubSeqProperties
      <4> QED
        BY <4>2
    <3>2. held[1] = p /\ held[2] = q
      BY <1>3
    <3> QED
      BY <3>1, <3>2, ShortSeq
  <2>3. SubSeq(held, 1, Len(held) - 1) = <<p, q>>
    BY <2>1, <2>2
  <2> QED
    BY <1>3, <2>1, <2>3 DEF GiveBack
<1> QED
  BY <1>1, <1>2, <1>3

LEMMA Acquires ==
    ASSUME NEW r, NEW q, NEW p, NEW onward
    PROVE  /\ Acquire(r, onward) => at' = onward /\ held' = Append(held, r) /\ UNCHANGED <<misuse, body>>
           /\ Append(<<>>, r) = <<r>> /\ Append(<<q>>, r) = <<q, r>> /\ Append(<<p, q>>, r) = <<p, q, r>>
<1> DEFINE S == {p, q, r}
<1>1. Acquire(r, onward) => at' = onward /\ held' = Append(held, r) /\ UNCHANGED <<misuse, body>>
  BY DEF Acquire
<1>2. ASSUME NEW s \in Seq(S)
      PROVE  /\ Append(s, r) \in Seq(S) /\ Len(Append(s, r)) = Len(s) + 1
             /\ \A i \in 1 .. Len(s) : Append(s, r)[i] = s[i]
             /\ Append(s, r)[Len(s) + 1] = r
  BY AppendProperties
<1>3. Append(<<>>, r) = <<r>>
  BY <1>2, ShortSeq
<1>4. Append(<<q>>, r) = <<q, r>>
  <2> DEFINE s == <<q>>
  <2>1. s \in Seq(S) /\ Len(s) = 1 /\ s[1] = q
    OBVIOUS
  <2> HIDE DEF s
  <2>2. Append(s, r) \in Seq(S) /\ Len(Append(s, r)) = 2 /\ Append(s, r)[1] = q /\ Append(s, r)[2] = r
    <3> DEFINE t == Append(s, r)
    <3>1. t \in Seq(S) /\ Len(t) = Len(s) + 1 /\ (\A i \in 1 .. Len(s) : t[i] = s[i]) /\ t[Len(s) + 1] = r
      BY <1>2, <2>1
    <3> HIDE DEF t
    <3>2. t \in Seq(S) /\ Len(t) = 2 /\ t[1] = q /\ t[2] = r
      BY <2>1, <3>1
    <3> QED
      BY <3>2 DEF t
  <2> QED
    BY <2>2, ShortSeq DEF s
<1>5. Append(<<p, q>>, r) = <<p, q, r>>
  <2> DEFINE s == <<p, q>>
  <2>1. s \in Seq(S) /\ Len(s) = 2 /\ s[1] = p /\ s[2] = q
    OBVIOUS
  <2> HIDE DEF s
  <2>2. /\ Append(s, r) \in Seq(S) /\ Len(Append(s, r)) = 3
        /\ Append(s, r)[1] = p /\ Append(s, r)[2] = q /\ Append(s, r)[3] = r
    <3> DEFINE t == Append(s, r)
    <3>1. t \in Seq(S) /\ Len(t) = Len(s) + 1 /\ (\A i \in 1 .. Len(s) : t[i] = s[i]) /\ t[Len(s) + 1] = r
      BY <1>2, <2>1
    <3> HIDE DEF t
    <3>2. t \in Seq(S) /\ Len(t) = 3 /\ t[1] = p /\ t[2] = q /\ t[3] = r
      BY <2>1, <3>1
    <3> QED
      BY <3>2 DEF t
  <2> QED
    BY <2>2, ShortSeq DEF s
<1> QED
  BY <1>1, <1>3, <1>4, <1>5

LEMMA SocketSteps == SocketInv /\ [SocketNext]_socketVars => SocketInv'
<1> SUFFICES ASSUME SocketInv, [SocketNext]_socketVars PROVE SocketInv'
  OBVIOUS
<1>1. CASE SocketCall
  BY <1>1 DEF SocketCall, SocketInv
<1>2. CASE BeginUdp
  <2>1. CASE at = "begin"
    <3>1. held = <<>>
      BY <2>1 DEF SocketInv
    <3>2. CASE Fail("arguments", "return") \/ Fail("WSAStartup", "return")
      BY <2>1, <3>1, <3>2 DEF Fail, SocketInv
    <3>3. CASE Acquire("wsa", "resolve")
      <4>1. held' = <<"wsa">> /\ at' = "resolve" /\ UNCHANGED <<misuse, body>>
        BY <3>1, <3>3, Acquires
      <4> QED
        BY <4>1 DEF SocketInv
    <3> QED
      BY <1>2, <2>1, <3>2, <3>3 DEF BeginUdp
  <2>2. CASE at = "resolve"
    <3>1. held = <<"wsa">>
      BY <2>2 DEF SocketInv
    <3>2. CASE Fail("getaddrinfo", "cleanup")
      BY <2>2, <3>1, <3>2 DEF Fail, SocketInv
    <3>3. CASE Acquire("addrinfo", "socket")
      <4>1. held' = <<"wsa", "addrinfo">> /\ at' = "socket" /\ UNCHANGED <<misuse, body>>
        BY <3>1, <3>3, Acquires DEF Acquire
      <4> QED
        BY <4>1 DEF SocketInv
    <3> QED
      BY <1>2, <2>2, <3>2, <3>3 DEF BeginUdp
  <2>3. CASE at = "socket"
    <3>1. held = <<"wsa", "addrinfo">>
      BY <2>3 DEF SocketInv
    <3>2. CASE Fail("socket", "freeaddrinfo")
      BY <2>3, <3>1, <3>2 DEF Fail, SocketInv
    <3>3. CASE Acquire("socket", "sendto")
      <4>1. held' = <<"wsa", "addrinfo", "socket">> /\ at' = "sendto" /\ UNCHANGED <<misuse, body>>
        BY <3>1, <3>3, Acquires DEF Acquire
      <4> QED
        BY <4>1 DEF SocketInv
    <3> QED
      BY <1>2, <2>3, <3>2, <3>3 DEF BeginUdp
  <2> QED
    BY <1>2, <2>1, <2>2, <2>3 DEF BeginUdp
<1>3. CASE SendTo
  BY <1>3 DEF SendTo, Fail, SocketInv
<1>4. CASE RecvFrom
  BY <1>4 DEF RecvFrom, Fail, SocketInv
<1>5. CASE BeginHttp
  <2>1. CASE at = "begin"
    <3>1. held = <<>>
      BY <2>1 DEF SocketInv
    <3>2. CASE Fail("open", "return")
      BY <2>1, <3>1, <3>2 DEF Fail, SocketInv
    <3>3. CASE Acquire("session", "connect")
      <4>1. held' = <<"session">> /\ at' = "connect" /\ UNCHANGED <<misuse, body>>
        BY <3>1, <3>3, Acquires
      <4> QED
        BY <4>1 DEF SocketInv
    <3> QED
      BY <1>5, <2>1, <3>2, <3>3 DEF BeginHttp
  <2>2. CASE at = "connect"
    <3>1. held = <<"session">>
      BY <2>2 DEF SocketInv
    <3>2. CASE Fail("connect", "closeSession")
      BY <2>2, <3>1, <3>2 DEF Fail, SocketInv
    <3>3. CASE Acquire("connection", "request")
      <4>1. held' = <<"session", "connection">> /\ at' = "request" /\ UNCHANGED <<misuse, body>>
        BY <3>1, <3>3, Acquires DEF Acquire
      <4> QED
        BY <4>1 DEF SocketInv
    <3> QED
      BY <1>5, <2>2, <3>2, <3>3 DEF BeginHttp
  <2>3. CASE at = "request"
    <3>1. held = <<"session", "connection">>
      BY <2>3 DEF SocketInv
    <3>2. CASE Fail("request", "closeConnection")
      BY <2>3, <3>1, <3>2 DEF Fail, SocketInv
    <3>3. CASE Acquire("request", "send")
      <4>1. held' = <<"session", "connection", "request">> /\ at' = "send" /\ UNCHANGED <<misuse, body>>
        BY <3>1, <3>3, Acquires DEF Acquire
      <4> QED
        BY <4>1 DEF SocketInv
    <3> QED
      BY <1>5, <2>3, <3>2, <3>3 DEF BeginHttp
  <2>4. CASE at = "send"
    BY <1>5, <2>4 DEF BeginHttp, Fail, SocketInv
  <2> QED
    BY <1>5, <2>1, <2>2, <2>3, <2>4 DEF BeginHttp
<1>6. CASE ReleaseUdp
  <2>1. body' = body /\ want' = want /\ outcome' = outcome
    BY <1>6 DEF ReleaseUdp
  <2>2. CASE at = "close" /\ GiveBack("socket", "freeaddrinfo")
    <3>1. held = <<"wsa", "addrinfo", "socket">> /\ misuse = FALSE
      BY <2>2 DEF SocketInv
    <3>2. held' = <<"wsa", "addrinfo">> /\ misuse' = FALSE /\ at' = "freeaddrinfo"
      BY <2>2, <3>1, GivesBack
    <3> QED
      BY <2>1, <2>2, <3>2 DEF SocketInv
  <2>3. CASE at = "freeaddrinfo" /\ GiveBack("addrinfo", "cleanup")
    <3>1. held = <<"wsa", "addrinfo">> /\ misuse = FALSE
      BY <2>3 DEF SocketInv
    <3>2. held' = <<"wsa">> /\ misuse' = FALSE /\ at' = "cleanup"
      BY <2>3, <3>1, GivesBack
    <3> QED
      BY <2>1, <2>3, <3>2 DEF SocketInv
  <2>4. CASE at = "cleanup" /\ GiveBack("wsa", "return")
    <3>1. held = <<"wsa">> /\ misuse = FALSE
      BY <2>4 DEF SocketInv
    <3>2. held' = <<>> /\ misuse' = FALSE /\ at' = "return"
      BY <2>4, <3>1, GivesBack
    <3> QED
      BY <2>1, <2>4, <3>2 DEF SocketInv
  <2> QED
    BY <1>6, <2>2, <2>3, <2>4 DEF ReleaseUdp
<1>7. CASE ReleaseHttp
  <2>1. body' = body /\ want' = want /\ outcome' = outcome
    BY <1>7 DEF ReleaseHttp
  <2>2. CASE at = "closeRequest" /\ GiveBack("request", "closeConnection")
    <3>1. held = <<"session", "connection", "request">> /\ misuse = FALSE
      BY <2>2 DEF SocketInv
    <3>2. held' = <<"session", "connection">> /\ misuse' = FALSE /\ at' = "closeConnection"
      BY <2>2, <3>1, GivesBack
    <3> QED
      BY <2>1, <2>2, <3>2 DEF SocketInv
  <2>3. CASE at = "closeConnection" /\ GiveBack("connection", "closeSession")
    <3>1. held = <<"session", "connection">> /\ misuse = FALSE
      BY <2>3 DEF SocketInv
    <3>2. held' = <<"session">> /\ misuse' = FALSE /\ at' = "closeSession"
      BY <2>3, <3>1, GivesBack
    <3> QED
      BY <2>1, <2>3, <3>2 DEF SocketInv
  <2>4. CASE at = "closeSession" /\ GiveBack("session", "return")
    <3>1. held = <<"session">> /\ misuse = FALSE
      BY <2>4 DEF SocketInv
    <3>2. held' = <<>> /\ misuse' = FALSE /\ at' = "return"
      BY <2>4, <3>1, GivesBack
    <3> QED
      BY <2>1, <2>4, <3>2 DEF SocketInv
  <2> QED
    BY <1>7, <2>2, <2>3, <2>4 DEF ReleaseHttp
<1>8. CASE Available
  <2>0. at = "available" /\ body \in Nat /\ body <= MaxBody /\ MaxBody \in Nat
    BY <1>8, SocketAssumption DEF Available, SocketInv
  <2>1. CASE Fail("ok", "closeRequest")
    BY <2>0, <2>1 DEF Fail, SocketInv
  <2>2. ASSUME NEW n \in Arrivals, want' = Wanted(n), at' = IF Wanted(n) = 0 THEN "closeRequest" ELSE "read",
               outcome' = IF Wanted(n) = 0 THEN "ok" ELSE outcome, UNCHANGED <<op, held, misuse, body>>
        PROVE  SocketInv'
    <3>1. Wanted(n) \in Nat /\ body + Wanted(n) <= MaxBody
      BY <2>0, SocketAssumption DEF Wanted
    <3>2. want' \in Nat /\ body' + want' <= MaxBody
      BY <2>2, <3>1
    <3> QED
      BY <2>0, <2>2, <3>2 DEF SocketInv
  <2> QED
    BY <1>8, <2>1, <2>2 DEF Available
<1>9. CASE ReadData
  <2>0. at = "read" /\ body \in Nat /\ want \in Nat /\ body + want <= MaxBody /\ MaxBody \in Nat
    BY <1>9, SocketAssumption DEF ReadData, SocketInv
  <2>1. CASE Fail("ok", "closeRequest")
    BY <2>0, <2>1 DEF Fail, SocketInv
  <2>2. ASSUME NEW n \in 1 .. want, body' = body + n,
               IF body + n >= MaxBody THEN at' = "closeRequest" /\ outcome' = "ok"
               ELSE at' = "available" /\ UNCHANGED outcome,
               UNCHANGED <<op, held, misuse, want>>
        PROVE  SocketInv'
    <3>1. body' \in Nat /\ body' <= MaxBody
      BY <2>0, <2>2
    <3>2. at' = "available" \/ (at' = "closeRequest" /\ outcome' = "ok")
      BY <2>2
    <3> QED
      BY <2>0, <2>2, <3>1, <3>2 DEF SocketInv
  <2> QED
    BY <1>9, <2>1, <2>2 DEF ReadData
<1>10. CASE UNCHANGED socketVars
  BY <1>10 DEF socketVars, SocketInv
<1> QED
  BY <1>1, <1>2, <1>3, <1>4, <1>5, <1>6, <1>7, <1>8, <1>9, <1>10 DEF SocketNext

LEMMA SocketsKept == SocketSpec => [](NothingLeaks /\ BodyBounded)
<1>1. SocketInit => SocketInv
  <2> SUFFICES ASSUME SocketInit PROVE SocketInv
    OBVIOUS
  <2>1. body = 0 /\ at = "begin" /\ held = <<>> /\ misuse = FALSE
    BY DEF SocketInit
  <2>2. body \in Nat /\ body <= MaxBody
    BY <2>1, SocketAssumption
  <2> QED
    BY <2>1, <2>2 DEF SocketInv
<1>2. SocketInv => NothingLeaks /\ BodyBounded
  <2> SUFFICES ASSUME SocketInv PROVE NothingLeaks /\ BodyBounded
    OBVIOUS
  <2>0. misuse = FALSE /\ (at = "return" => held = <<>> /\ outcome # "")
    BY DEF SocketInv
  <2>1. NothingLeaks
    BY <2>0 DEF NothingLeaks
  <2>2. BodyBounded
    <3>1. CASE at = "read"
      BY <3>1 DEF SocketInv, BodyBounded
    <3>2. CASE at # "read"
      <4>1. body \in Nat /\ body <= MaxBody
        BY DEF SocketInv
      <4>2. body + 0 = body
        BY <4>1
      <4> QED
        BY <3>2, <4>1, <4>2 DEF BodyBounded
    <3> QED
      BY <3>1, <3>2
  <2> QED
    BY <2>1, <2>2
<1> QED
  BY <1>1, <1>2, SocketSteps, PTL DEF SocketSpec

-----------------------------------------------------------------------------
(* FanIn                                                                     *)

\* URLs of the fetch or rows of the image.
ItemCount == IF fan = "fetch" THEN Len(urls) ELSE height

\* Item i is to be found in a task, or its result needs none.
Settled(i) ==
    \/ \E k \in DOMAIN tasks : tasks[k] = i
    \/ fan = "fetch" /\ ~urls[i] /\ results[i] = <<"error", i>>
    \/ fan = "mandelbrot" /\ results[i] = <<"row", i>>

\* tasks only has items that need one; the tasks awaited so far are over and
\* their results in place; rows are written by the tasks themselves.
FanInv ==
    /\ fan \in {"none", "fetch", "mandelbrot"} /\ urls \in Seq(BOOLEAN) /\ height \in Nat
    /\ fpc \in {"queue", "await", "encode", "end"}
    /\ nextItem \in Nat \ {0} /\ tasks \in Seq(Nat) /\ ready \subseteq DOMAIN tasks
    /\ DOMAIN results = 1 .. ItemCount /\ Len(results) = ItemCount
    /\ fan = "none" => tasks = <<>> /\ fpc = "end" /\ nextItem = 1
    /\ fpc = "encode" => fan = "mandelbrot"
    /\ \A k \in DOMAIN tasks : tasks[k] \in 1 .. ItemCount /\ (fan = "fetch" => urls[tasks[k]])
    /\ fan = "mandelbrot" => \A k \in DOMAIN tasks : k \in ready => results[tasks[k]] = <<"row", tasks[k]>>
    /\ fpc = "queue" => \A i \in 1 .. ItemCount : i < nextItem => Settled(i)
    /\ fpc = "await" => /\ \A i \in 1 .. ItemCount : Settled(i)
                        /\ \A k \in DOMAIN tasks : k < nextItem =>
                             /\ k \in ready
                             /\ fan = "fetch" => results[tasks[k]] = <<"body", tasks[k]>>
    /\ fpc = "encode" => \A i \in 1 .. height : results[i] = <<"row", i>>
    /\ EntriesInPlace /\ ImageComplete

LEMMA FanStarts == FanInit => FanInv
<1> SUFFICES ASSUME FanInit PROVE FanInv
  OBVIOUS
<1>1. /\ fan = "none" /\ urls = <<>> /\ height = 0 /\ fpc = "end" /\ nextItem = 1 /\ tasks = <<>>
      /\ results = <<>>
  BY DEF FanInit
<1>2. urls \in Seq(BOOLEAN) /\ tasks \in Seq(Nat) /\ DOMAIN tasks = {} /\ ItemCount = 0
  BY <1>1 DEF ItemCount
<1>3. DOMAIN results = 1 .. ItemCount /\ Len(results) = ItemCount
  BY <1>1, <1>2
<1> QED
  BY <1>1, <1>2, <1>3 DEF FanInit, FanInv, EntriesInPlace, ImageComplete

\* The length of a function on 1 .. n.
LEMMA LenFcn ==
    ASSUME NEW n \in Nat, NEW f, DOMAIN f = 1 .. n, NEW S, f \in [1 .. n -> S]
    PROVE  f \in Seq(S) /\ Len(f) = n
  BY IsASeq, LenProperties

LEMMA FetchKeeps == ASSUME FanInv, Fetch PROVE FanInv'
<1>1. /\ fan = "none" /\ fan' = "fetch" /\ height' = height /\ nextItem' = nextItem /\ tasks' = tasks
      /\ ready' = ready /\ results' = [i \in DOMAIN urls' |-> <<>>]
      /\ fpc' = IF urls' = <<>> THEN "end" ELSE "queue"
  BY DEF Fetch
<1>2. PICK n \in 0 .. MaxUrls : urls' \in [1 .. n -> BOOLEAN]
  BY DEF Fetch
<1>3. n \in Nat
  OBVIOUS
<1>4. urls' \in Seq(BOOLEAN) /\ Len(urls') = n /\ DOMAIN urls' = 1 .. n
  BY <1>2, <1>3, LenFcn
<1>5. DOMAIN results' = 1 .. n /\ Len(results') = n
  <2>1. results' \in [1 .. n -> {<<>>}]
    BY <1>1, <1>4
  <2> QED
    BY <2>1, <1>3, LenFcn
<1>6. tasks = <<>> /\ nextItem = 1 /\ DOMAIN tasks = {} /\ height \in Nat /\ tasks \in Seq(Nat) /\ ready = {}
  BY <1>1 DEF FanInv
<1>7. ItemCount' = n
  BY <1>1, <1>4 DEF ItemCount
<1>8. fpc' = "queue" \/ (fpc' = "end" /\ n = 0)
  <2>1. urls' = <<>> => n = 0
    BY <1>4
  <2> QED
    BY <1>1, <2>1
<1>9. EntriesInPlace'
  BY <1>1, <1>4, <1>8 DEF EntriesInPlace
<1> QED
  BY <1>1, <1>3, <1>4, <1>5, <1>6, <1>7, <1>8, <1>9 DEF FanInv, ImageComplete

LEMMA MandelbrotKeeps == ASSUME FanInv, Mandelbrot PROVE FanInv'
<1>1. /\ fan = "none" /\ fan' = "mandelbrot" /\ urls' = urls /\ nextItem' = nextItem /\ tasks' = tasks
      /\ ready' = ready /\ results' = [i \in 1 .. height' |-> <<>>] /\ fpc' = "queue"
      /\ height' \in 1 .. MaxRows
  BY DEF Mandelbrot
<1>2. height' \in Nat /\ ItemCount' = height'
  BY <1>1 DEF ItemCount
<1>3. DOMAIN results' = 1 .. height' /\ Len(results') = height'
  <2>1. results' \in [1 .. height' -> {<<>>}]
    BY <1>1
  <2> QED
    BY <2>1, <1>2, LenFcn
<1>4. tasks = <<>> /\ nextItem = 1 /\ DOMAIN tasks = {} /\ tasks \in Seq(Nat) /\ urls \in Seq(BOOLEAN) /\ ready = {}
  BY <1>1 DEF FanInv
<1> QED
  BY <1>1, <1>2, <1>3, <1>4 DEF FanInv, ImageComplete, EntriesInPlace

\* What is settled stays so while tasks are appended and its result is kept.
LEMMA SettledStays ==
    ASSUME NEW i, Settled(i), fan' = fan, urls' = urls, results'[i] = results[i],
           \A k \in DOMAIN tasks : k \in DOMAIN tasks' /\ tasks'[k] = tasks[k]
    PROVE  Settled(i)'
  BY DEF Settled

\* A step of the queueing loop: an item becomes a task or has its result.
LEMMA QueueKeeps ==
    ASSUME FanInv, fan # "none", fpc = "queue", nextItem \in 1 .. ItemCount,
           fan' = fan, urls' = urls, height' = height, fpc' = fpc, ready' = ready,
           nextItem' = nextItem + 1,
           \/ /\ tasks' = Append(tasks, nextItem) /\ results' = results
              /\ fan = "fetch" => urls[nextItem]
           \/ /\ fan = "fetch" /\ ~urls[nextItem] /\ tasks' = tasks
              /\ results' = [results EXCEPT ![nextItem] = <<"error", nextItem>>]
           \/ /\ fan = "mandelbrot" /\ tasks' = tasks
              /\ results' = [results EXCEPT ![nextItem] = <<"row", nextItem>>]
    PROVE  FanInv'
<1>1. ItemCount' = ItemCount /\ ItemCount \in Nat
  <2>1. Len(urls) \in Nat /\ height \in Nat
    BY LenProperties DEF FanInv
  <2> QED
    BY <2>1 DEF ItemCount
<1>2. /\ nextItem \in Nat \ {0} /\ nextItem' \in Nat \ {0} /\ tasks \in Seq(Nat) /\ Len(tasks) \in Nat
      /\ DOMAIN tasks = 1 .. Len(tasks) /\ ready \subseteq DOMAIN tasks
      /\ DOMAIN results = 1 .. ItemCount /\ Len(results) = ItemCount
  BY LenProperties DEF FanInv
<1>3. \A i \in 1 .. ItemCount : i < nextItem => Settled(i)
  BY DEF FanInv
<1>4. \A i \in 1 .. ItemCount : i < nextItem' => i < nextItem \/ i = nextItem
  BY <1>2
<1>5. /\ EntriesInPlace' /\ ImageComplete'
  BY DEF EntriesInPlace, ImageComplete
<1>6. CASE /\ tasks' = Append(tasks, nextItem) /\ results' = results
           /\ fan = "fetch" => urls[nextItem]
  <2>1. /\ tasks' \in Seq(Nat) /\ Len(tasks') = Len(tasks) + 1
        /\ \A k \in 1 .. Len(tasks) : tasks'[k] = tasks[k]
        /\ tasks'[Len(tasks) + 1] = nextItem
    <3> DEFINE t == Append(tasks, nextItem)
    <3>1. tasks \in Seq(Nat) /\ nextItem \in Nat
      BY <1>2
    <3>2. /\ t \in Seq(Nat) /\ Len(t) = Len(tasks) + 1
          /\ \A k \in 1 .. Len(tasks) : t[k] = tasks[k]
          /\ t[Len(tasks) + 1] = nextItem
      BY <3>1, AppendProperties
    <3>3. tasks' = t
      BY <1>6
    <3> HIDE DEF t
    <3> QED
      BY <3>2, <3>3
  <2>2. DOMAIN tasks' = 1 .. Len(tasks) + 1
    BY <2>1, LenProperties
  <2>3. \A k \in DOMAIN tasks : k \in DOMAIN tasks' /\ tasks'[k] = tasks[k]
    BY <1>2, <2>1, <2>2
  <2>4. Len(tasks) + 1 \in DOMAIN tasks' /\ Len(tasks) + 1 \notin ready
    BY <1>2, <2>2
  <2>5. \A k \in DOMAIN tasks' : k \in DOMAIN tasks \/ k = Len(tasks) + 1
    BY <1>2, <2>2
  <2>6. \A k \in DOMAIN tasks' : tasks'[k] \in 1 .. ItemCount' /\ (fan' = "fetch" => urls'[tasks'[k]])
    <3> TAKE k \in DOMAIN tasks'
    <3>1. CASE k \in DOMAIN tasks
      BY <3>1, <2>3, <1>1 DEF FanInv
    <3>2. CASE k = Len(tasks) + 1
      BY <3>2, <2>1, <1>1, <1>6
    <3> QED
      BY <2>5, <3>1, <3>2
  <2>7. fan' = "mandelbrot" => \A k \in DOMAIN tasks' : k \in ready' => results'[tasks'[k]] = <<"row", tasks'[k]>>
    BY <2>3, <2>4, <2>5, <1>6 DEF FanInv
  <2>8. \A i \in 1 .. ItemCount' : i < nextItem' => Settled(i)'
    <3> SUFFICES ASSUME NEW i \in 1 .. ItemCount', i < nextItem' PROVE Settled(i)'
      OBVIOUS
    <3>1. i \in 1 .. ItemCount /\ (i < nextItem \/ i = nextItem)
      BY <1>1, <1>4
    <3>2. CASE i < nextItem
      <4>1. Settled(i)
        BY <3>1, <3>2, <1>3
      <4> QED
        BY <4>1, <2>3, <1>6, SettledStays
    <3>3. CASE i = nextItem
      BY <3>3, <2>1, <2>4 DEF Settled
    <3> QED
      BY <3>1, <3>2, <3>3
  <2>9. ready' \subseteq DOMAIN tasks'
    BY <1>2, <2>3
  <2>10. DOMAIN results' = 1 .. ItemCount' /\ Len(results') = ItemCount'
    BY <1>1, <1>2, <1>6
  <2> QED
    BY <1>2, <1>5, <2>1, <2>6, <2>7, <2>8, <2>9, <2>10 DEF FanInv
<1>7. ASSUME NEW r, tasks' = tasks, results' = [results EXCEPT ![nextItem] = r],
             \/ fan = "fetch" /\ ~urls[nextItem] /\ r = <<"error", nextItem>>
             \/ fan = "mandelbrot" /\ r = <<"row", nextItem>>
      PROVE  FanInv'
  <2>1. /\ results'[nextItem] = r /\ DOMAIN results' = 1 .. ItemCount'
        /\ \A i \in 1 .. ItemCount : i # nextItem => results'[i] = results[i]
    BY <1>1, <1>2, <1>7
  <2>2. Len(results') = ItemCount'
    <3>1. results' \in [1 .. ItemCount -> {results'[i] : i \in 1 .. ItemCount}]
      BY <1>1, <1>2, <1>7
    <3> QED
      BY <3>1, <2>1, <1>1, LenFcn
  <2>3. \A i \in 1 .. ItemCount' : i < nextItem' => Settled(i)'
    <3> SUFFICES ASSUME NEW i \in 1 .. ItemCount', i < nextItem' PROVE Settled(i)'
      OBVIOUS
    <3>1. i \in 1 .. ItemCount /\ (i < nextItem \/ i = nextItem)
      BY <1>1, <1>4
    <3>2. CASE i < nextItem
      <4>1. Settled(i) /\ i # nextItem
        BY <3>1, <3>2, <1>2, <1>3
      <4>2. results'[i] = results[i]
        BY <4>1, <3>1, <2>1
      <4> QED
        BY <4>1, <4>2, <1>7, SettledStays
    <3>3. CASE i = nextItem
      BY <3>3, <2>1, <1>7 DEF Settled
    <3> QED
      BY <3>1, <3>2, <3>3
  <2>4. fan' = "mandelbrot" => \A k \in DOMAIN tasks' : k \in ready' => results'[tasks'[k]] = <<"row", tasks'[k]>>
    <3> SUFFICES ASSUME fan = "mandelbrot", NEW k \in DOMAIN tasks, k \in ready
                 PROVE  results'[tasks[k]] = <<"row", tasks[k]>>
      BY <1>7
    <3>1. results[tasks[k]] = <<"row", tasks[k]>> /\ tasks[k] \in 1 .. ItemCount
      BY DEF FanInv
    <3>2. CASE tasks[k] = nextItem
      BY <3>2, <2>1, <1>7
    <3>3. CASE tasks[k] # nextItem
      BY <3>1, <3>3, <2>1
    <3> QED
      BY <3>2, <3>3
  <2>5. \A k \in DOMAIN tasks' : tasks'[k] \in 1 .. ItemCount' /\ (fan' = "fetch" => urls'[tasks'[k]])
    BY <1>1, <1>7 DEF FanInv
  <2>6. tasks' \in Seq(Nat) /\ ready' \subseteq DOMAIN tasks'
    BY <1>2, <1>7
  <2> QED
    BY <1>2, <1>5, <2>1, <2>2, <2>3, <2>4, <2>5, <2>6 DEF FanInv
<1> QED
  BY <1>6, <1>7

\* A pool thread runs a task.
LEMMA RunTaskKeeps == ASSUME FanInv, NEW k \in DOMAIN tasks, RunTask(k) PROVE FanInv'
<1>1. /\ fan' = fan /\ urls' = urls /\ height' = height /\ fpc' = fpc /\ nextItem' = nextItem /\ tasks' = tasks
      /\ image' = image /\ ready' = ready \cup {k}
      /\ results' = IF fan = "mandelbrot" THEN [results EXCEPT ![tasks[k]] = <<"row", tasks[k]>>] ELSE results
  BY DEF RunTask
<1>2. ItemCount' = ItemCount /\ ItemCount \in Nat
  <2>1. Len(urls) \in Nat /\ height \in Nat
    BY LenProperties DEF FanInv
  <2> QED
    BY <2>1, <1>1 DEF ItemCount
<1>3. /\ DOMAIN results = 1 .. ItemCount /\ Len(results) = ItemCount /\ ready \subseteq DOMAIN tasks
      /\ \A j \in DOMAIN tasks : tasks[j] \in 1 .. ItemCount
  BY DEF FanInv
\* a row written again is the same
<1>4. /\ DOMAIN results' = 1 .. ItemCount' /\ Len(results') = ItemCount'
      /\ \A i \in 1 .. ItemCount : \/ results'[i] = results[i]
                                   \/ fan = "mandelbrot" /\ i = tasks[k] /\ results'[i] = <<"row", i>>
  <2>1. CASE fan # "mandelbrot"
    <3>1. results' = results
      BY <2>1, <1>1
    <3> QED
      BY <3>1, <1>2, <1>3
  <2>2. CASE fan = "mandelbrot"
    <3>0. results' = [results EXCEPT ![tasks[k]] = <<"row", tasks[k]>>] /\ tasks[k] \in 1 .. ItemCount
      BY <2>2, <1>1, <1>3
    <3>1. DOMAIN results' = 1 .. ItemCount
      BY <3>0, <1>3
    <3>2. \A i \in 1 .. ItemCount : results'[i] = results[i] \/ (i = tasks[k] /\ results'[i] = <<"row", i>>)
      BY <3>0, <1>3
    <3>3. results' \in [1 .. ItemCount -> {results'[i] : i \in 1 .. ItemCount}]
      BY <3>0, <1>3
    <3>4. Len(results') = ItemCount
      BY <3>1, <3>3, <1>2, LenFcn
    <3> QED
      BY <2>2, <3>1, <3>2, <3>4, <1>2
  <2> QED
    BY <2>1, <2>2
<1>5. \A i \in 1 .. ItemCount : Settled(i) => Settled(i)'
  <2> SUFFICES ASSUME NEW i \in 1 .. ItemCount, Settled(i) PROVE Settled(i)'
    OBVIOUS
  <2>1. CASE results'[i] = results[i]
    BY <2>1, <1>1, SettledStays
  <2>2. CASE fan = "mandelbrot" /\ results'[i] = <<"row", i>>
    BY <2>2, <1>1 DEF Settled
  <2> QED
    BY <1>4, <2>1, <2>2
<1>6. fan' = "mandelbrot" => \A j \in DOMAIN tasks' : j \in ready' => results'[tasks'[j]] = <<"row", tasks'[j]>>
  <2> SUFFICES ASSUME fan = "mandelbrot", NEW j \in DOMAIN tasks, j \in ready \cup {k}
               PROVE  results'[tasks[j]] = <<"row", tasks[j]>>
    BY <1>1
  <2>1. tasks[j] \in 1 .. ItemCount /\ tasks[k] \in 1 .. ItemCount
    BY <1>3
  <2>2. CASE j \in ready
    <3>1. results[tasks[j]] = <<"row", tasks[j]>>
      BY <2>2 DEF FanInv
    <3> QED
      BY <3>1, <2>1, <1>4
  <2>3. CASE j = k
    BY <2>1, <2>3, <1>1, <1>3
  <2> QED
    BY <2>2, <2>3
<1>7. fpc' = "await" =>
        /\ \A i \in 1 .. ItemCount' : Settled(i)'
        /\ \A j \in DOMAIN tasks' : j < nextItem' =>
             /\ j \in ready'
             /\ fan' = "fetch" => results'[tasks'[j]] = <<"body", tasks'[j]>>
  BY <1>1, <1>2, <1>5 DEF FanInv
<1>8. fpc' = "queue" => \A i \in 1 .. ItemCount' : i < nextItem' => Settled(i)'
  BY <1>1, <1>2, <1>5 DEF FanInv
<1>9. fpc' = "encode" => \A i \in 1 .. height' : results'[i] = <<"row", i>>
  <2> SUFFICES ASSUME fpc = "encode", NEW i \in 1 .. height PROVE results'[i] = <<"row", i>>
    BY <1>1
  <2>1. ItemCount = height /\ results[i] = <<"row", i>>
    BY DEF FanInv, ItemCount
  <2> QED
    BY <2>1, <1>4
<1>10. EntriesInPlace' /\ ImageComplete'
  <2>1. EntriesInPlace'
    BY <1>1 DEF EntriesInPlace, FanInv
  <2>2. ImageComplete'
    BY <1>1 DEF ImageComplete, FanInv
  <2> QED
    BY <2>1, <2>2
<1>11. \A j \in DOMAIN tasks' : tasks'[j] \in 1 .. ItemCount' /\ (fan' = "fetch" => urls'[tasks'[j]])
  BY <1>1, <1>2 DEF FanInv
<1>12. /\ fan' \in {"none", "fetch", "mandelbrot"} /\ urls' \in Seq(BOOLEAN) /\ height' \in Nat
       /\ fpc' \in {"queue", "await", "encode", "end"} /\ nextItem' \in Nat \ {0} /\ tasks' \in Seq(Nat)
       /\ ready' \subseteq DOMAIN tasks' /\ (fpc' = "encode" => fan' = "mandelbrot")
       /\ fan' = "none" => tasks' = <<>> /\ fpc' = "end" /\ nextItem' = 1
  BY <1>1, <1>3 DEF FanInv
<1> QED
  BY <1>4, <1>6, <1>7, <1>8, <1>9, <1>10, <1>11, <1>12 DEF FanInv

LEMMA AwaitFirstKeeps == ASSUME FanInv, AwaitFirst PROVE FanInv'
<1>1. /\ fan' = fan /\ urls' = urls /\ height' = height /\ tasks' = tasks /\ image' = image
      /\ ready' = ready /\ results' = results /\ fpc = "queue" /\ fpc' = "await" /\ nextItem' = 1
      /\ nextItem > Len(results)
  BY DEF AwaitFirst
<1>2. ItemCount' = ItemCount /\ ItemCount \in Nat
  <2>1. Len(urls) \in Nat /\ height \in Nat
    BY LenProperties DEF FanInv
  <2> QED
    BY <2>1, <1>1 DEF ItemCount
<1>3. \A i \in 1 .. ItemCount : Settled(i)
  <2>1. Len(results) = ItemCount /\ nextItem \in Nat
    BY DEF FanInv
  <2>2. \A i \in 1 .. ItemCount : i < nextItem
    BY <2>1, <1>1, <1>2
  <2> QED
    BY <2>2, <1>1 DEF FanInv
<1>4. \A i \in 1 .. ItemCount : Settled(i)'
  BY <1>1, <1>3 DEF Settled
<1>5. \A k \in DOMAIN tasks : ~(k < 1)
  BY LenProperties DEF FanInv
<1>6. EntriesInPlace' /\ ImageComplete'
  BY <1>1 DEF EntriesInPlace, ImageComplete
<1> QED
  BY <1>1, <1>2, <1>4, <1>5, <1>6 DEF FanInv

\* The next result of a fetch goes to the URL of its task.
LEMMA AwaitTaskKeeps == ASSUME FanInv, AwaitTask PROVE FanInv'
<1> DEFINE t == tasks[nextItem]
<1>1. /\ fan' = fan /\ urls' = urls /\ height' = height /\ tasks' = tasks /\ image' = image
      /\ ready' = ready /\ fpc = "await" /\ fpc' = "await" /\ nextItem' = nextItem + 1
      /\ nextItem <= Len(tasks) /\ nextItem \in ready
      /\ results' = IF fan = "fetch" THEN [results EXCEPT ![t] = <<"body", t>>] ELSE results
  BY DEF AwaitTask, EntryOf
<1>2. ItemCount' = ItemCount /\ ItemCount \in Nat
  <2>1. Len(urls) \in Nat /\ height \in Nat
    BY LenProperties DEF FanInv
  <2> QED
    BY <2>1, <1>1 DEF ItemCount
<1>3. /\ nextItem \in Nat \ {0} /\ nextItem \in DOMAIN tasks /\ t \in 1 .. ItemCount
      /\ DOMAIN results = 1 .. ItemCount /\ Len(results) = ItemCount
      /\ \A k \in DOMAIN tasks : k \in Nat /\ tasks[k] \in 1 .. ItemCount
  <2>1. nextItem \in Nat \ {0} /\ DOMAIN tasks = 1 .. Len(tasks) /\ ready \subseteq DOMAIN tasks
    BY LenProperties DEF FanInv
  <2>2. nextItem \in DOMAIN tasks
    BY <2>1, <1>1
  <2> QED
    BY <2>1, <2>2 DEF FanInv
<1> HIDE DEF t
<1>4. /\ DOMAIN results' = 1 .. ItemCount' /\ Len(results') = ItemCount'
      /\ \A i \in 1 .. ItemCount : i # t => results'[i] = results[i]
      /\ fan # "fetch" => results' = results
      /\ fan = "fetch" => results'[t] = <<"body", t>>
  <2>1. CASE fan # "fetch"
    <3>1. results' = results
      BY <2>1, <1>1
    <3> QED
      BY <3>1, <2>1, <1>2, <1>3
  <2>2. CASE fan = "fetch"
    <3>0. results' = [results EXCEPT ![t] = <<"body", t>>]
      BY <2>2, <1>1
    <3>1. DOMAIN results' = 1 .. ItemCount
      BY <3>0, <1>3
    <3>2. results'[t] = <<"body", t>> /\ \A i \in 1 .. ItemCount : i # t => results'[i] = results[i]
      BY <3>0, <1>3
    <3>3. results' \in [1 .. ItemCount -> {results'[i] : i \in 1 .. ItemCount}]
      BY <3>0, <1>3
    <3>4. Len(results') = ItemCount
      BY <3>1, <3>3, <1>2, LenFcn
    <3> QED
      BY <2>2, <3>1, <3>2, <3>4, <1>2
  <2> QED
    BY <2>1, <2>2
<1>5. \A i \in 1 .. ItemCount' : Settled(i)'
  <2> SUFFICES ASSUME NEW i \in 1 .. ItemCount PROVE Settled(i)'
    BY <1>2
  <2>1. CASE i = t
    BY <2>1, <1>1, <1>3 DEF Settled, t
  <2>2. CASE i # t
    <3>1. Settled(i) /\ results'[i] = results[i]
      BY <2>2, <1>1, <1>4 DEF FanInv
    <3> QED
      BY <3>1, <1>1, SettledStays
  <2> QED
    BY <2>1, <2>2
<1>6. \A k \in DOMAIN tasks' : k < nextItem' =>
         /\ k \in ready'
         /\ fan' = "fetch" => results'[tasks'[k]] = <<"body", tasks'[k]>>
  <2> SUFFICES ASSUME NEW k \in DOMAIN tasks, k < nextItem + 1
               PROVE  k \in ready /\ (fan = "fetch" => results'[tasks[k]] = <<"body", tasks[k]>>)
    BY <1>1
  <2>1. k < nextItem \/ k = nextItem
    BY <1>3
  <2>2. CASE k < nextItem
    <3>1. k \in ready /\ (fan = "fetch" => results[tasks[k]] = <<"body", tasks[k]>>)
      BY <2>2, <1>1 DEF FanInv
    <3>2. CASE tasks[k] = t
      BY <3>1, <3>2, <1>4
    <3>3. CASE tasks[k] # t
      BY <3>1, <3>3, <1>3, <1>4
    <3> QED
      BY <3>2, <3>3
  <2>3. CASE k = nextItem
    BY <2>3, <1>1, <1>4 DEF t
  <2> QED
    BY <2>1, <2>2, <2>3
<1>7. fan' = "mandelbrot" => \A j \in DOMAIN tasks' : j \in ready' => results'[tasks'[j]] = <<"row", tasks'[j]>>
  BY <1>1, <1>4 DEF FanInv
<1>8. EntriesInPlace' /\ ImageComplete'
  BY <1>1 DEF EntriesInPlace, ImageComplete
<1>9. \A j \in DOMAIN tasks' : tasks'[j] \in 1 .. ItemCount' /\ (fan' = "fetch" => urls'[tasks'[j]])
  BY <1>1, <1>2 DEF FanInv
<1>10. /\ fan' \in {"none", "fetch", "mandelbrot"} /\ urls' \in Seq(BOOLEAN) /\ height' \in Nat
       /\ nextItem' \in Nat \ {0} /\ tasks' \in Seq(Nat) /\ ready' \subseteq DOMAIN tasks' /\ fan' # "none"
  BY <1>1, <1>3 DEF FanInv
<1> QED
  BY <1>1, <1>4, <1>5, <1>6, <1>7, <1>8, <1>9, <1>10 DEF FanInv

LEMMA AwaitLastKeeps == ASSUME FanInv, AwaitLast PROVE FanInv'
<1>1. /\ fan' = fan /\ urls' = urls /\ height' = height /\ tasks' = tasks /\ image' = image
      /\ ready' = ready /\ results' = results /\ nextItem' = nextItem
      /\ fpc = "await" /\ fpc' = IF fan = "fetch" THEN "end" ELSE "encode"
      /\ nextItem > Len(tasks)
  BY DEF AwaitLast, AllAwaited
<1>2. ItemCount' = ItemCount
  BY <1>1 DEF ItemCount
<1>3. fan # "none" /\ fan \in {"fetch", "mandelbrot"}
  BY <1>1 DEF FanInv
<1>4. \A k \in DOMAIN tasks : k < nextItem
  BY <1>1, LenProperties DEF FanInv
<1>5. \A k \in DOMAIN tasks : /\ k \in ready /\ (fan = "fetch" => results[tasks[k]] = <<"body", tasks[k]>>)
                              /\ fan = "fetch" => urls[tasks[k]]
                              /\ fan = "mandelbrot" => results[tasks[k]] = <<"row", tasks[k]>>
  BY <1>1, <1>4 DEF FanInv
<1>6. \A i \in 1 .. ItemCount : Settled(i)
  BY <1>1 DEF FanInv
<1>7. CASE fan = "fetch"
  <2>1. fpc' = "end" /\ ItemCount = Len(urls) /\ DOMAIN urls = 1 .. Len(urls)
    BY <1>1, <1>7, LenProperties DEF ItemCount, FanInv
  <2>2. \A i \in DOMAIN urls : results[i] = <<IF urls[i] THEN "body" ELSE "error", i>>
    <3> TAKE i \in DOMAIN urls
    <3>1. Settled(i)
      BY <1>6, <2>1
    <3>2. CASE \E k \in DOMAIN tasks : tasks[k] = i
      BY <3>2, <1>5, <1>7
    <3>3. CASE ~urls[i] /\ results[i] = <<"error", i>>
      BY <3>3
    <3> QED
      BY <3>1, <3>2, <3>3, <1>7 DEF Settled
  <2>3. EntriesInPlace' /\ ImageComplete'
    BY <1>1, <1>7, <2>2 DEF EntriesInPlace, ImageComplete
  <2> QED
    BY <1>1, <1>2, <1>7, <2>1, <2>3 DEF FanInv
<1>8. CASE fan = "mandelbrot"
  <2>1. fpc' = "encode" /\ ItemCount = height
    BY <1>1, <1>8 DEF ItemCount
  <2>2. \A i \in 1 .. height : results[i] = <<"row", i>>
    <3> TAKE i \in 1 .. height
    <3>1. Settled(i)
      BY <1>6, <2>1
    <3>2. CASE \E k \in DOMAIN tasks : tasks[k] = i
      BY <3>2, <1>5, <1>8
    <3> QED
      BY <3>1, <3>2, <1>8 DEF Settled
  <2>3. EntriesInPlace' /\ ImageComplete'
    BY <1>1, <1>8, <2>1 DEF EntriesInPlace, ImageComplete
  <2> QED
    BY <1>1, <1>2, <1>8, <2>1, <2>2, <2>3 DEF FanInv
<1> QED
  BY <1>3, <1>7, <1>8

LEMMA EncodeKeeps == ASSUME FanInv, EncodeBmp PROVE FanInv'
<1>1. /\ fan' = fan /\ urls' = urls /\ height' = height /\ tasks' = tasks
      /\ ready' = ready /\ results' = results /\ nextItem' = nextItem
      /\ fpc = "encode" /\ fpc' = "end" /\ image' = [y \in 1 .. height |-> results[height - y + 1]]
  BY DEF EncodeBmp
<1>2. ItemCount' = ItemCount
  BY <1>1 DEF ItemCount
<1>3. fan = "mandelbrot" /\ height \in Nat /\ \A i \in 1 .. height : results[i] = <<"row", i>>
  BY <1>1 DEF FanInv
<1>4. \A y \in 1 .. height : results[height - y + 1] = <<"row", height - y + 1>>
  <2> TAKE y \in 1 .. height
  <2>1. height - y + 1 \in 1 .. height
    BY <1>3
  <2> QED
    BY <2>1, <1>3
<1>5. image' = [y \in 1 .. height |-> <<"row", height - y + 1>>]
  BY <1>1, <1>4
<1>6. EntriesInPlace' /\ ImageComplete'
  BY <1>1, <1>3, <1>5 DEF EntriesInPlace, ImageComplete
<1> QED
  BY <1>1, <1>2, <1>3, <1>6 DEF FanInv

LEMMA FanSteps == FanInv /\ [FanNext]_fanVars => FanInv'
<1> SUFFICES ASSUME FanInv, [FanNext]_fanVars PROVE FanInv'
  OBVIOUS
<1>1. CASE Fetch
  BY <1>1, FetchKeeps
<1>2. CASE Mandelbrot
  BY <1>2, MandelbrotKeeps
<1>3. CASE QueueUrl
  <2>1. /\ fan = "fetch" /\ fpc = "queue" /\ nextItem <= Len(urls) /\ nextItem' = nextItem + 1
        /\ fan' = fan /\ urls' = urls /\ height' = height /\ fpc' = fpc /\ ready' = ready
    BY <1>3 DEF QueueUrl
  <2>2. nextItem \in 1 .. ItemCount
    <3>1. nextItem \in Nat \ {0} /\ Len(urls) \in Nat /\ ItemCount = Len(urls)
      BY <2>1, LenProperties DEF FanInv, ItemCount
    <3> QED
      BY <3>1, <2>1
  <2>3. \/ tasks' = Append(tasks, nextItem) /\ results' = results /\ urls[nextItem]
        \/ /\ ~urls[nextItem] /\ tasks' = tasks
           /\ results' = [results EXCEPT ![nextItem] = <<"error", nextItem>>]
    BY <1>3 DEF QueueUrl
  <2> QED
    BY <2>1, <2>2, <2>3, QueueKeeps
<1>4. CASE QueueRow
  <2>1. /\ fan = "mandelbrot" /\ fpc = "queue" /\ nextItem <= height /\ nextItem' = nextItem + 1
        /\ fan' = fan /\ urls' = urls /\ height' = height /\ fpc' = fpc /\ ready' = ready
    BY <1>4 DEF QueueRow
  <2>2. nextItem \in 1 .. ItemCount
    <3>1. nextItem \in Nat \ {0} /\ height \in Nat /\ ItemCount = height
      BY <2>1 DEF FanInv, ItemCount
    <3> QED
      BY <3>1, <2>1
  <2>3. \/ tasks' = Append(tasks, nextItem) /\ results' = results
        \/ tasks' = tasks /\ results' = [results EXCEPT ![nextItem] = <<"row", nextItem>>]
    BY <1>4 DEF QueueRow
  <2> QED
    BY <2>1, <2>2, <2>3, QueueKeeps
<1>5. CASE \E k \in DOMAIN tasks : RunTask(k)
  BY <1>5, RunTaskKeeps
<1>6. CASE AwaitFirst
  BY <1>6, AwaitFirstKeeps
<1>7. CASE AwaitTask
  BY <1>7, AwaitTaskKeeps
<1>8. CASE AwaitLast
  BY <1>8, AwaitLastKeeps
<1>9. CASE EncodeBmp
  BY <1>9, EncodeKeeps
<1>10. CASE UNCHANGED fanVars
  <2>1. /\ fan' = fan /\ urls' = urls /\ height' = height /\ tasks' = tasks /\ fpc' = fpc /\ image' = image
        /\ ready' = ready /\ results' = results /\ nextItem' = nextItem
    BY <1>10 DEF fanVars
  <2> QED
    BY <2>1, ZenonT(60) DEF FanInv, ItemCount, Settled, EntriesInPlace, ImageComplete
<1> QED
  BY <1>1, <1>2, <1>3, <1>4, <1>5, <1>6, <1>7, <1>8, <1>9, <1>10 DEF FanNext

LEMMA FanKept == FanSpec => [](EntriesInPlace /\ ImageComplete)
<1>1. FanInv => EntriesInPlace /\ ImageComplete
  BY DEF FanInv
<1> QED
  BY <1>1, FanStarts, FanSteps, PTL DEF FanSpec

(***************************************************************************)
(* udp_sendto_impl(), udp_roundtrip_impl(), http_get(), fetch() and        *)
(* mandelbrot(), for any number of URLs, rows and tasks, any limit of the  *)
(* body and any pieces in which it arrives: whatever fails and in whatever *)
(* order the tasks end, every resource is given back once and in order, no *)
(* body exceeds its limit, and each result is at its place.                *)
(***************************************************************************)
THEOREM RequestsKept == SocketSpec /\ FanSpec => []RequestsWhole
<1>1. NothingLeaks /\ BodyBounded /\ EntriesInPlace /\ ImageComplete => RequestsWhole
  BY DEF RequestsWhole
<1> QED
  BY <1>1, SocketsKept, FanKept, PTL

-----------------------------------------------------------------------------
(* Numbers                                                                   *)

LEMMA SetInduction ==
    ASSUME NEW S \in SUBSET Nat, 0 \in S, \A n \in S : n + 1 \in S
    PROVE  S = Nat
<1> SUFFICES ASSUME NEW n \in Nat, n \notin S PROVE FALSE
  OBVIOUS
<1> DEFINE A == S \cap (0 .. n)
           B == A \ {0}
<1>1. IsFiniteSet(0 .. n)
  BY 0 \in Int, n \in Int, FS_Interval
<1>2. IsFiniteSet(A) /\ Cardinality(A) \in Nat
  BY <1>1, FS_Subset, FS_CardinalityType
<1>3. 0 \in A /\ IsFiniteSet(B) /\ Cardinality(B) = Cardinality(A) - 1
  <2>1. 0 \in A
    OBVIOUS
  <2> QED
    BY <1>2, <2>1, FS_RemoveElement
<1> DEFINE f == [x \in A |-> x + 1]
<1>4. f \in [A -> B] /\ \A x \in A : f[x] = x + 1 /\ x \in Nat
  OBVIOUS
<1>5. Cardinality(B) < Cardinality(A)
  BY <1>2, <1>3
<1> HIDE DEF A, B, f
<1>6. PICK x, y \in A : x # y /\ f[x] = f[y]
  BY <1>2, <1>3, <1>4, <1>5, FS_PigeonHole
<1> QED
  BY <1>4, <1>6

\* A nonempty set of naturals has a least element,
LEMMA LeastElement ==
    ASSUME NEW S \in SUBSET Nat, S # {}
    PROVE  \E x \in S : \A y \in S : x <= y
<1> SUFFICES ASSUME \A x \in S : \E y \in S : y < x PROVE FALSE
  OBVIOUS
<1> DEFINE T == {n \in Nat : \A y \in S : n < y}
<1>1. 0 \in T
  OBVIOUS
<1>2. ASSUME NEW n \in T PROVE n + 1 \in T
  OBVIOUS
<1>3. T = Nat
  BY <1>1, <1>2, SetInduction
<1>4. PICK s \in S : TRUE
  OBVIOUS
<1> QED
  BY <1>3, <1>4

LEMMA MinIn ==
    ASSUME NEW S \in SUBSET Nat, S # {}
    PROVE  Min(S) \in S
<1>1. \E x \in S : \A y \in S : x <= y
  BY LeastElement
<1> QED
  BY <1>1 DEF Min

\* and one with a bound has a greatest.
LEMMA MaxIn ==
    ASSUME NEW n \in Nat, NEW S \in SUBSET (1 .. n), S # {}
    PROVE  Max(S) \in S
<1> DEFINE T == {k \in Nat : n - k \in S}
<1>1. T # {}
  <2>1. PICK x \in S : x \in 1 .. n
    OBVIOUS
  <2>2. n - x \in Nat /\ n - (n - x) = x
    BY <2>1
  <2> QED
    BY <2>1, <2>2
<1>2. PICK k \in T : \A y \in T : k <= y
  BY <1>1, LeastElement
<1>3. \A y \in S : y \in 1 .. n /\ n - y \in Nat /\ n - (n - y) = y
  OBVIOUS
<1>4. n - k \in S /\ \A y \in S : n - k >= y
  BY <1>2, <1>3
<1> QED
  BY <1>4 DEF Max

-----------------------------------------------------------------------------
(* CacheAllocator                                                            *)

RingInv ==
    /\ used \in Seq(Nat) /\ head \in 1 .. Len(used) /\ regions \subseteq [ring : Nat, from : Nat, to : Nat]
    /\ \A h \in DOMAIN used : used[h] <= RingSize
    /\ \A r \in regions : r.from <= r.to
    /\ RegionsDisjoint

LEMMA TotalType ==
    ASSUME NEW i \in Nat, NEW n \in Nat, NEW a \in Nat \ {0}
    PROVE  Total(i, n, a) \in Nat /\ Total(i, n, a) >= n /\ Total(0, n, a) = n
<1>1. LowestBit(i) \in Nat
  <2>1. CASE i = 0
    BY <2>1 DEF LowestBit
  <2>2. CASE i # 0
    <3> DEFINE S == {b \in 1 .. i : i % b = 0 /\ \E k \in 0 .. i : b = 2^k}
    <3>1. 1 \in S
      <4>1. 2^0 = 1 /\ i % 1 = 0 /\ 1 \in 1 .. i /\ 0 \in 0 .. i
        BY <2>2
      <4> QED
        BY <4>1
    <3>2. S \in SUBSET (1 .. i)
      OBVIOUS
    <3>3. LowestBit(i) = Max(S)
      BY <2>2 DEF LowestBit
    <3> HIDE DEF S
    <3>4. Max(S) \in S
      BY <3>1, <3>2, MaxIn
    <3>5. \A x \in S : x \in Nat
      BY <3>2
    <3> QED
      BY <3>3, <3>4, <3>5
  <2> QED
    BY <2>1, <2>2
<1>2. a + a * RingSize - LowestBit(i) \in Int
  BY <1>1, RingAssumption
<1>3. Padding(i, a) \in Nat
  BY <1>2 DEF Padding
<1>4. LowestBit(0) = 0
  BY DEF LowestBit
<1>5. (a + a * RingSize - 0) % a = 0
  BY RingAssumption
<1>6. Padding(0, a) = 0
  BY <1>4, <1>5 DEF Padding
<1> QED
  BY <1>3, <1>6 DEF Total

LEMMA RingStarts == CacheAllocInit => RingInv
BY RingAssumption DEF CacheAllocInit, RingInv, RegionsDisjoint

\* A region placed in ring h, from the end of what is in use there.
LEMMA PlaceKeeps ==
    ASSUME RingInv, NEW n \in Nat, NEW a \in Nat \ {0}, n >= a,
           NEW h \in head .. Len(used), RingFits(used[h], n, a), Place(h, n, a)
    PROVE  RingInv'
<1>1. h \in DOMAIN used /\ used[h] \in Nat /\ used[h] <= RingSize /\ DOMAIN used = 1 .. Len(used)
      /\ Len(used) \in Nat /\ head \in Nat /\ RingSize \in Nat
  BY RingAssumption DEF RingInv
<1>2. used[h] # RingSize
  <2>1. ASSUME used[h] = RingSize PROVE FALSE
    <3>1. RingSize % RingSize = 0 /\ RingSize - RingSize = 0
      BY RingAssumption
    <3>2. Total(0, n, a) <= 0
      BY <2>1, <3>1 DEF RingFits
    <3> QED
      BY <3>2, TotalType
  <2> QED
    BY <2>1
<1>3. used[h] % RingSize = used[h]
  BY <1>1, <1>2, RingAssumption
<1> DEFINE s == Total(used[h], n, a)
           new == [ring |-> h, from |-> used[h], to |-> used[h] + n]
<1>4. s \in Nat /\ s >= n /\ s <= RingSize - used[h]
  BY <1>1, <1>3, TotalType DEF RingFits
<1>5. used' = [used EXCEPT ![h] = used[h] + s] /\ regions' = regions \cup {new} /\ head' = h
  BY DEF Place
<1> HIDE DEF s
<1>6. used' \in Seq(Nat) /\ Len(used') = Len(used) /\ DOMAIN used' = DOMAIN used
      /\ used'[h] = used[h] + s /\ \A g \in DOMAIN used : g # h => used'[g] = used[g]
  BY <1>1, <1>4, <1>5, SMTT(30) DEF RingInv
<1>7. \A g \in DOMAIN used : used[g] \in Nat /\ used'[g] <= RingSize /\ used[g] <= used'[g]
  <2>1. \A g \in DOMAIN used : used[g] \in Nat /\ used[g] <= RingSize
    BY DEF RingInv
  <2>2. used'[h] <= RingSize /\ used[h] <= used'[h]
    BY <1>1, <1>4, <1>6
  <2> QED
    BY <1>6, <2>1, <2>2
<1>8. new \in [ring : Nat, from : Nat, to : Nat] /\ new.from <= new.to /\ new.ring = h
      /\ new.from = used[h] /\ new.to = used[h] + n /\ new.to <= used'[h]
  BY <1>1, <1>4, <1>6, SMTT(30)
<1>9. \A r \in regions : r.ring \in DOMAIN used /\ r.to \in Nat /\ r.from \in Nat /\ r.to <= used[r.ring]
                         /\ r.from <= r.to
  BY DEF RingInv, RegionsDisjoint
<1> HIDE DEF new
<1>10. \A r \in regions' : r.ring \in DOMAIN used' /\ r.to <= used'[r.ring] /\ used'[r.ring] <= RingSize
                           /\ r.from <= r.to
  <2> TAKE r \in regions'
  <2>1. CASE r = new
    BY <1>1, <1>6, <1>7, <1>8, <2>1
  <2>2. CASE r \in regions
    <3>1. r.ring \in DOMAIN used /\ r.to \in Nat /\ r.to <= used[r.ring] /\ r.from <= r.to
      BY <1>9, <2>2
    <3>2. used[r.ring] \in Nat /\ used'[r.ring] <= RingSize /\ used[r.ring] <= used'[r.ring]
          /\ used'[r.ring] \in Nat
      BY <1>1, <1>4, <1>6, <1>7, <3>1, SMTT(30)
    <3> QED
      BY <1>6, <3>1, <3>2
  <2> QED
    BY <1>5, <2>1, <2>2
<1>11. \A r, q \in regions' : r # q /\ r.ring = q.ring => r.to <= q.from \/ q.to <= r.from
  BY <1>5, <1>8, <1>9, SMTT(30) DEF RingInv, RegionsDisjoint
<1>12. \A g \in head' + 1 .. Len(used') : used'[g] = 0
  BY <1>1, <1>5, <1>6, SMTT(30) DEF RingInv, RegionsDisjoint
<1>13. regions' \subseteq [ring : Nat, from : Nat, to : Nat] /\ head' \in 1 .. Len(used')
  BY <1>1, <1>5, <1>6, <1>8 DEF RingInv
<1> QED
  BY <1>6, <1>7, <1>10, <1>11, <1>12, <1>13 DEF RingInv, RegionsDisjoint

LEMMA NewRingKeeps ==
    ASSUME RingInv, NEW n \in Nat, NEW a \in Nat \ {0}, AllocateNewRing(n, a)
    PROVE  RingInv'
<1> DEFINE k == Len(used) + 1
           new == [ring |-> k, from |-> 0, to |-> n]
<1>1. n <= RingSize /\ head' = k /\ used' = Append(used, n) /\ regions' = regions \cup {new}
  BY TotalType DEF AllocateNewRing
<1>2. DOMAIN used = 1 .. Len(used) /\ Len(used) \in Nat /\ head \in Nat /\ RingSize \in Nat
  BY RingAssumption DEF RingInv
<1>3. used' \in Seq(Nat) /\ Len(used') = k /\ DOMAIN used' = 1 .. k /\ used'[k] = n
      /\ \A g \in DOMAIN used : used'[g] = used[g] /\ g # k
  BY <1>1, <1>2 DEF RingInv
<1>4. new \in [ring : Nat, from : Nat, to : Nat] /\ new.ring = k /\ new.from = 0 /\ new.to = n
  BY <1>2
<1>5. \A r \in regions : r.ring \in DOMAIN used /\ r.ring # k /\ r.to <= used'[r.ring] /\ r.ring \in DOMAIN used'
                         /\ r.from <= r.to
  BY <1>2, <1>3, SMTT(30) DEF RingInv, RegionsDisjoint
<1>6. \A g \in DOMAIN used' : used'[g] <= RingSize
  BY <1>1, <1>2, <1>3 DEF RingInv
<1> HIDE DEF new
<1>7. \A r \in regions' : r.ring \in DOMAIN used' /\ r.to <= used'[r.ring] /\ used'[r.ring] <= RingSize
                          /\ r.from <= r.to
  BY <1>1, <1>2, <1>3, <1>4, <1>5, <1>6
<1>8. \A r, q \in regions' : r # q /\ r.ring = q.ring => r.to <= q.from \/ q.to <= r.from
  BY <1>1, <1>4, <1>5 DEF RingInv, RegionsDisjoint
<1>9. regions' \subseteq [ring : Nat, from : Nat, to : Nat] /\ head' \in 1 .. Len(used')
  BY <1>1, <1>2, <1>3, <1>4 DEF RingInv
<1>10. \A g \in head' + 1 .. Len(used') : used'[g] = 0
  BY <1>1, <1>2, <1>3
<1> QED
  BY <1>3, <1>6, <1>7, <1>8, <1>9, <1>10 DEF RingInv, RegionsDisjoint

LEMMA RingSteps == RingInv /\ [CacheAllocNext]_cacheAllocVars => RingInv'
<1> SUFFICES ASSUME RingInv, [CacheAllocNext]_cacheAllocVars PROVE RingInv'
  OBVIOUS
<1>1. ASSUME NEW n \in Sizes, NEW a \in Alignments, n >= a, AllocateHere(n, a) PROVE RingInv'
  <2>1. n \in Nat /\ a \in Nat \ {0}
    BY RingAssumption
  <2> QED
    BY <1>1, <2>1, PlaceKeeps DEF AllocateHere
<1>2. ASSUME NEW n \in Sizes, NEW a \in Alignments, AllocateNewRing(n, a) PROVE RingInv'
  BY <1>2, NewRingKeeps, RingAssumption
<1>3. ASSUME used' = used, head' = head, regions' = regions PROVE RingInv'
  BY <1>3 DEF RingInv, RegionsDisjoint
<1>4. CASE CacheReset
  BY <1>4, RingAssumption DEF CacheReset, RingInv, RegionsDisjoint
<1>5. CASE CacheClear
  BY <1>5, RingAssumption DEF CacheClear, RingInv, RegionsDisjoint
<1> QED
  BY <1>1, <1>2, <1>3, <1>4, <1>5 DEF CacheAllocNext, AllocateLarge, DeallocateLarge, cacheAllocVars

LEMMA RegionsKept == CacheAllocSpec => []RegionsDisjoint
<1>1. RingInv => RegionsDisjoint
  BY DEF RingInv
<1> QED
  BY <1>1, RingStarts, RingSteps, PTL DEF CacheAllocSpec

-----------------------------------------------------------------------------
(* iris_root_allocator_t and iris_allocator_t                                *)

AllocPCs == {"rest", "control", "recycled", "root", "page", "rest_back", "push_back", "popped",
             "unmanage", "mask", "bit", "count", "full", "recycle", "manage", "put", "push",
             "try_free"}
Linked == Blocks \cup {Null}

AllocTypes ==
    /\ rootPages \subseteq Pages /\ rootBits \in [Pages -> SUBSET (1 .. PageSize)]
    /\ ref_count \in [Blocks -> Nat] /\ managed \in [Blocks -> BOOLEAN]
    /\ bitmap \in [Blocks -> SUBSET Slots] /\ next \in [Blocks -> Linked]
    /\ control_blocks \in [1 .. ControlBlocks -> Linked]
    /\ recycled_head \in Linked /\ recycle_count \in Nat
    /\ worker \in [AllocThreads -> [pc : AllocPCs, block : Linked, slot : Nat, list : Linked]]
    /\ items \subseteq Blocks \X Slots /\ item_count \in Nat \ {0} /\ calls \in Nat

\* A thread past the search has a block; where it stands in control_blocks or
\* which bit it is after.
Placed(w) ==
    /\ w.pc \notin {"rest", "control", "recycled", "root", "page"} => w.block \in Blocks
    /\ w.pc = "control" => w.slot \in 1 .. ControlBlocks
    /\ w.pc \in {"bit", "count"} => w.slot \in Slots
    /\ w.pc = "put" => w.slot >= 1

\* A set bit is of an item in use or of a thread about to count its item.
BitsHeld ==
    /\ \A i \in items : i[2] \in bitmap[i[1]]
    /\ \A t \in AllocThreads : worker[t].pc = "count" => worker[t].slot \in bitmap[worker[t].block]

\* The list that a thread has: the rest of what it took of the recycled list.
HeadOf(w, nx) ==
    IF w.pc = "rest_back" THEN nx[w.block] ELSE IF w.pc = "push_back" THEN w.list ELSE Null
Taken(t) == ListOf(HeadOf(worker[t], next))

\* t has b out of the pool, and b is still managed.
Carries == {"rest_back", "push_back", "popped", "unmanage", "put", "push"}
Carried(t, b) == worker[t].pc \in Carries /\ worker[t].block = b

\* A block is managed exactly while it is in the recycled list, in what a
\* thread took of it, in a slot of control_blocks or carried by a thread, and
\* it is in one of these places only.
Located(b) ==
    /\ managed[b] <=> \/ b \in ListOf(recycled_head)
                      \/ \E t \in AllocThreads : b \in Taken(t) \/ Carried(t, b)
                      \/ \E c \in 1 .. ControlBlocks : control_blocks[c] = b
    /\ b \in ListOf(recycled_head) =>
         /\ \A t \in AllocThreads : b \notin Taken(t) /\ ~Carried(t, b)
         /\ \A c \in 1 .. ControlBlocks : control_blocks[c] # b
    /\ \A t \in AllocThreads : b \in Taken(t) =>
         /\ \A u \in AllocThreads : ~Carried(u, b) /\ (b \in Taken(u) => u = t)
         /\ \A c \in 1 .. ControlBlocks : control_blocks[c] # b
    /\ \A c \in 1 .. ControlBlocks : control_blocks[c] = b =>
         /\ \A t \in AllocThreads : ~Carried(t, b)
         /\ \A d \in 1 .. ControlBlocks : control_blocks[d] = b => d = c
    /\ \A t, u \in AllocThreads : Carried(t, b) /\ Carried(u, b) => t = u
ClaimedOnce == \A b \in Blocks : Located(b)

\* The blocks that are in lists, none of which goes round.
Listed == {b \in Blocks : b \in ListOf(recycled_head) \/ \E t \in AllocThreads : b \in Taken(t)}
Straight(nx, h) == \A x \in Reach(nx, h) : x \notin Reach(nx, nx[x])
Acyclic == Straight(next, recycled_head) /\ \A t \in AllocThreads : Straight(next, HeadOf(worker[t], next))

Pooled(b) == b \in Listed \/ \E c \in 1 .. ControlBlocks : control_blocks[c] = b
Num(p) == IF p THEN 1 ELSE 0
ItemsOf(b) == {i \in items : i[1] = b}
Holders(b) == {t \in AllocThreads : Holds(t, b)}
RefsCounted ==
    \A b \in Blocks :
      ref_count[b] = Cardinality(ItemsOf(b)) + Cardinality(Holders(b)) + Num(Pooled(b))
RootExact == \A b \in Blocks : ref_count[b] > 0 <=> b[1] \in rootPages /\ b[2] \in rootBits[b[1]]

\* recycle_count counts the lists and the threads between its change and the
\* list's; those past the test of the limit may still add one each.
Between == {t \in AllocThreads : worker[t].pc \in {"rest_back", "push_back", "popped", "push"}}
Racing == {t \in AllocThreads : worker[t].pc \in {"manage", "put"}}
RecycleCounted ==
    /\ recycle_count = Cardinality(Listed) + Cardinality(Between)
    /\ recycle_count + Cardinality(Racing) < MaxRecycled + Cardinality(AllocThreads)

AllocInv ==
    /\ AllocTypes /\ (\A t \in AllocThreads : Placed(worker[t])) /\ BitsHeld /\ ItemsExclusive
    /\ ClaimedOnce /\ Acyclic /\ RefsCounted /\ RootExact /\ RecycleCounted

-----------------------------------------------------------------------------
(* Lists of blocks                                                           *)

Closed(nx, S) == S \subseteq Blocks /\ \A y \in S : nx[y] \in S \cup {Null}

LEMMA NullNoBlock == Null \notin Blocks
<1>1. ASSUME NEW b \in Pages \X (1 .. PageSize) PROVE b # <<>>
  <2>1. PICK x, y : b = <<x, y>>
    OBVIOUS
  <2>2. Len(<<x, y>>) = 2 /\ Len(<<>>) = 0
    OBVIOUS
  <2> QED
    BY <2>1, <2>2
<1> QED
  BY <1>1 DEF Null, Blocks

\* A list is in every closed set that has its head, and it is closed.
LEMMA ReachLeast ==
    ASSUME NEW nx, NEW b, NEW S, Closed(nx, S), b \in S
    PROVE  Reach(nx, b) \subseteq S
BY DEF Reach, Closed

LEMMA ReachClosed ==
    ASSUME NEW nx \in [Blocks -> Blocks \cup {Null}], NEW b \in Blocks \cup {Null}
    PROVE  /\ Closed(nx, Reach(nx, b))
           /\ b = Null => Reach(nx, b) = {}
           /\ b # Null => b \in Reach(nx, b)
BY DEF Reach, Closed

LEMMA ReachUnfold ==
    ASSUME NEW nx \in [Blocks -> Blocks \cup {Null}], NEW b \in Blocks
    PROVE  Reach(nx, b) = {b} \cup Reach(nx, nx[b])
<1>1. b # Null /\ nx[b] \in Blocks \cup {Null}
  BY NullNoBlock
<1>2. Closed(nx, Reach(nx, b)) /\ b \in Reach(nx, b) /\ Closed(nx, Reach(nx, nx[b]))
  BY <1>1, ReachClosed
<1>3. nx[b] = Null => Reach(nx, nx[b]) = {}
  BY <1>1, ReachClosed
<1>4. nx[b] # Null => nx[b] \in Reach(nx, b) /\ nx[b] \in Reach(nx, nx[b])
  BY <1>1, <1>2, ReachClosed DEF Closed
<1>5. Reach(nx, nx[b]) \subseteq Reach(nx, b)
  BY <1>2, <1>3, <1>4, ReachLeast
<1>6. Closed(nx, {b} \cup Reach(nx, nx[b]))
  BY <1>1, <1>2, <1>4 DEF Closed
<1>7. Reach(nx, b) \subseteq {b} \cup Reach(nx, nx[b])
  BY <1>6, ReachLeast
<1> QED
  BY <1>2, <1>5, <1>7

\* What follows a member of a list is in the list.
LEMMA ReachOn ==
    ASSUME NEW nx \in [Blocks -> Blocks \cup {Null}], NEW h \in Blocks \cup {Null}, NEW x \in Reach(nx, h)
    PROVE  x \in Blocks /\ nx[x] \in Blocks \cup {Null} /\ Reach(nx, nx[x]) \subseteq Reach(nx, h)
<1>1. Closed(nx, Reach(nx, h))
  BY ReachClosed
<1>2. x \in Blocks /\ nx[x] \in Reach(nx, h) \cup {Null}
  BY <1>1 DEF Closed
<1>3. CASE nx[x] = Null
  BY <1>2, <1>3, ReachClosed
<1>4. CASE nx[x] # Null
  BY <1>1, <1>2, <1>4, ReachLeast
<1> QED
  BY <1>2, <1>3, <1>4

\* A list is the same when its links are.
LEMMA ReachKept ==
    ASSUME NEW nx \in [Blocks -> Blocks \cup {Null}], NEW h \in Blocks \cup {Null},
           NEW mx \in [Blocks -> Blocks \cup {Null}], \A y \in Reach(nx, h) : mx[y] = nx[y]
    PROVE  Reach(mx, h) = Reach(nx, h)
<1> DEFINE L == Reach(nx, h)
<1>2. Closed(nx, L) /\ (h = Null => L = {}) /\ (h # Null => h \in L)
  BY ReachClosed
<1>3. Closed(mx, L)
  BY <1>2 DEF Closed
<1>4. Closed(mx, Reach(mx, h)) /\ (h = Null => Reach(mx, h) = {}) /\ (h # Null => h \in Reach(mx, h))
  BY ReachClosed
<1>5. CASE h = Null
  BY <1>2, <1>4, <1>5
<1>6. CASE h # Null
  <2>1. Reach(mx, h) \subseteq L
    BY <1>2, <1>3, <1>6, ReachLeast
  <2>2. Closed(nx, Reach(mx, h))
    BY <1>4, <2>1 DEF Closed
  <2>3. L \subseteq Reach(mx, h)
    BY <1>4, <1>6, <2>2, ReachLeast
  <2> QED
    BY <2>1, <2>3
<1> QED
  BY <1>5, <1>6

\* So is every list inside it.
LEMMA StraightKept ==
    ASSUME NEW nx \in [Blocks -> Blocks \cup {Null}], NEW h \in Blocks \cup {Null},
           NEW mx \in [Blocks -> Blocks \cup {Null}], \A y \in Reach(nx, h) : mx[y] = nx[y],
           Straight(nx, h)
    PROVE  Straight(mx, h)
<1> SUFFICES ASSUME NEW x \in Reach(mx, h) PROVE x \notin Reach(mx, mx[x])
  BY DEF Straight
<1>1. x \in Reach(nx, h)
  BY ReachKept
<1>2. x \in Blocks /\ nx[x] \in Blocks \cup {Null} /\ Reach(nx, nx[x]) \subseteq Reach(nx, h)
  BY <1>1, ReachOn
<1>3. mx[x] = nx[x]
  BY <1>1, <1>2
<1>4. Reach(mx, nx[x]) = Reach(nx, nx[x])
  BY <1>2, ReachKept
<1> QED
  BY <1>1, <1>3, <1>4 DEF Straight

\* A list without b is the same after the link of b is set.
LEMMA LinkElsewhere ==
    ASSUME NEW nx \in [Blocks -> Blocks \cup {Null}], NEW h \in Blocks \cup {Null}, NEW b,
           NEW mx \in [Blocks -> Blocks \cup {Null}], \A y \in Blocks : y # b => mx[y] = nx[y],
           b \notin Reach(nx, h)
    PROVE  Reach(mx, h) = Reach(nx, h) /\ (Straight(nx, h) => Straight(mx, h))
<1>1. \A y \in Reach(nx, h) : mx[y] = nx[y]
  BY DEF Reach
<1> QED
  BY <1>1, ReachKept, StraightKept

\* The tail of a straight list is straight and without the head.
LEMMA StraightTail ==
    ASSUME NEW nx \in [Blocks -> Blocks \cup {Null}], NEW b \in Blocks, Straight(nx, b)
    PROVE  b \notin Reach(nx, nx[b]) /\ Straight(nx, nx[b])
BY ReachUnfold DEF Straight

\* A block put before a straight list that it is not in.
LEMMA StraightPush ==
    ASSUME NEW nx \in [Blocks -> Blocks \cup {Null}], NEW h \in Blocks \cup {Null},
           NEW b \in Blocks, b \notin Reach(nx, h), Straight(nx, h),
           NEW mx \in [Blocks -> Blocks \cup {Null}], \A y \in Blocks : y # b => mx[y] = nx[y], mx[b] = h
    PROVE  Reach(mx, b) = {b} \cup Reach(nx, h) /\ Straight(mx, b)
<1>2. Reach(mx, h) = Reach(nx, h) /\ Straight(mx, h)
  BY LinkElsewhere
<1>3. Reach(mx, b) = {b} \cup Reach(mx, h)
  BY ReachUnfold
<1>4. Straight(mx, b)
  BY <1>2, <1>3 DEF Straight
<1> QED
  BY <1>2, <1>3, <1>4

-----------------------------------------------------------------------------
(* Counting                                                                  *)

\* Two sets that differ in one element at most.
LEMMA OneDiffers ==
    ASSUME NEW S, NEW T, NEW t, IsFiniteSet(S), \A u : u # t => (u \in S <=> u \in T)
    PROVE  /\ IsFiniteSet(T) /\ Cardinality(S) \in Nat /\ Cardinality(T) \in Nat
           /\ Cardinality(T) + (IF t \in S THEN 1 ELSE 0) = Cardinality(S) + (IF t \in T THEN 1 ELSE 0)
<1>1. Cardinality(S) \in Nat
  BY FS_CardinalityType
<1>2. CASE t \in S <=> t \in T
  <2>1. S = T
    BY <1>2
  <2> QED
    BY <1>1, <1>2, <2>1
<1>3. CASE t \in S /\ t \notin T
  <2>1. T = S \ {t}
    BY <1>3
  <2>2. IsFiniteSet(T) /\ Cardinality(T) = Cardinality(S) - 1 /\ Cardinality(T) \in Nat
    BY <1>3, <2>1, FS_RemoveElement, FS_CardinalityType
  <2> QED
    BY <1>1, <1>3, <2>2
<1>4. CASE t \notin S /\ t \in T
  <2>1. T = S \cup {t}
    BY <1>4
  <2>2. IsFiniteSet(T) /\ Cardinality(T) = Cardinality(S) + 1
    BY <1>4, <2>1, FS_AddElement
  <2> QED
    BY <1>1, <1>4, <2>2
<1> QED
  BY <1>2, <1>3, <1>4

\* A set with one element at most.
LEMMA OneAtMost ==
    ASSUME NEW S, \A x, y \in S : x = y
    PROVE  Cardinality(S) = (IF S = {} THEN 0 ELSE 1) /\ IsFiniteSet(S)
<1>1. CASE S = {}
  BY <1>1, FS_EmptySet
<1>2. CASE S # {}
  <2>1. PICK x : S = {x}
    BY <1>2
  <2> QED
    BY <1>2, <2>1, FS_Singleton
<1> QED
  BY <1>1, <1>2

-----------------------------------------------------------------------------
(* Steps of the allocator                                                    *)

Steady == AllocTypes /\ \A u \in AllocThreads : Placed(worker[u])
Only(t) == t \in AllocThreads /\ \A u \in AllocThreads : u # t => worker'[u] = worker[u]

LEMMA BlocksFinite == IsFiniteSet(Blocks) /\ IsFiniteSet(AllocThreads)
<1>1. IsFiniteSet(1 .. PageSize)
  BY AllocAssumption, FS_Interval
<1> QED
  BY <1>1, AllocAssumption, FS_Product DEF Blocks

LEMMA HeadTyped ==
    ASSUME Steady, NEW t \in AllocThreads
    PROVE  HeadOf(worker[t], next) \in Blocks \cup {Null}
BY DEF Steady, AllocTypes, Placed, HeadOf, Linked

\* Setting the link of a block that u has nothing of leaves its list alone.
LEMMA TakenKept ==
    ASSUME Steady, Steady', NEW u \in AllocThreads, worker'[u] = worker[u],
           NEW q, \A y \in Blocks : y # q => next'[y] = next[y], q \notin Taken(u), ~Carried(u, q)
    PROVE  /\ Taken(u)' = Taken(u)
           /\ Straight(next, HeadOf(worker[u], next)) => Straight(next, HeadOf(worker[u], next))'
<1> DEFINE h == HeadOf(worker[u], next)
<1>1. h \in Blocks \cup {Null}
  BY HeadTyped
<1>2. HeadOf(worker'[u], next') = h
  BY DEF HeadOf, Carried, Carries, Steady, AllocTypes, Placed
<1>3. next \in [Blocks -> Blocks \cup {Null}] /\ next' \in [Blocks -> Blocks \cup {Null}]
  BY DEF Steady, AllocTypes, Linked
<1>4. q \notin Reach(next, h)
  BY DEF Taken, ListOf
<1> HIDE DEF h
<1>5. Reach(next', h) = Reach(next, h) /\ (Straight(next, h) => Straight(next', h))
  BY <1>1, <1>3, <1>4, LinkElsewhere
<1>6. Taken(u) = Reach(next, h) /\ Taken(u)' = Reach(next', h)
  BY <1>2 DEF Taken, ListOf, h
<1> QED
  BY <1>2, <1>5, <1>6 DEF h

LEMMA HeadKept ==
    ASSUME Steady, Steady', recycled_head' = recycled_head,
           NEW q, \A y \in Blocks : y # q => next'[y] = next[y], q \notin ListOf(recycled_head)
    PROVE  /\ ListOf(recycled_head)' = ListOf(recycled_head)
           /\ Straight(next, recycled_head) => Straight(next, recycled_head)'
<1>1. recycled_head \in Blocks \cup {Null}
  BY DEF Steady, AllocTypes, Linked
<1>3. next \in [Blocks -> Blocks \cup {Null}] /\ next' \in [Blocks -> Blocks \cup {Null}]
  BY DEF Steady, AllocTypes, Linked
<1>5. Reach(next', recycled_head) = Reach(next, recycled_head)
      /\ (Straight(next, recycled_head) => Straight(next', recycled_head))
  BY <1>1, <1>3, LinkElsewhere DEF ListOf
<1> QED
  BY <1>5 DEF ListOf

\* A step that changes no place of the pool.
LEMMA PoolKept ==
    ASSUME Steady, ClaimedOnce, Acyclic, NEW t, Only(t),
           next' = next, recycled_head' = recycled_head, control_blocks' = control_blocks,
           HeadOf(worker'[t], next) = HeadOf(worker[t], next)
    PROVE  /\ ListOf(recycled_head)' = ListOf(recycled_head)
           /\ \A u \in AllocThreads : Taken(u)' = Taken(u) /\ (u # t => \A b : Carried(u, b)' <=> Carried(u, b))
           /\ Acyclic' /\ Listed' = Listed /\ \A b \in Blocks : Pooled(b)' <=> Pooled(b)
           /\ managed' = managed /\ (\A b : Carried(t, b)' <=> Carried(t, b)) => ClaimedOnce'
<1>1. ListOf(recycled_head)' = ListOf(recycled_head)
  BY DEF ListOf
<1>2. ASSUME NEW u \in AllocThreads
      PROVE  HeadOf(worker'[u], next') = HeadOf(worker[u], next) /\ (u # t => \A b : Carried(u, b)' <=> Carried(u, b))
  BY DEF Only, Carried
<1>3. ASSUME NEW u \in AllocThreads PROVE Taken(u)' = Taken(u)
  BY <1>2 DEF Taken, ListOf
<1>4. Acyclic'
  BY <1>2 DEF Acyclic
<1>5. Listed' = Listed
  BY <1>1, <1>3 DEF Listed
<1>6. \A b \in Blocks : Pooled(b)' <=> Pooled(b)
  BY <1>5 DEF Pooled
<1>7. ASSUME managed' = managed, \A b : Carried(t, b)' <=> Carried(t, b) PROVE ClaimedOnce'
  <2>1. \A u \in AllocThreads : \A b : Carried(u, b)' <=> Carried(u, b)
    BY <1>2, <1>7
  <2> SUFFICES ASSUME NEW b \in Blocks PROVE Located(b)'
    BY DEF ClaimedOnce
  <2>2. Located(b)
    BY DEF ClaimedOnce
  <2> QED
    BY <1>1, <1>3, <1>7, <2>1, <2>2 DEF Located
<1> QED
  BY <1>1, <1>2, <1>3, <1>4, <1>5, <1>6, <1>7

\* A step that gives no bit and takes none.
LEMMA SlotsKept ==
    ASSUME BitsHeld, ItemsExclusive, NEW t, Only(t), worker'[t].pc # "count", items' = items, bitmap' = bitmap
    PROVE  BitsHeld' /\ ItemsExclusive'
BY DEF BitsHeld, ItemsExclusive, Only

\* The count of a block follows its items, its holders and its place.
LEMMA RefsStep ==
    ASSUME Steady, RefsCounted, NEW t, Only(t), NEW b \in Blocks, NEW i, \A j : j # i => (j \in items <=> j \in items'),
           ref_count'[b] + Num(i \in ItemsOf(b)) + Num(Holds(t, b)) + Num(Pooled(b))
             = ref_count[b] + Num(i \in ItemsOf(b)') + Num(Holds(t, b)') + Num(Pooled(b)'),
           ref_count'[b] \in Int
    PROVE  ref_count'[b] = Cardinality(ItemsOf(b)') + Cardinality(Holders(b)') + Num(Pooled(b)')
<1>1. IsFiniteSet(Holders(b))
  BY BlocksFinite, FS_Subset DEF Holders
<1>2. IsFiniteSet(ItemsOf(b))
  <2>1. IsFiniteSet(1 .. item_count)
    BY FS_Interval DEF Steady, AllocTypes
  <2>2. IsFiniteSet(Blocks \X Slots)
    BY <2>1, BlocksFinite, FS_Product DEF Slots
  <2> QED
    BY <2>2, FS_Subset DEF ItemsOf, Steady, AllocTypes
<1>3. \A u : u # t => (u \in Holders(b) <=> u \in Holders(b)')
  BY DEF Holders, Holds, Only
<1>4. \A j : j # i => (j \in ItemsOf(b) <=> j \in ItemsOf(b)')
  BY DEF ItemsOf
<1>5. (t \in Holders(b) <=> Holds(t, b)) /\ (t \in Holders(b)' <=> Holds(t, b)')
  BY DEF Holders, Only
<1>6. /\ Cardinality(Holders(b)) \in Nat /\ Cardinality(Holders(b)') \in Nat
      /\ Cardinality(Holders(b)') + Num(Holds(t, b)) = Cardinality(Holders(b)) + Num(Holds(t, b)')
  BY <1>1, <1>3, <1>5, OneDiffers DEF Num
<1>7. /\ Cardinality(ItemsOf(b)) \in Nat /\ Cardinality(ItemsOf(b)') \in Nat
      /\ Cardinality(ItemsOf(b)') + Num(i \in ItemsOf(b)) = Cardinality(ItemsOf(b)) + Num(i \in ItemsOf(b)')
  BY <1>2, <1>4, OneDiffers DEF Num
<1>8. ref_count[b] = Cardinality(ItemsOf(b)) + Cardinality(Holders(b)) + Num(Pooled(b)) /\ ref_count[b] \in Nat
  BY DEF RefsCounted, Steady, AllocTypes
<1>10. /\ Num(Holds(t, b)) \in {0, 1} /\ Num(Holds(t, b)') \in {0, 1} /\ Num(Pooled(b)) \in {0, 1}
       /\ Num(Pooled(b)') \in {0, 1} /\ Num(i \in ItemsOf(b)) \in {0, 1} /\ Num(i \in ItemsOf(b)') \in {0, 1}
  BY DEF Num
<1> QED
  BY <1>6, <1>7, <1>8, <1>10

\* A block that nothing counts.
LEMMA Uncounted ==
    ASSUME Steady, RefsCounted, NEW b \in Blocks
    PROVE  /\ ref_count[b] = 0 => ~Pooled(b) /\ (\A u \in AllocThreads : ~Holds(u, b)) /\ (\A i \in items : i[1] # b)
           /\ \A u \in AllocThreads : Holds(u, b) => ref_count[b] > 0
<1>1. IsFiniteSet(Holders(b))
  BY BlocksFinite, FS_Subset DEF Holders
<1>2. IsFiniteSet(ItemsOf(b))
  <2>1. IsFiniteSet(1 .. item_count)
    BY FS_Interval DEF Steady, AllocTypes
  <2>2. IsFiniteSet(Blocks \X Slots)
    BY <2>1, BlocksFinite, FS_Product DEF Slots
  <2> QED
    BY <2>2, FS_Subset DEF ItemsOf, Steady, AllocTypes
<1>3. /\ Cardinality(Holders(b)) \in Nat /\ Cardinality(ItemsOf(b)) \in Nat
      /\ (Cardinality(Holders(b)) = 0 <=> Holders(b) = {}) /\ (Cardinality(ItemsOf(b)) = 0 <=> ItemsOf(b) = {})
  BY <1>1, <1>2, FS_CardinalityType, FS_EmptySet
<1>4. ref_count[b] = Cardinality(ItemsOf(b)) + Cardinality(Holders(b)) + Num(Pooled(b)) /\ ref_count[b] \in Nat
  BY DEF RefsCounted, Steady, AllocTypes
<1>5. Num(Pooled(b)) \in {0, 1} /\ (Pooled(b) => Num(Pooled(b)) = 1)
  BY DEF Num
<1>6. ref_count[b] = 0 => ~Pooled(b) /\ Holders(b) = {} /\ ItemsOf(b) = {}
  BY <1>3, <1>4, <1>5
<1>7. ref_count[b] = 0 => ~Pooled(b) /\ (\A u \in AllocThreads : ~Holds(u, b)) /\ (\A i \in items : i[1] # b)
  BY <1>6 DEF Holders, ItemsOf
<1>8. \A u \in AllocThreads : Holds(u, b) => ref_count[b] > 0
  BY <1>4, <1>7
<1> QED
  BY <1>7, <1>8

\* recycle_count follows the lists and the threads.
LEMMA RecycleStep ==
    ASSUME Steady, RecycleCounted, NEW t, Only(t), NEW b, \A x : x # b => (x \in Listed <=> x \in Listed'),
           recycle_count' \in Int,
           recycle_count' + Num(b \in Listed) + Num(t \in Between)
             = recycle_count + Num(b \in Listed') + Num(t \in Between'),
           \/ recycle_count' + Num(t \in Racing') <= recycle_count + Num(t \in Racing)
           \/ recycle_count' < MaxRecycled
    PROVE  RecycleCounted'
<1>1. IsFiniteSet(Listed) /\ IsFiniteSet(Between) /\ IsFiniteSet(Racing)
  BY BlocksFinite, FS_Subset DEF Listed, Between, Racing
<1>2. \A u : u # t => (u \in Between <=> u \in Between') /\ (u \in Racing <=> u \in Racing')
  BY DEF Between, Racing, Only
<1>3. /\ Cardinality(Listed) \in Nat /\ Cardinality(Listed') \in Nat
      /\ Cardinality(Listed') + Num(b \in Listed) = Cardinality(Listed) + Num(b \in Listed')
  BY <1>1, OneDiffers DEF Num
<1>4. /\ Cardinality(Between) \in Nat /\ Cardinality(Between') \in Nat
      /\ Cardinality(Between') + Num(t \in Between) = Cardinality(Between) + Num(t \in Between')
  BY <1>1, <1>2, OneDiffers DEF Num
<1>5. /\ Cardinality(Racing) \in Nat /\ Cardinality(Racing') \in Nat
      /\ Cardinality(Racing') + Num(t \in Racing) = Cardinality(Racing) + Num(t \in Racing')
  BY <1>1, <1>2, OneDiffers DEF Num
<1>6. Racing' \subseteq AllocThreads
  BY DEF Racing
<1>7. Cardinality(Racing') <= Cardinality(AllocThreads) /\ Cardinality(AllocThreads) \in Nat
  BY <1>6, BlocksFinite, FS_Subset, FS_CardinalityType
<1>8. /\ Num(b \in Listed) \in {0, 1} /\ Num(b \in Listed') \in {0, 1} /\ Num(t \in Between) \in {0, 1}
      /\ Num(t \in Between') \in {0, 1} /\ Num(t \in Racing) \in {0, 1} /\ Num(t \in Racing') \in {0, 1}
  BY DEF Num
<1>9. recycle_count = Cardinality(Listed) + Cardinality(Between) /\ recycle_count \in Nat /\ MaxRecycled \in Nat
      /\ recycle_count + Cardinality(Racing) < MaxRecycled + Cardinality(AllocThreads)
  BY AllocAssumption DEF RecycleCounted, Steady, AllocTypes
<1>10. recycle_count' = Cardinality(Listed') + Cardinality(Between')
  BY <1>3, <1>4, <1>8, <1>9
<1>11. recycle_count' + Cardinality(Racing') < MaxRecycled + Cardinality(AllocThreads)
  BY <1>5, <1>7, <1>8, <1>9
<1> QED
  BY <1>10, <1>11 DEF RecycleCounted

\* Nothing of what the count of a block is made of has changed.
LEMMA RefsQuiet ==
    ASSUME Steady, RefsCounted, RootExact, NEW t, Only(t),
           rootPages' = rootPages, rootBits' = rootBits, ref_count' = ref_count, items' = items,
           \A b : Holds(t, b)' <=> Holds(t, b), \A b \in Blocks : Pooled(b)' <=> Pooled(b)
    PROVE  RefsCounted' /\ RootExact'
<1>1. ASSUME NEW b \in Blocks
      PROVE  ref_count'[b] = Cardinality(ItemsOf(b)') + Cardinality(Holders(b)') + Num(Pooled(b)')
  <2>1. ItemsOf(b)' = ItemsOf(b)
    BY DEF ItemsOf
  <2>2. Holders(b)' = Holders(b)
    BY DEF Holders, Only, Holds
  <2>3. Num(Pooled(b)') = Num(Pooled(b))
    BY DEF Num
  <2> QED
    BY <2>1, <2>2, <2>3 DEF RefsCounted
<1>2. RefsCounted'
  BY <1>1 DEF RefsCounted
<1>3. RootExact'
  BY DEF RootExact
<1> QED
  BY <1>2, <1>3

\* The same for recycle_count.
LEMMA RecycleQuiet ==
    ASSUME Steady, RecycleCounted, NEW t, Only(t), Listed' = Listed, recycle_count' = recycle_count,
           t \in Between' <=> t \in Between, (t \in Racing' => t \in Racing) \/ recycle_count < MaxRecycled
    PROVE  RecycleCounted'
<1>1. \A x : x # Null => (x \in Listed <=> x \in Listed')
  OBVIOUS
<1>2. recycle_count' \in Int /\ MaxRecycled \in Nat
  BY AllocAssumption DEF Steady, AllocTypes
<1>3. /\ Num(Null \in Listed') = Num(Null \in Listed) /\ Num(t \in Between') = Num(t \in Between)
      /\ Num(t \in Racing) \in {0, 1} /\ Num(t \in Racing') \in {0, 1}
      /\ (t \in Racing' => t \in Racing) => Num(t \in Racing') <= Num(t \in Racing)
  BY DEF Num
<1>4. /\ recycle_count' + Num(Null \in Listed) + Num(t \in Between)
           = recycle_count + Num(Null \in Listed') + Num(t \in Between')
      /\ \/ recycle_count' + Num(t \in Racing') <= recycle_count + Num(t \in Racing)
         \/ recycle_count' < MaxRecycled
  BY <1>2, <1>3
<1> QED
  BY <1>1, <1>2, <1>4, RecycleStep

\* A step that changes nothing but where the thread is.
LEMMA QuietKeeps ==
    ASSUME AllocInv, Steady', NEW t, Only(t),
           rootPages' = rootPages, rootBits' = rootBits, ref_count' = ref_count, managed' = managed,
           bitmap' = bitmap, next' = next, control_blocks' = control_blocks, recycled_head' = recycled_head,
           recycle_count' = recycle_count, items' = items,
           worker'[t].pc # "count", HeadOf(worker'[t], next) = HeadOf(worker[t], next),
           \A b : Carried(t, b)' <=> Carried(t, b), \A b : Holds(t, b)' <=> Holds(t, b),
           t \in Between' <=> t \in Between, (t \in Racing' => t \in Racing) \/ recycle_count < MaxRecycled
    PROVE  AllocInv'
<1>1. Steady /\ BitsHeld /\ ItemsExclusive /\ ClaimedOnce /\ Acyclic /\ RefsCounted /\ RootExact /\ RecycleCounted
  BY DEF AllocInv, Steady
<1>2. BitsHeld' /\ ItemsExclusive'
  BY <1>1, SlotsKept
<1>3. ClaimedOnce' /\ Acyclic' /\ Listed' = Listed /\ \A b \in Blocks : Pooled(b)' <=> Pooled(b)
  BY <1>1, PoolKept
<1>4. RefsCounted' /\ RootExact'
  BY <1>1, <1>3, RefsQuiet
<1>5. RecycleCounted'
  BY <1>1, <1>3, RecycleQuiet
<1> QED
  BY <1>2, <1>3, <1>4, <1>5 DEF AllocInv, Steady

WorkerSet == [pc : AllocPCs, block : Linked, slot : Nat, list : Linked]

LEMMA AllocBeginKeeps ==
    ASSUME AllocInv, NEW t \in AllocThreads, AllocBegin(t)
    PROVE  AllocInv'
<1>1. AllocTypes /\ (\A u \in AllocThreads : Placed(worker[u])) /\ ControlBlocks \in Nat \ {0}
  BY AllocAssumption DEF AllocInv
<1>2. /\ worker[t].pc = "rest" /\ worker'[t] = [pc |-> "control", block |-> Null, slot |-> 1, list |-> Null]
      /\ worker' \in [AllocThreads -> WorkerSet] /\ \A u \in AllocThreads : u # t => worker'[u] = worker[u]
  BY <1>1 DEF AllocBegin, Resting, AllocTypes, WorkerSet, AllocPCs, Linked
<1>3. Steady' /\ Only(t)
  BY <1>1, <1>2 DEF Steady, AllocTypes, Placed, Only, AllocBegin, rootVars, blockVars, poolVars, Slots, Linked, WorkerSet
<1>4. HeadOf(worker'[t], next) = HeadOf(worker[t], next) /\ worker'[t].pc # "count"
  BY <1>2 DEF HeadOf
<1>5. /\ \A b : Carried(t, b)' <=> Carried(t, b)
      /\ \A b : Holds(t, b)' <=> Holds(t, b)
      /\ t \in Between' <=> t \in Between
      /\ t \in Racing' => t \in Racing
  BY <1>2 DEF Carried, Carries, Holds, Between, Racing
<1> QED
  BY <1>3, <1>4, <1>5, QuietKeeps DEF AllocBegin, rootVars, blockVars, poolVars

LEMMA LoadMaskKeeps ==
    ASSUME AllocInv, NEW t \in AllocThreads, LoadMask(t)
    PROVE  AllocInv'
<1>1. AllocTypes /\ (\A u \in AllocThreads : Placed(worker[u]))
  BY DEF AllocInv
<1> DEFINE free == Slots \ bitmap[worker[t].block]
<1>2. free \subseteq Slots /\ free \in SUBSET Nat /\ (free # {} => Min(free) \in free)
  <2>1. free \subseteq Slots /\ free \in SUBSET Nat
    BY DEF Slots
  <2> QED
    BY <2>1, MinIn
<1>3. /\ worker[t].pc = "mask" /\ worker'[t].block = worker[t].block
      /\ \/ worker'[t].pc = "full"
         \/ worker'[t].pc = "bit" /\ worker'[t].slot \in Slots
      /\ worker' \in [AllocThreads -> WorkerSet] /\ \A u \in AllocThreads : u # t => worker'[u] = worker[u]
  BY <1>1, <1>2, ZenonT(60) DEF LoadMask, AllocTypes, WorkerSet, AllocPCs
<1>4. Steady' /\ Only(t)
  BY <1>1, <1>3 DEF Steady, AllocTypes, Placed, Only, LoadMask, rootVars, blockVars, poolVars, Slots, Linked, WorkerSet
<1>5. HeadOf(worker'[t], next) = HeadOf(worker[t], next) /\ worker'[t].pc # "count"
  BY <1>3 DEF HeadOf
<1>6. /\ \A b : Carried(t, b)' <=> Carried(t, b)
      /\ \A b : Holds(t, b)' <=> Holds(t, b)
      /\ t \in Between' <=> t \in Between
      /\ t \in Racing' => t \in Racing
  BY <1>3 DEF Carried, Carries, Holds, Between, Racing
<1> QED
  BY <1>4, <1>5, <1>6, QuietKeeps DEF LoadMask, rootVars, blockVars, poolVars

LEMMA RecycleTestKeeps ==
    ASSUME AllocInv, NEW t \in AllocThreads, RecycleTest(t)
    PROVE  AllocInv'
<1>1. AllocTypes /\ (\A u \in AllocThreads : Placed(worker[u]))
  BY DEF AllocInv
<1>3. /\ worker[t].pc = "recycle" /\ worker'[t].block = worker[t].block
      /\ worker'[t].pc = "try_free" \/ (worker'[t].pc = "manage" /\ recycle_count < MaxRecycled)
      /\ worker' \in [AllocThreads -> WorkerSet] /\ \A u \in AllocThreads : u # t => worker'[u] = worker[u]
  BY <1>1, ZenonT(60) DEF RecycleTest, Goto, AllocTypes, WorkerSet, AllocPCs
<1>4. Steady' /\ Only(t)
  BY <1>1, <1>3 DEF Steady, AllocTypes, Placed, Only, RecycleTest, rootVars, blockVars, poolVars, Slots, Linked, WorkerSet
<1>5. HeadOf(worker'[t], next) = HeadOf(worker[t], next) /\ worker'[t].pc # "count"
  BY <1>3 DEF HeadOf
<1>6. /\ \A b : Carried(t, b)' <=> Carried(t, b)
      /\ \A b : Holds(t, b)' <=> Holds(t, b)
      /\ t \in Between' <=> t \in Between
      /\ (t \in Racing' => t \in Racing) \/ recycle_count < MaxRecycled
  BY <1>3 DEF Carried, Carries, Holds, Between, Racing
<1> QED
  BY <1>4, <1>5, <1>6, QuietKeeps DEF RecycleTest, rootVars, blockVars, poolVars

LEMMA SetBitKeeps ==
    ASSUME AllocInv, NEW t \in AllocThreads, SetBit(t)
    PROVE  AllocInv'
<1>1. AllocTypes /\ (\A u \in AllocThreads : Placed(worker[u])) /\ Steady /\ ClaimedOnce /\ Acyclic
      /\ RefsCounted /\ RootExact /\ RecycleCounted /\ BitsHeld /\ ItemsExclusive
  BY DEF AllocInv, Steady
<1> DEFINE b == worker[t].block
           s == worker[t].slot
<1>2. /\ worker[t].pc = "bit" /\ b \in Blocks /\ s \in Slots /\ bitmap' = [bitmap EXCEPT ![b] = @ \cup {s}]
      /\ worker'[t].block = b /\ worker'[t].slot = s
      /\ \/ s \in bitmap[b] /\ worker'[t].pc = "full"
         \/ s \notin bitmap[b] /\ worker'[t].pc = "count"
      /\ worker' \in [AllocThreads -> WorkerSet] /\ \A u \in AllocThreads : u # t => worker'[u] = worker[u]
      /\ rootPages' = rootPages /\ rootBits' = rootBits /\ ref_count' = ref_count /\ managed' = managed
      /\ next' = next /\ control_blocks' = control_blocks /\ recycled_head' = recycled_head
      /\ recycle_count' = recycle_count /\ items' = items /\ item_count' = item_count /\ calls' = calls
  BY <1>1, ZenonT(60) DEF SetBit, Goto, AllocTypes, WorkerSet, AllocPCs, Placed, rootVars, poolVars
<1> HIDE DEF b, s
<1>3. bitmap' \in [Blocks -> SUBSET Slots] /\ s \in bitmap'[b]
      /\ \A x \in Blocks : bitmap[x] \subseteq bitmap'[x]
  BY <1>1, <1>2 DEF AllocTypes
<1>4. Steady' /\ Only(t)
  BY <1>1, <1>2, <1>3 DEF Steady, AllocTypes, Placed, Only, Slots, Linked, WorkerSet
<1>5. HeadOf(worker'[t], next) = HeadOf(worker[t], next)
  BY <1>2 DEF HeadOf
<1>6. /\ \A x : Carried(t, x)' <=> Carried(t, x)
      /\ \A x : Holds(t, x)' <=> Holds(t, x)
      /\ t \in Between' <=> t \in Between
      /\ t \in Racing' => t \in Racing
  BY <1>2 DEF Carried, Carries, Holds, Between, Racing, b
<1>7. ClaimedOnce' /\ Acyclic' /\ Listed' = Listed /\ \A x \in Blocks : Pooled(x)' <=> Pooled(x)
  BY <1>1, <1>2, <1>4, <1>5, <1>6, PoolKept
<1>8. RefsCounted' /\ RootExact'
  BY <1>1, <1>2, <1>4, <1>6, <1>7, RefsQuiet
<1>9. RecycleCounted'
  BY <1>1, <1>2, <1>4, <1>6, <1>7, RecycleQuiet
<1>10. BitsHeld'
  <2>1. \A i \in items : i[1] \in Blocks
    BY <1>1 DEF AllocTypes
  <2>2. \A i \in items' : i[2] \in bitmap'[i[1]]
    BY <1>1, <1>2, <1>3, <2>1 DEF BitsHeld
  <2>3. \A u \in AllocThreads : worker[u].pc = "count" => worker[u].block \in Blocks
    BY <1>1 DEF Placed
  <2>4. \A u \in AllocThreads : worker'[u].pc = "count" => worker'[u].slot \in bitmap'[worker'[u].block]
    BY <1>1, <1>2, <1>3, <2>3 DEF BitsHeld
  <2> QED
    BY <2>2, <2>4 DEF BitsHeld
<1>11. ItemsExclusive'
  <2>1. s \notin bitmap[b] => <<b, s>> \notin items
    BY <1>1 DEF BitsHeld
  <2>2. ASSUME s \notin bitmap[b], NEW u \in AllocThreads, u # t, worker[u].pc = "count"
        PROVE  <<worker[u].block, worker[u].slot>> # <<b, s>>
    BY <1>1, <2>2 DEF BitsHeld
  <2> QED
    BY <1>1, <1>2, <2>1, <2>2 DEF ItemsExclusive
<1> QED
  BY <1>4, <1>7, <1>8, <1>9, <1>10, <1>11 DEF AllocInv, Steady

LEMMA CountItemKeeps ==
    ASSUME AllocInv, NEW t \in AllocThreads, CountItem(t)
    PROVE  AllocInv'
<1>1. AllocTypes /\ (\A u \in AllocThreads : Placed(worker[u])) /\ Steady /\ ClaimedOnce /\ Acyclic
      /\ RefsCounted /\ RootExact /\ RecycleCounted /\ BitsHeld /\ ItemsExclusive
  BY DEF AllocInv, Steady
<1> DEFINE b == worker[t].block
           i == <<b, worker[t].slot>>
<1>2. /\ worker[t].pc = "count" /\ b \in Blocks /\ worker[t].slot \in Slots
      /\ ref_count' = [ref_count EXCEPT ![b] = @ + 1] /\ items' = items \cup {i}
      /\ worker'[t].block = b /\ worker'[t].pc = "recycle"
      /\ worker' \in [AllocThreads -> WorkerSet] /\ \A u \in AllocThreads : u # t => worker'[u] = worker[u]
      /\ rootPages' = rootPages /\ rootBits' = rootBits /\ bitmap' = bitmap /\ managed' = managed
      /\ next' = next /\ control_blocks' = control_blocks /\ recycled_head' = recycled_head
      /\ recycle_count' = recycle_count /\ item_count' = item_count /\ calls' = calls
  BY <1>1 DEF CountItem, Goto, AllocTypes, WorkerSet, AllocPCs, Placed, rootVars, poolVars
<1>3. i \in Blocks \X Slots /\ i[1] = b /\ i[2] \in bitmap[b] /\ i \notin items
  BY <1>1, <1>2 DEF BitsHeld, ItemsExclusive
<1>12. \A u \in AllocThreads : u # t /\ worker[u].pc = "count" => <<worker[u].block, worker[u].slot>> # i
  BY <1>1, <1>2 DEF ItemsExclusive
<1> HIDE DEF b, i
<1>13. ref_count[b] \in Nat /\ ref_count'[b] = ref_count[b] + 1 /\ \A x \in Blocks : x # b => ref_count'[x] = ref_count[x]
  BY <1>1, <1>2 DEF AllocTypes
<1>4. Steady' /\ Only(t)
  <2>1. ref_count' \in [Blocks -> Nat] /\ items' \subseteq Blocks \X Slots
    BY <1>1, <1>2, <1>3, <1>13 DEF AllocTypes
  <2>2. AllocTypes'
    BY <1>1, <1>2, <2>1 DEF AllocTypes, Slots, Linked, WorkerSet
  <2>3. \A u \in AllocThreads : Placed(worker[u])'
    BY <1>1, <1>2 DEF Placed, Slots
  <2> QED
    BY <1>2, <2>2, <2>3 DEF Steady, Only
<1>5. HeadOf(worker'[t], next) = HeadOf(worker[t], next)
  BY <1>2 DEF HeadOf
<1>6. /\ \A x : Carried(t, x)' <=> Carried(t, x)
      /\ \A x : (Holds(t, x)' <=> x = b) /\ (Holds(t, x) <=> x = b)
      /\ t \in Between' <=> t \in Between
      /\ t \in Racing' => t \in Racing
  BY <1>2 DEF Carried, Carries, Holds, Between, Racing, b
<1>7. ClaimedOnce' /\ Acyclic' /\ Listed' = Listed /\ \A x \in Blocks : Pooled(x)' <=> Pooled(x)
  BY <1>1, <1>2, <1>4, <1>5, <1>6, PoolKept
<1>8. RefsCounted'
  <2> SUFFICES ASSUME NEW x \in Blocks
               PROVE  ref_count'[x] = Cardinality(ItemsOf(x)') + Cardinality(Holders(x)') + Num(Pooled(x)')
    BY DEF RefsCounted
  <2>1. \A j : j # i => (j \in items <=> j \in items')
    BY <1>2
  <2>2. i \notin ItemsOf(x) /\ (i \in ItemsOf(x)' <=> x = b)
    BY <1>2, <1>3 DEF ItemsOf
  <2>3. ref_count[x] \in Nat /\ ref_count'[x] = ref_count[x] + Num(x = b)
    BY <1>1, <1>13 DEF Num, AllocTypes
  <2>4. ref_count'[x] + Num(i \in ItemsOf(x)) + Num(Holds(t, x)) + Num(Pooled(x))
             = ref_count[x] + Num(i \in ItemsOf(x)') + Num(Holds(t, x)') + Num(Pooled(x)')
    BY <1>6, <1>7, <2>2, <2>3 DEF Num
  <2>5. ref_count'[x] \in Int
    BY <2>3 DEF Num
  <2> QED
    BY <1>1, <1>4, <2>1, <2>4, <2>5, RefsStep
<1>9. RootExact'
  <2>1. ref_count[b] > 0
    BY <1>1, <1>2, <1>6, Uncounted
  <2>2. \A x \in Blocks : ref_count'[x] > 0 <=> ref_count[x] > 0
    BY <1>13, <2>1
  <2> QED
    BY <1>1, <1>2, <2>2 DEF RootExact
<1>10. RecycleCounted'
  BY <1>1, <1>2, <1>4, <1>6, <1>7, RecycleQuiet
<1>11. BitsHeld' /\ ItemsExclusive'
  BY <1>1, <1>2, <1>3, <1>12 DEF BitsHeld, ItemsExclusive
<1> QED
  BY <1>4, <1>7, <1>8, <1>9, <1>10, <1>11 DEF AllocInv, Steady

LEMMA DeallocateKeeps ==
    ASSUME AllocInv, NEW t \in AllocThreads, NEW i \in items, Deallocate(t, i)
    PROVE  AllocInv'
<1>1. AllocTypes /\ (\A u \in AllocThreads : Placed(worker[u])) /\ Steady /\ ClaimedOnce /\ Acyclic
      /\ RefsCounted /\ RootExact /\ RecycleCounted /\ BitsHeld /\ ItemsExclusive
  BY DEF AllocInv, Steady
<1>2. i[1] \in Blocks /\ i[2] \in Slots /\ i = <<i[1], i[2]>>
  BY <1>1 DEF AllocTypes
<1>3. /\ worker[t].pc = "rest" /\ items' = items \ {i} /\ bitmap' = [bitmap EXCEPT ![i[1]] = @ \ {i[2]}]
      /\ worker'[t].block = i[1] /\ worker'[t].pc = "recycle"
      /\ worker' \in [AllocThreads -> WorkerSet] /\ \A u \in AllocThreads : u # t => worker'[u] = worker[u]
      /\ rootPages' = rootPages /\ rootBits' = rootBits /\ ref_count' = ref_count /\ managed' = managed
      /\ next' = next /\ control_blocks' = control_blocks /\ recycled_head' = recycled_head
      /\ recycle_count' = recycle_count /\ item_count' = item_count /\ calls' = calls
  <2>1. worker \in [AllocThreads -> WorkerSet] /\ i[1] \in Linked /\ "recycle" \in AllocPCs
    BY <1>1, <1>2 DEF AllocTypes, WorkerSet, AllocPCs, Linked
  <2>2. worker' = [worker EXCEPT ![t].pc = "recycle", ![t].block = i[1]]
    BY DEF Deallocate, GotoWith
  <2>3. /\ worker'[t].block = i[1] /\ worker'[t].pc = "recycle"
        /\ worker' \in [AllocThreads -> WorkerSet] /\ \A u \in AllocThreads : u # t => worker'[u] = worker[u]
    BY <2>1, <2>2 DEF WorkerSet
  <2> QED
    BY <2>3 DEF Deallocate, rootVars, poolVars
<1>13. bitmap' \in [Blocks -> SUBSET Slots] /\ \A x \in Blocks : \A s : s \in bitmap[x] /\ <<x, s>> # i => s \in bitmap'[x]
  BY <1>1, <1>2, <1>3 DEF AllocTypes
<1>4. Steady' /\ Only(t)
  BY <1>1, <1>2, <1>3, <1>13 DEF Steady, AllocTypes, Placed, Only, Slots, Linked, WorkerSet
<1>5. HeadOf(worker'[t], next) = HeadOf(worker[t], next)
  BY <1>3 DEF HeadOf
<1>6. /\ \A x : Carried(t, x)' <=> Carried(t, x)
      /\ \A x : (Holds(t, x)' <=> x = i[1]) /\ ~Holds(t, x)
      /\ t \in Between' <=> t \in Between
      /\ t \in Racing' => t \in Racing
  BY <1>3 DEF Carried, Carries, Holds, Between, Racing
<1>7. ClaimedOnce' /\ Acyclic' /\ Listed' = Listed /\ \A x \in Blocks : Pooled(x)' <=> Pooled(x)
  BY <1>1, <1>3, <1>4, <1>5, <1>6, PoolKept
<1>8. RefsCounted'
  <2> SUFFICES ASSUME NEW x \in Blocks
               PROVE  ref_count'[x] = Cardinality(ItemsOf(x)') + Cardinality(Holders(x)') + Num(Pooled(x)')
    BY DEF RefsCounted
  <2>1. \A j : j # i => (j \in items <=> j \in items')
    BY <1>3
  <2>2. (i \in ItemsOf(x) <=> x = i[1]) /\ i \notin ItemsOf(x)'
    BY <1>3 DEF ItemsOf
  <2>3. ref_count[x] \in Nat /\ ref_count'[x] = ref_count[x]
    BY <1>1, <1>3 DEF AllocTypes
  <2>4. ref_count'[x] + Num(i \in ItemsOf(x)) + Num(Holds(t, x)) + Num(Pooled(x))
             = ref_count[x] + Num(i \in ItemsOf(x)') + Num(Holds(t, x)') + Num(Pooled(x)')
    BY <1>6, <1>7, <2>2, <2>3 DEF Num
  <2> QED
    BY <1>1, <1>4, <2>1, <2>3, <2>4, RefsStep
<1>9. RootExact'
  BY <1>1, <1>3 DEF RootExact
<1>10. RecycleCounted'
  BY <1>1, <1>3, <1>4, <1>6, <1>7, RecycleQuiet
<1>11. BitsHeld'
  <2>1. \A j \in items : j[1] \in Blocks /\ j = <<j[1], j[2]>>
    BY <1>1 DEF AllocTypes
  <2>2. \A j \in items' : j[2] \in bitmap'[j[1]]
    BY <1>1, <1>3, <1>13, <2>1 DEF BitsHeld
  <2>3. \A u \in AllocThreads : worker[u].pc = "count" =>
           worker[u].block \in Blocks /\ <<worker[u].block, worker[u].slot>> # i
    BY <1>1 DEF Placed, ItemsExclusive
  <2>4. \A u \in AllocThreads : worker'[u].pc = "count" => worker'[u].slot \in bitmap'[worker'[u].block]
    BY <1>1, <1>3, <1>13, <2>3 DEF BitsHeld
  <2> QED
    BY <2>2, <2>4 DEF BitsHeld
<1>12. ItemsExclusive'
  BY <1>1, <1>3 DEF ItemsExclusive
<1> QED
  BY <1>4, <1>7, <1>8, <1>9, <1>10, <1>11, <1>12 DEF AllocInv, Steady

\* What every step finds.
LEMMA AllocParts ==
    AllocInv => /\ AllocTypes /\ (\A u \in AllocThreads : Placed(worker[u])) /\ Steady /\ ClaimedOnce /\ Acyclic
                /\ RefsCounted /\ RootExact /\ RecycleCounted /\ BitsHeld /\ ItemsExclusive
BY DEF AllocInv, Steady

\* The lists are the same, whatever becomes of the other places.
LEMMA ListsKept ==
    ASSUME Acyclic, NEW t, Only(t), next' = next, recycled_head' = recycled_head,
           HeadOf(worker'[t], next) = HeadOf(worker[t], next)
    PROVE  /\ ListOf(recycled_head)' = ListOf(recycled_head)
           /\ \A u \in AllocThreads : Taken(u)' = Taken(u)
           /\ \A u \in AllocThreads : u # t => \A b : Carried(u, b)' <=> Carried(u, b)
           /\ Acyclic' /\ Listed' = Listed
<1>1. ListOf(recycled_head)' = ListOf(recycled_head)
  BY DEF ListOf
<1>2. ASSUME NEW u \in AllocThreads PROVE HeadOf(worker'[u], next') = HeadOf(worker[u], next)
  BY DEF Only
<1>3. ASSUME NEW u \in AllocThreads PROVE Taken(u)' = Taken(u)
  BY <1>2 DEF Taken, ListOf
<1>4. Acyclic'
  BY <1>2 DEF Acyclic
<1>5. Listed' = Listed
  BY <1>1, <1>3 DEF Listed
<1>6. \A u \in AllocThreads : u # t => \A b : Carried(u, b)' <=> Carried(u, b)
  BY DEF Only, Carried
<1> QED
  BY <1>1, <1>3, <1>4, <1>5, <1>6

\* The counts of the blocks when no item comes or goes.
LEMMA HoldersStep ==
    ASSUME Steady, RefsCounted, NEW t, Only(t), items' = items, ref_count' \in [Blocks -> Int],
           \A b \in Blocks : ref_count'[b] + Num(Holds(t, b)) + Num(Pooled(b))
                               = ref_count[b] + Num(Holds(t, b)') + Num(Pooled(b)')
    PROVE  RefsCounted'
<1> SUFFICES ASSUME NEW b \in Blocks
             PROVE  ref_count'[b] = Cardinality(ItemsOf(b)') + Cardinality(Holders(b)') + Num(Pooled(b)')
  BY DEF RefsCounted
<1>1. Num(Null \in ItemsOf(b)') = Num(Null \in ItemsOf(b)) /\ Num(Null \in ItemsOf(b)) \in Int
  BY DEF ItemsOf, Num
<1>2. ref_count'[b] \in Int /\ ref_count[b] \in Int
  BY DEF Steady, AllocTypes
<1>3. /\ Num(Holds(t, b)) \in Int /\ Num(Pooled(b)) \in Int /\ Num(Holds(t, b)') \in Int /\ Num(Pooled(b)') \in Int
  BY DEF Num
<1>4. ref_count'[b] + Num(Null \in ItemsOf(b)) + Num(Holds(t, b)) + Num(Pooled(b))
        = ref_count[b] + Num(Null \in ItemsOf(b)') + Num(Holds(t, b)') + Num(Pooled(b)')
  <2>1. ref_count'[b] + Num(Holds(t, b)) + Num(Pooled(b)) = ref_count[b] + Num(Holds(t, b)') + Num(Pooled(b)')
    OBVIOUS
  <2> QED
    BY <1>1, <1>2, <1>3, <2>1
<1>5. \A j : j # Null => (j \in items <=> j \in items')
  OBVIOUS
<1> QED
  BY <1>2, <1>4, <1>5, RefsStep

LEMMA TakeControlKeeps ==
    ASSUME AllocInv, NEW t \in AllocThreads, TakeControl(t)
    PROVE  AllocInv'
<1> DEFINE c == worker[t].slot
           b == control_blocks[c]
<1>1. AllocTypes /\ (\A u \in AllocThreads : Placed(worker[u])) /\ Steady /\ ClaimedOnce /\ Acyclic
      /\ RefsCounted /\ RootExact /\ RecycleCounted /\ BitsHeld /\ ItemsExclusive
  BY AllocParts
<1>2. /\ worker[t].pc = "control" /\ c \in 1 .. ControlBlocks /\ ControlBlocks \in Nat
      /\ control_blocks' = [control_blocks EXCEPT ![c] = Null]
      /\ worker' \in [AllocThreads -> WorkerSet] /\ \A u \in AllocThreads : u # t => worker'[u] = worker[u]
      /\ rootPages' = rootPages /\ rootBits' = rootBits /\ ref_count' = ref_count /\ managed' = managed
      /\ bitmap' = bitmap /\ next' = next /\ recycled_head' = recycled_head
      /\ recycle_count' = recycle_count /\ items' = items /\ item_count' = item_count /\ calls' = calls
      /\ \/ b # Null /\ b \in Blocks /\ worker'[t].pc = "unmanage" /\ worker'[t].block = b
         \/ /\ b = Null
            /\ \/ worker'[t].pc = "recycled"
               \/ worker'[t].pc = "control" /\ worker'[t].slot \in 1 .. ControlBlocks
  <2>1. worker[t].pc = "control" /\ c \in 1 .. ControlBlocks /\ ControlBlocks \in Nat /\ c + 1 \in Nat
    BY <1>1, AllocAssumption DEF TakeControl, Placed
  <2>2. b \in Linked /\ worker \in [AllocThreads -> WorkerSet]
    BY <1>1, <2>1 DEF AllocTypes, WorkerSet
  <2>3. CASE b # Null
    <3>1. worker' = [worker EXCEPT ![t].pc = "unmanage", ![t].block = b] /\ b \in Blocks
      BY <2>2, <2>3 DEF TakeControl, GotoWith, Linked
    <3>2. /\ worker'[t].pc = "unmanage" /\ worker'[t].block = b /\ worker' \in [AllocThreads -> WorkerSet]
          /\ \A u \in AllocThreads : u # t => worker'[u] = worker[u]
      BY <2>2, <3>1 DEF WorkerSet, AllocPCs
    <3> QED
      BY <2>1, <2>3, <3>1, <3>2 DEF TakeControl, rootVars, blockVars
  <2>4. CASE b = Null
    <3>1. worker' = [worker EXCEPT ![t].slot = c + 1,
                                   ![t].pc = IF c = ControlBlocks THEN "recycled" ELSE "control"]
      BY <2>4 DEF TakeControl
    <3>2. /\ worker'[t].pc = "recycled" \/ (worker'[t].pc = "control" /\ worker'[t].slot \in 1 .. ControlBlocks)
          /\ worker' \in [AllocThreads -> WorkerSet] /\ \A u \in AllocThreads : u # t => worker'[u] = worker[u]
      <4>1. CASE c = ControlBlocks
        BY <2>1, <2>2, <3>1, <4>1 DEF WorkerSet, AllocPCs
      <4>2. CASE c # ControlBlocks
        <5>1. c + 1 \in 1 .. ControlBlocks
          BY <2>1, <4>2
        <5>2. worker' = [worker EXCEPT ![t].slot = c + 1, ![t].pc = "control"]
          BY <3>1, <4>2
        <5> HIDE DEF c
        <5> QED
          BY <2>1, <2>2, <5>1, <5>2, ZenonT(60) DEF WorkerSet, AllocPCs
      <4> QED
        BY <4>1, <4>2
    <3> QED
      BY <2>1, <2>4, <3>2 DEF TakeControl, rootVars, blockVars
  <2> QED
    BY <2>3, <2>4
<1> HIDE DEF c, b
<1>3. /\ control_blocks' \in [1 .. ControlBlocks -> Linked]
      /\ \A d \in 1 .. ControlBlocks : control_blocks'[d] = IF d = c THEN Null ELSE control_blocks[d]
  BY <1>1, <1>2 DEF AllocTypes, Linked
<1>4. Steady' /\ Only(t)
  <2>1. AllocTypes'
    BY <1>1, <1>2, <1>3 DEF AllocTypes, Slots, Linked, WorkerSet
  <2>2. \A u \in AllocThreads : Placed(worker[u])'
    BY <1>1, <1>2 DEF Placed, Slots
  <2> QED
    BY <1>2, <2>1, <2>2 DEF Steady, Only
<1>5. HeadOf(worker'[t], next) = HeadOf(worker[t], next) /\ worker'[t].pc # "count"
  BY <1>2 DEF HeadOf
<1>6. /\ t \in Between' <=> t \in Between
      /\ t \in Racing' => t \in Racing
      /\ \A x : ~Carried(t, x) /\ ~Holds(t, x)
      /\ \A x \in Blocks : Carried(t, x)' <=> x = b
      /\ \A x \in Blocks : Holds(t, x)' <=> x = b
  <2>1. /\ t \in Between' <=> t \in Between
        /\ t \in Racing' => t \in Racing
        /\ \A x : ~Carried(t, x) /\ ~Holds(t, x)
    BY <1>2 DEF Between, Racing, Carried, Carries, Holds
  <2>2. CASE b # Null
    BY <1>2, <2>1, <2>2 DEF Carried, Carries, Holds
  <2>3. CASE b = Null
    BY <1>2, <2>1, <2>3, NullNoBlock DEF Carried, Carries, Holds
  <2> QED
    BY <2>1, <2>2, <2>3
<1>7. /\ ListOf(recycled_head)' = ListOf(recycled_head) /\ \A u \in AllocThreads : Taken(u)' = Taken(u)
      /\ \A u \in AllocThreads : u # t => \A x : Carried(u, x)' <=> Carried(u, x)
      /\ Acyclic' /\ Listed' = Listed
  BY <1>1, <1>2, <1>4, <1>5, ListsKept
<1>8. \A x \in Blocks : \A d \in 1 .. ControlBlocks : control_blocks'[d] = x <=> d # c /\ control_blocks[d] = x
  BY <1>3, NullNoBlock
<1>9. \A x \in Blocks : control_blocks[c] = x <=> x = b
  BY DEF b
<1>10. ClaimedOnce'
  <2> SUFFICES ASSUME NEW x \in Blocks PROVE Located(x)'
    BY DEF ClaimedOnce
  <2>1. Located(x)
    BY <1>1 DEF ClaimedOnce
  <2>2. CASE x = b
    <3>1. x \notin ListOf(recycled_head)' /\ (\A u \in AllocThreads : x \notin Taken(u)') /\ managed'[x]
      BY <1>2, <1>7, <1>9, <2>1, <2>2 DEF Located
    <3>2. \A u \in AllocThreads : Carried(u, x)' <=> u = t
      BY <1>2, <1>6, <1>7, <1>9, <2>1, <2>2, NullNoBlock DEF Located
    <3>3. \A d \in 1 .. ControlBlocks : control_blocks'[d] # x
      BY <1>2, <1>8, <1>9, <2>1, <2>2 DEF Located
    <3> QED
      BY <3>1, <3>2, <3>3 DEF Located
  <2>3. CASE x # b
    <3>1. \A u \in AllocThreads : Carried(u, x)' <=> Carried(u, x)
      BY <1>6, <1>7, <2>3
    <3>2. \A d \in 1 .. ControlBlocks : control_blocks'[d] = x <=> control_blocks[d] = x
      BY <1>8, <1>9, <2>3
    <3> QED
      BY <1>2, <1>7, <2>1, <3>1, <3>2 DEF Located
  <2> QED
    BY <2>2, <2>3
<1>11. \A x \in Blocks : Pooled(x)' <=> Pooled(x) /\ x # b
  <2> TAKE x \in Blocks
  <2>1. Located(x)
    BY <1>1 DEF ClaimedOnce
  <2>2. x = b => x \notin Listed /\ \A d \in 1 .. ControlBlocks : control_blocks[d] = x => d = c
    BY <1>2, <1>9, <2>1 DEF Located, Listed
  <2> QED
    BY <1>2, <1>7, <1>8, <1>9, <2>2 DEF Pooled
<1>12. RefsCounted'
  <2>1. \A x \in Blocks : x = b => Pooled(x)
    BY <1>2, <1>9 DEF Pooled
  <2>2. ref_count' \in [Blocks -> Int] /\ \A x \in Blocks : ref_count'[x] = ref_count[x] /\ ref_count[x] \in Nat
    BY <1>1, <1>2 DEF AllocTypes
  <2>3. ASSUME NEW x \in Blocks
        PROVE  ref_count'[x] + Num(Holds(t, x)) + Num(Pooled(x)) = ref_count[x] + Num(Holds(t, x)') + Num(Pooled(x)')
    <3>1. CASE x = b
      <4>1. Num(Holds(t, x)) = 0 /\ Num(Pooled(x)) = 1 /\ Num(Holds(t, x)') = 1 /\ Num(Pooled(x)') = 0
        BY <1>6, <1>11, <2>1, <3>1 DEF Num
      <4> QED
        BY <2>2, <4>1
    <3>2. CASE x # b
      <4>1. Num(Holds(t, x)) = 0 /\ Num(Pooled(x)) = Num(Pooled(x)') /\ Num(Holds(t, x)') = 0
        BY <1>6, <1>11, <3>2 DEF Num
      <4> QED
        BY <2>2, <4>1
    <3> QED
      BY <3>1, <3>2
  <2> QED
    BY <1>1, <1>2, <1>4, <2>2, <2>3, HoldersStep
<1>13. RootExact'
  BY <1>1, <1>2 DEF RootExact
<1>14. RecycleCounted'
  BY <1>1, <1>2, <1>4, <1>6, <1>7, RecycleQuiet
<1>15. BitsHeld' /\ ItemsExclusive'
  BY <1>1, <1>2, <1>4, <1>5, SlotsKept
<1> QED
  BY <1>4, <1>7, <1>10, <1>12, <1>13, <1>14, <1>15 DEF AllocInv, Steady

\* A block passes from the pool to a thread or back, with its reference.
LEMMA HandOver ==
    ASSUME Steady, RefsCounted, RootExact, NEW t, Only(t), items' = items, ref_count' = ref_count,
           rootPages' = rootPages, rootBits' = rootBits, NEW b,
           \A x \in Blocks : x # b => (Holds(t, x)' <=> Holds(t, x)) /\ (Pooled(x)' <=> Pooled(x)),
           b \in Blocks => \/ Holds(t, b) /\ ~Pooled(b) /\ ~(Holds(t, b)') /\ Pooled(b)'
                           \/ ~Holds(t, b) /\ Pooled(b) /\ Holds(t, b)' /\ ~(Pooled(b)')
    PROVE  RefsCounted' /\ RootExact'
<1>1. ref_count' \in [Blocks -> Int] /\ \A x \in Blocks : ref_count'[x] = ref_count[x] /\ ref_count[x] \in Nat
  BY DEF Steady, AllocTypes
<1>2. ASSUME NEW x \in Blocks
      PROVE  ref_count'[x] + Num(Holds(t, x)) + Num(Pooled(x)) = ref_count[x] + Num(Holds(t, x)') + Num(Pooled(x)')
  <2>1. CASE x # b
    <3>1. Num(Holds(t, x)') = Num(Holds(t, x)) /\ Num(Pooled(x)') = Num(Pooled(x))
      BY <2>1 DEF Num
    <3> QED
      BY <1>1, <3>1
  <2>2. CASE x = b
    <3>1. \/ Num(Holds(t, b)) = 1 /\ Num(Pooled(b)) = 0 /\ Num(Holds(t, b)') = 0 /\ Num(Pooled(b)') = 1
          \/ Num(Holds(t, b)) = 0 /\ Num(Pooled(b)) = 1 /\ Num(Holds(t, b)') = 1 /\ Num(Pooled(b)') = 0
      BY <2>2 DEF Num
    <3> QED
      BY <1>1, <2>2, <3>1
  <2> QED
    BY <2>1, <2>2
<1>3. RefsCounted'
  BY <1>1, <1>2, HoldersStep
<1> QED
  BY <1>3 DEF RootExact

LEMMA TakeRecycledKeeps ==
    ASSUME AllocInv, NEW t \in AllocThreads, TakeRecycled(t)
    PROVE  AllocInv'
<1>1. AllocTypes /\ (\A u \in AllocThreads : Placed(worker[u])) /\ Steady /\ ClaimedOnce /\ Acyclic
      /\ RefsCounted /\ RootExact /\ RecycleCounted /\ BitsHeld /\ ItemsExclusive
  BY AllocParts
<1>2. PICK h \in Blocks \cup {Null} : h = recycled_head
  BY <1>1 DEF AllocTypes, Linked
<1>3. /\ worker[t].pc = "recycled" /\ recycled_head' = Null
      /\ worker' \in [AllocThreads -> WorkerSet] /\ \A u \in AllocThreads : u # t => worker'[u] = worker[u]
      /\ rootPages' = rootPages /\ rootBits' = rootBits /\ ref_count' = ref_count /\ managed' = managed
      /\ bitmap' = bitmap /\ next' = next /\ control_blocks' = control_blocks
      /\ recycle_count' = recycle_count /\ items' = items /\ item_count' = item_count /\ calls' = calls
      /\ h = Null => worker'[t].pc = "root"
      /\ h # Null => worker'[t].pc = "rest_back" /\ worker'[t].block = h
  <2>1. worker \in [AllocThreads -> WorkerSet]
    BY <1>1 DEF AllocTypes, WorkerSet
  <2>2. CASE h = Null
    BY <1>2, <2>1, <2>2 DEF TakeRecycled, Goto, WorkerSet, AllocPCs, rootVars, blockVars
  <2>3. CASE h # Null
    BY <1>2, <2>1, <2>3 DEF TakeRecycled, GotoWith, WorkerSet, AllocPCs, Linked, rootVars, blockVars
  <2> QED
    BY <2>2, <2>3
<1>4. Steady' /\ Only(t)
  <2>1. AllocTypes'
    BY <1>1, <1>3 DEF AllocTypes, Slots, Linked, WorkerSet
  <2>2. \A u \in AllocThreads : Placed(worker[u])'
    BY <1>1, <1>2, <1>3 DEF Placed, Slots
  <2> QED
    BY <1>3, <2>1, <2>2 DEF Steady, Only
<1>5. CASE h = Null
  <2>1. HeadOf(worker'[t], next) = HeadOf(worker[t], next) /\ worker'[t].pc # "count" /\ recycled_head' = recycled_head
    BY <1>2, <1>3, <1>5 DEF HeadOf
  <2>2. /\ \A x : Carried(t, x)' <=> Carried(t, x)
        /\ \A x : Holds(t, x)' <=> Holds(t, x)
        /\ t \in Between' <=> t \in Between
        /\ t \in Racing' => t \in Racing
    BY <1>3, <1>5 DEF Between, Racing, Carried, Carries, Holds
  <2> QED
    BY <1>3, <1>4, <2>1, <2>2, QuietKeeps
<1>6. CASE h # Null
  <2>1. h \in Blocks /\ next \in [Blocks -> Blocks \cup {Null}] /\ next[h] \in Blocks \cup {Null} /\ Null \in Blocks \cup {Null}
    BY <1>1, <1>6 DEF AllocTypes, Linked
  <2>2. /\ ListOf(recycled_head) = {h} \cup Reach(next, next[h]) /\ Straight(next, h)
        /\ h \notin Reach(next, next[h]) /\ Straight(next, next[h])
    <3>1. ListOf(recycled_head) = Reach(next, h) /\ Straight(next, h)
      BY <1>1, <1>2 DEF ListOf, Acyclic
    <3> QED
      BY <2>1, <3>1, ReachUnfold, StraightTail
  <2>3. ListOf(recycled_head)' = {} /\ Straight(next, recycled_head)'
    BY <1>3, <2>1, ReachClosed DEF ListOf, Straight
  <2>4. HeadOf(worker[t], next) = Null /\ HeadOf(worker'[t], next') = next[h]
    BY <1>3, <1>6 DEF HeadOf
  <2>5. Taken(t) = {} /\ Taken(t)' = Reach(next, next[h])
    BY <1>3, <2>1, <2>4, ReachClosed DEF Taken, ListOf
  <2>6. \A u \in AllocThreads : u # t =>
           /\ Taken(u)' = Taken(u) /\ HeadOf(worker'[u], next') = HeadOf(worker[u], next)
           /\ \A x : Carried(u, x)' <=> Carried(u, x)
    BY <1>3 DEF Taken, ListOf, Carried
  <2>7. /\ t \notin Between /\ t \in Between' /\ (t \in Racing' => t \in Racing)
        /\ \A x : ~Carried(t, x) /\ ~Holds(t, x)
        /\ \A x : (Carried(t, x)' <=> x = h) /\ (Holds(t, x)' <=> x = h)
    BY <1>3, <1>6 DEF Between, Racing, Carried, Carries, Holds
  <2>8. Acyclic'
    BY <1>1, <1>3, <2>2, <2>3, <2>4, <2>6 DEF Acyclic
  <2>9. ClaimedOnce'
    <3> SUFFICES ASSUME NEW x \in Blocks PROVE Located(x)'
      BY DEF ClaimedOnce
    <3>1. Located(x)
      BY <1>1 DEF ClaimedOnce
    <3>2. CASE x = h
      <4>1. /\ managed'[x] /\ x \notin ListOf(recycled_head)' /\ (\A u \in AllocThreads : x \notin Taken(u)')
            /\ (\A u \in AllocThreads : Carried(u, x)' <=> u = t) /\ \A c \in 1 .. ControlBlocks : control_blocks'[c] # x
        BY <1>3, <2>2, <2>3, <2>5, <2>6, <2>7, <3>1, <3>2 DEF Located
      <4> QED
        BY <4>1 DEF Located
    <3>3. CASE x # h /\ x \in Reach(next, next[h])
      <4>1. /\ managed'[x] /\ x \notin ListOf(recycled_head)' /\ (\A u \in AllocThreads : x \in Taken(u)' <=> u = t)
            /\ (\A u \in AllocThreads : ~(Carried(u, x)')) /\ \A c \in 1 .. ControlBlocks : control_blocks'[c] # x
        BY <1>3, <2>2, <2>3, <2>5, <2>6, <2>7, <3>1, <3>3 DEF Located
      <4> QED
        BY <4>1 DEF Located
    <3>4. CASE x # h /\ x \notin Reach(next, next[h])
      <4>1. /\ managed'[x] = managed[x] /\ x \notin ListOf(recycled_head) /\ x \notin ListOf(recycled_head)'
            /\ (\A u \in AllocThreads : (x \in Taken(u)' <=> x \in Taken(u)) /\ (Carried(u, x)' <=> Carried(u, x)))
        BY <1>3, <2>2, <2>3, <2>5, <2>6, <2>7, <3>4
      <4> QED
        BY <1>3, <3>1, <4>1 DEF Located
    <3> QED
      BY <3>2, <3>3, <3>4
  <2>10. h \in Listed /\ h \notin Listed' /\ \A x : x # h => (x \in Listed <=> x \in Listed')
    <3>1. Located(h)
      BY <1>1, <2>1 DEF ClaimedOnce
    <3>2. \A u \in AllocThreads : h \notin Taken(u)'
      BY <2>2, <2>5, <2>6, <3>1 DEF Located
    <3>3. ASSUME NEW x \in Blocks, x # h PROVE x \in Listed <=> x \in Listed'
      BY <2>2, <2>3, <2>5, <2>6, <3>3 DEF Listed
    <3> QED
      BY <2>1, <2>2, <2>3, <3>2, <3>3 DEF Listed
  <2>11. RefsCounted' /\ RootExact'
    <3>1. \A x \in Blocks : x # h => (Pooled(x)' <=> Pooled(x))
      BY <1>3, <2>10 DEF Pooled
    <3>2. Pooled(h) /\ ~(Pooled(h)')
      <4>1. Located(h)
        BY <1>1, <2>1 DEF ClaimedOnce
      <4> QED
        BY <1>3, <2>2, <2>10, <4>1 DEF Located, Pooled
    <3> QED
      BY <1>1, <1>3, <1>4, <2>7, <3>1, <3>2, HandOver
  <2>12. RecycleCounted'
    <3>1. Num(h \in Listed) = 1 /\ Num(h \in Listed') = 0 /\ Num(t \in Between) = 0 /\ Num(t \in Between') = 1
      BY <2>7, <2>10 DEF Num
    <3>2. /\ Num(t \in Racing) \in {0, 1} /\ Num(t \in Racing') \in {0, 1} /\ recycle_count \in Nat
          /\ Num(t \in Racing') <= Num(t \in Racing)
      BY <1>1, <2>7 DEF Num, AllocTypes
    <3>3. /\ recycle_count' \in Int
          /\ recycle_count' + Num(h \in Listed) + Num(t \in Between)
               = recycle_count + Num(h \in Listed') + Num(t \in Between')
          /\ recycle_count' + Num(t \in Racing') <= recycle_count + Num(t \in Racing)
      BY <1>3, <3>1, <3>2
    <3> QED
      BY <1>1, <1>4, <2>10, <3>3, RecycleStep
  <2>13. BitsHeld' /\ ItemsExclusive'
    <3>1. worker'[t].pc # "count"
      BY <1>3, <1>6
    <3> QED
      BY <1>1, <1>3, <1>4, <3>1, SlotsKept
  <2> QED
    BY <1>4, <2>8, <2>9, <2>11, <2>12, <2>13 DEF AllocInv, Steady
<1> QED
  BY <1>5, <1>6

LEMMA RestBackKeeps ==
    ASSUME AllocInv, NEW t \in AllocThreads, RestBack(t)
    PROVE  AllocInv'
<1>1. AllocTypes /\ (\A u \in AllocThreads : Placed(worker[u])) /\ Steady /\ ClaimedOnce /\ Acyclic
      /\ RefsCounted /\ RootExact /\ RecycleCounted /\ BitsHeld /\ ItemsExclusive
  BY AllocParts
<1>2. PICK b \in Blocks : b = worker[t].block
  BY <1>1 DEF RestBack, Placed
<1>3. PICK n \in Blocks \cup {Null} : n = next[b]
  BY <1>1 DEF AllocTypes, Linked
<1>4. worker \in [AllocThreads -> WorkerSet]
  BY <1>1 DEF AllocTypes, WorkerSet
<1>5. CASE recycled_head = Null
  <2>1. /\ worker[t].pc = "rest_back" /\ recycled_head' = n
        /\ worker' \in [AllocThreads -> WorkerSet] /\ \A u \in AllocThreads : u # t => worker'[u] = worker[u]
        /\ rootPages' = rootPages /\ rootBits' = rootBits /\ ref_count' = ref_count /\ managed' = managed
        /\ bitmap' = bitmap /\ next' = next /\ control_blocks' = control_blocks
        /\ recycle_count' = recycle_count /\ items' = items /\ item_count' = item_count /\ calls' = calls
        /\ worker'[t].pc = "popped" /\ worker'[t].block = b
    BY <1>2, <1>3, <1>4, <1>5 DEF RestBack, Goto, WorkerSet, AllocPCs, rootVars, blockVars
  <2>2. Steady' /\ Only(t)
    <3>1. AllocTypes'
      BY <1>1, <2>1 DEF AllocTypes, Slots, Linked, WorkerSet
    <3>2. \A u \in AllocThreads : Placed(worker[u])'
      BY <1>1, <1>2, <2>1 DEF Placed, Slots
    <3> QED
      BY <2>1, <3>1, <3>2 DEF Steady, Only
  <2>3. next \in [Blocks -> Blocks \cup {Null}] /\ Null \in Blocks \cup {Null}
    BY <1>1 DEF AllocTypes, Linked
  <2>4. HeadOf(worker[t], next) = n /\ HeadOf(worker'[t], next') = Null
    BY <1>2, <1>3, <2>1 DEF HeadOf
  <2>5. ListOf(recycled_head) = {} /\ ListOf(recycled_head)' = Taken(t) /\ Taken(t)' = {}
    BY <1>5, <2>1, <2>3, <2>4, ReachClosed DEF ListOf, Taken
  <2>6. \A u \in AllocThreads : u # t =>
           Taken(u)' = Taken(u) /\ HeadOf(worker'[u], next') = HeadOf(worker[u], next)
    BY <2>1 DEF Taken, ListOf
  <2>7. /\ t \in Between' <=> t \in Between
        /\ t \in Racing' => t \in Racing
        /\ \A u \in AllocThreads : \A x : Carried(u, x)' <=> Carried(u, x)
        /\ \A x : Holds(t, x)' <=> Holds(t, x)
    BY <1>2, <2>1 DEF Between, Racing, Carried, Carries, Holds
  <2>8. Acyclic'
    <3>1. Straight(next, n)
      BY <1>1, <2>4 DEF Acyclic
    <3>2. Straight(next, Null)
      BY <1>1, <1>5 DEF Acyclic
    <3> QED
      BY <1>1, <2>1, <2>4, <2>6, <3>1, <3>2 DEF Acyclic
  <2>9. ClaimedOnce'
    <3> SUFFICES ASSUME NEW x \in Blocks PROVE Located(x)'
      BY DEF ClaimedOnce
    <3>1. Located(x)
      BY <1>1 DEF ClaimedOnce
    <3>2. CASE x \in Taken(t)
      <4>1. /\ managed'[x] /\ x \in ListOf(recycled_head)' /\ (\A u \in AllocThreads : x \notin Taken(u)')
            /\ (\A u \in AllocThreads : ~(Carried(u, x)')) /\ \A c \in 1 .. ControlBlocks : control_blocks'[c] # x
        BY <2>1, <2>5, <2>6, <2>7, <3>1, <3>2 DEF Located
      <4> QED
        BY <4>1 DEF Located
    <3>3. CASE x \notin Taken(t)
      <4>1. /\ x \in ListOf(recycled_head)' <=> x \in ListOf(recycled_head)
            /\ \A u \in AllocThreads : x \in Taken(u)' <=> x \in Taken(u)
        BY <2>5, <2>6, <3>3
      <4> QED
        BY <2>1, <2>7, <3>1, <4>1 DEF Located
    <3> QED
      BY <3>2, <3>3
  <2>10. Listed' = Listed
    BY <2>5, <2>6 DEF Listed
  <2>11. RefsCounted' /\ RootExact'
    <3>1. \A x \in Blocks : Pooled(x)' <=> Pooled(x)
      BY <2>1, <2>10 DEF Pooled
    <3> QED
      BY <1>1, <2>1, <2>2, <2>7, <3>1, RefsQuiet
  <2>12. RecycleCounted'
    BY <1>1, <2>1, <2>2, <2>7, <2>10, RecycleQuiet
  <2>13. BitsHeld' /\ ItemsExclusive'
    <3>1. worker'[t].pc # "count"
      BY <2>1
    <3> QED
      BY <1>1, <2>1, <2>2, <3>1, SlotsKept
  <2> QED
    BY <2>2, <2>8, <2>9, <2>11, <2>12, <2>13 DEF AllocInv, Steady
<1>6. CASE recycled_head # Null
  <2>1. /\ worker[t].pc = "rest_back" /\ recycled_head' = recycled_head
        /\ worker' \in [AllocThreads -> WorkerSet] /\ \A u \in AllocThreads : u # t => worker'[u] = worker[u]
        /\ rootPages' = rootPages /\ rootBits' = rootBits /\ ref_count' = ref_count /\ managed' = managed
        /\ bitmap' = bitmap /\ next' = next /\ control_blocks' = control_blocks
        /\ recycle_count' = recycle_count /\ items' = items /\ item_count' = item_count /\ calls' = calls
        /\ worker'[t].pc = "push_back" /\ worker'[t].block = b /\ worker'[t].list = n
    BY <1>2, <1>3, <1>4, <1>6 DEF RestBack, WorkerSet, AllocPCs, Linked, rootVars, blockVars
  <2>2. Steady' /\ Only(t)
    <3>1. AllocTypes'
      BY <1>1, <2>1 DEF AllocTypes, Slots, Linked, WorkerSet
    <3>2. \A u \in AllocThreads : Placed(worker[u])'
      BY <1>1, <1>2, <2>1 DEF Placed, Slots
    <3> QED
      BY <2>1, <3>1, <3>2 DEF Steady, Only
  <2>3. HeadOf(worker'[t], next) = HeadOf(worker[t], next) /\ worker'[t].pc # "count"
    BY <1>2, <1>3, <2>1 DEF HeadOf
  <2>4. /\ \A x : Carried(t, x)' <=> Carried(t, x)
        /\ \A x : Holds(t, x)' <=> Holds(t, x)
        /\ t \in Between' <=> t \in Between
        /\ t \in Racing' => t \in Racing
    BY <1>2, <2>1 DEF Between, Racing, Carried, Carries, Holds
  <2> QED
    BY <2>1, <2>2, <2>3, <2>4, QuietKeeps
<1> QED
  BY <1>5, <1>6

LEMMA PushBackKeeps ==
    ASSUME AllocInv, NEW t \in AllocThreads, PushBack(t)
    PROVE  AllocInv'
<1>1. AllocTypes /\ (\A u \in AllocThreads : Placed(worker[u])) /\ Steady /\ ClaimedOnce /\ Acyclic
      /\ RefsCounted /\ RootExact /\ RecycleCounted /\ BitsHeld /\ ItemsExclusive
  BY AllocParts
<1>2. PICK b \in Blocks : b = worker[t].block
  BY <1>1 DEF PushBack, Placed
<1>3. PICK q \in Blocks \cup {Null} : q = worker[t].list
  BY <1>1 DEF AllocTypes, Linked
<1>4. worker \in [AllocThreads -> WorkerSet]
  BY <1>1 DEF AllocTypes, WorkerSet
<1>5. CASE q = Null
  <2>1. /\ worker[t].pc = "push_back" /\ recycled_head' = recycled_head
        /\ worker' \in [AllocThreads -> WorkerSet] /\ \A u \in AllocThreads : u # t => worker'[u] = worker[u]
        /\ rootPages' = rootPages /\ rootBits' = rootBits /\ ref_count' = ref_count /\ managed' = managed
        /\ bitmap' = bitmap /\ next' = next /\ control_blocks' = control_blocks
        /\ recycle_count' = recycle_count /\ items' = items /\ item_count' = item_count /\ calls' = calls
        /\ worker'[t].pc = "popped" /\ worker'[t].block = b
    BY <1>2, <1>3, <1>4, <1>5 DEF PushBack, Goto, WorkerSet, AllocPCs, Linked, rootVars
  <2>2. Steady' /\ Only(t)
    <3>1. AllocTypes'
      BY <1>1, <2>1 DEF AllocTypes, Slots, Linked, WorkerSet
    <3>2. \A u \in AllocThreads : Placed(worker[u])'
      BY <1>1, <1>2, <2>1 DEF Placed, Slots
    <3> QED
      BY <2>1, <3>1, <3>2 DEF Steady, Only
  <2>3. HeadOf(worker'[t], next) = HeadOf(worker[t], next) /\ worker'[t].pc # "count"
    BY <1>3, <1>5, <2>1 DEF HeadOf
  <2>4. /\ \A x : Carried(t, x)' <=> Carried(t, x)
        /\ \A x : Holds(t, x)' <=> Holds(t, x)
        /\ t \in Between' <=> t \in Between
        /\ t \in Racing' => t \in Racing
    BY <1>2, <2>1 DEF Between, Racing, Carried, Carries, Holds
  <2> QED
    BY <2>1, <2>2, <2>3, <2>4, QuietKeeps
<1>6. CASE q # Null
  <2> DEFINE n == next[q]
             h == recycled_head
  <2>1. /\ worker[t].pc = "push_back" /\ recycled_head' = q /\ next' = [next EXCEPT ![q] = recycled_head]
        /\ worker' \in [AllocThreads -> WorkerSet] /\ \A u \in AllocThreads : u # t => worker'[u] = worker[u]
        /\ rootPages' = rootPages /\ rootBits' = rootBits /\ ref_count' = ref_count /\ managed' = managed
        /\ bitmap' = bitmap /\ control_blocks' = control_blocks
        /\ recycle_count' = recycle_count /\ items' = items /\ item_count' = item_count /\ calls' = calls
        /\ worker'[t].pc = "push_back" /\ worker'[t].block = b /\ worker'[t].list = n
    <3>1. n \in Linked
      BY <1>1, <1>6 DEF AllocTypes
    <3> QED
      BY <1>2, <1>3, <1>4, <1>6, <3>1 DEF PushBack, WorkerSet, AllocPCs, rootVars
  <2>2. /\ q \in Blocks /\ next \in [Blocks -> Blocks \cup {Null}] /\ next' \in [Blocks -> Blocks \cup {Null}]
        /\ n \in Blocks \cup {Null} /\ h \in Blocks \cup {Null} /\ next'[q] = h /\ \A y \in Blocks : y # q => next'[y] = next[y]
    BY <1>1, <1>6, <2>1 DEF AllocTypes, Linked
  <2>3. Steady' /\ Only(t)
    <3>1. AllocTypes'
      BY <1>1, <2>1, <2>2 DEF AllocTypes, Slots, Linked, WorkerSet
    <3>2. \A u \in AllocThreads : Placed(worker[u])'
      BY <1>1, <1>2, <2>1 DEF Placed, Slots
    <3> QED
      BY <2>1, <3>1, <3>2 DEF Steady, Only
  <2>4. HeadOf(worker[t], next) = q /\ HeadOf(worker'[t], next') = n
    BY <1>3, <2>1 DEF HeadOf
  <2>5. /\ Taken(t) = {q} \cup Reach(next, n) /\ q \notin Reach(next, n) /\ Straight(next, n)
    <3>1. Taken(t) = Reach(next, q) /\ Straight(next, q)
      BY <1>1, <2>4 DEF Taken, ListOf, Acyclic
    <3> QED
      BY <2>2, <3>1, ReachUnfold, StraightTail
  <2>6. Located(q) /\ q \in Taken(t)
    BY <1>1, <2>2, <2>5 DEF ClaimedOnce
  <2>7. /\ q \notin ListOf(recycled_head)
        /\ \A u \in AllocThreads : ~Carried(u, q) /\ (u # t => q \notin Taken(u))
        /\ managed[q] /\ \A c \in 1 .. ControlBlocks : control_blocks[c] # q
    BY <2>6 DEF Located
  <2>8. Taken(t)' = Reach(next, n) /\ Straight(next', n)
    <3>1. Reach(next', n) = Reach(next, n) /\ Straight(next', n)
      BY <2>2, <2>5, LinkElsewhere
    <3> QED
      BY <2>4, <3>1 DEF Taken, ListOf
  <2>9. ListOf(recycled_head)' = {q} \cup ListOf(recycled_head) /\ Straight(next', q)
    <3>1. Straight(next, h) /\ q \notin Reach(next, h)
      BY <1>1, <2>7 DEF Acyclic, ListOf
    <3>2. Reach(next', q) = {q} \cup Reach(next, h) /\ Straight(next', q)
      BY <2>2, <3>1, StraightPush
    <3> QED
      BY <2>1, <3>2 DEF ListOf
  <2>10. \A u \in AllocThreads : u # t =>
            Taken(u)' = Taken(u) /\ (Straight(next, HeadOf(worker[u], next)) => Straight(next, HeadOf(worker[u], next))')
    BY <1>1, <2>1, <2>2, <2>3, <2>7, TakenKept
  <2>11. /\ t \in Between' <=> t \in Between
         /\ t \in Racing' => t \in Racing
         /\ \A u \in AllocThreads : \A x : Carried(u, x)' <=> Carried(u, x)
         /\ \A x : Holds(t, x)' <=> Holds(t, x)
    BY <1>2, <2>1 DEF Between, Racing, Carried, Carries, Holds
  <2>12. Acyclic'
    <3>1. \A u \in AllocThreads : Straight(next', HeadOf(worker'[u], next'))
      BY <1>1, <2>4, <2>8, <2>10 DEF Acyclic
    <3> QED
      BY <2>1, <2>9, <3>1 DEF Acyclic
  <2>13. ClaimedOnce'
    <3> SUFFICES ASSUME NEW x \in Blocks PROVE Located(x)'
      BY DEF ClaimedOnce
    <3>1. Located(x)
      BY <1>1 DEF ClaimedOnce
    <3>2. CASE x = q
      <4>1. /\ managed'[x] /\ x \in ListOf(recycled_head)' /\ (\A u \in AllocThreads : x \notin Taken(u)')
            /\ (\A u \in AllocThreads : ~(Carried(u, x)')) /\ \A c \in 1 .. ControlBlocks : control_blocks'[c] # x
        BY <2>1, <2>5, <2>7, <2>8, <2>9, <2>10, <2>11, <3>2
      <4> QED
        BY <4>1 DEF Located
    <3>3. CASE x # q
      <4>1. /\ x \in ListOf(recycled_head)' <=> x \in ListOf(recycled_head)
            /\ \A u \in AllocThreads : x \in Taken(u)' <=> x \in Taken(u)
        BY <2>5, <2>8, <2>9, <2>10, <3>3
      <4> QED
        BY <2>1, <2>11, <3>1, <4>1 DEF Located
    <3> QED
      BY <3>2, <3>3
  <2>14. Listed' = Listed
    <3>1. q \in Listed /\ q \in Listed'
      BY <2>2, <2>6, <2>9 DEF Listed
    <3>2. ASSUME NEW x \in Blocks, x # q PROVE x \in Listed' <=> x \in Listed
      <4>1. \A u \in AllocThreads : x \in Taken(u)' <=> x \in Taken(u)
        BY <2>5, <2>8, <2>10, <3>2
      <4> QED
        BY <2>9, <3>2, <4>1 DEF Listed
    <3>3. Listed \subseteq Blocks /\ Listed' \subseteq Blocks
      BY DEF Listed
    <3> QED
      BY <3>1, <3>2, <3>3
  <2>15. RefsCounted' /\ RootExact'
    <3>1. \A x \in Blocks : Pooled(x)' <=> Pooled(x)
      BY <2>1, <2>14 DEF Pooled
    <3> QED
      BY <1>1, <2>1, <2>3, <2>11, <3>1, RefsQuiet
  <2>16. RecycleCounted'
    BY <1>1, <2>1, <2>3, <2>11, <2>14, RecycleQuiet
  <2>17. BitsHeld' /\ ItemsExclusive'
    <3>1. worker'[t].pc # "count"
      BY <2>1
    <3> QED
      BY <1>1, <2>1, <2>3, <3>1, SlotsKept
  <2> QED
    BY <2>3, <2>12, <2>13, <2>15, <2>16, <2>17 DEF AllocInv, Steady
<1> QED
  BY <1>5, <1>6

\* A thread between the two changes of a list is counted.
LEMMA BetweenCounted ==
    ASSUME Steady, RecycleCounted, NEW t \in AllocThreads, t \in Between
    PROVE  recycle_count >= 1
<1>1. IsFiniteSet(Listed) /\ IsFiniteSet(Between)
  BY BlocksFinite, FS_Subset DEF Listed, Between
<1>2. Cardinality(Listed) \in Nat /\ Cardinality(Between) \in Nat /\ Cardinality(Between) # 0
  BY <1>1, FS_CardinalityType, FS_EmptySet
<1> QED
  BY <1>2 DEF RecycleCounted

\* The step that sets the link of the block that t carries to v, and the head
\* of the recycled list or not.
LEMMA LinkCarried ==
    ASSUME Steady, Steady', ClaimedOnce, Acyclic, NEW t, Only(t), NEW b \in Blocks, Carried(t, b),
           \A y \in Blocks : y # b => next'[y] = next[y],
           HeadOf(worker[t], next) = Null, HeadOf(worker'[t], next') = Null
    PROVE  /\ Located(b) /\ b \notin Listed /\ b \notin ListOf(recycled_head) /\ managed[b]
           /\ \A u \in AllocThreads : b \notin Taken(u) /\ (u # t => ~Carried(u, b))
           /\ \A c \in 1 .. ControlBlocks : control_blocks[c] # b
           /\ \A u \in AllocThreads : Taken(u)' = Taken(u) /\ Straight(next', HeadOf(worker'[u], next'))
           /\ \A u \in AllocThreads : u # t => \A x : Carried(u, x)' <=> Carried(u, x)
<1>1. Located(b) /\ t \in AllocThreads
  BY DEF ClaimedOnce, Only
<1>2. /\ b \notin ListOf(recycled_head) /\ managed[b]
      /\ \A u \in AllocThreads : b \notin Taken(u) /\ (u # t => ~Carried(u, b))
      /\ \A c \in 1 .. ControlBlocks : control_blocks[c] # b
  BY <1>1 DEF Located
<1>3. \A u \in AllocThreads : u # t =>
         Taken(u)' = Taken(u) /\ (Straight(next, HeadOf(worker[u], next)) => Straight(next, HeadOf(worker[u], next))')
  BY <1>2, TakenKept DEF Only
<1>4. next \in [Blocks -> Blocks \cup {Null}] /\ next' \in [Blocks -> Blocks \cup {Null}] /\ Null \in Blocks \cup {Null}
  BY DEF Steady, AllocTypes, Linked
<1>5. Taken(t)' = Taken(t) /\ Straight(next', Null)
  BY <1>4, ReachClosed DEF Taken, ListOf, Straight
<1>6. \A u \in AllocThreads : u # t => \A x : Carried(u, x)' <=> Carried(u, x)
  BY DEF Only, Carried
<1>7. \A u \in AllocThreads : Taken(u)' = Taken(u) /\ Straight(next', HeadOf(worker'[u], next'))
  BY <1>3, <1>5 DEF Acyclic
<1> QED
  BY <1>1, <1>2, <1>6, <1>7 DEF Listed

LEMMA PoppedKeeps ==
    ASSUME AllocInv, NEW t \in AllocThreads, Popped(t)
    PROVE  AllocInv'
<1>1. AllocTypes /\ (\A u \in AllocThreads : Placed(worker[u])) /\ Steady /\ ClaimedOnce /\ Acyclic
      /\ RefsCounted /\ RootExact /\ RecycleCounted /\ BitsHeld /\ ItemsExclusive
  BY AllocParts
<1>2. PICK b \in Blocks : b = worker[t].block
  BY <1>1 DEF Popped, Placed
<1>3. worker \in [AllocThreads -> WorkerSet]
  BY <1>1 DEF AllocTypes, WorkerSet
<1>4. /\ worker[t].pc = "popped" /\ recycled_head' = recycled_head /\ next' = [next EXCEPT ![b] = Null]
      /\ worker' \in [AllocThreads -> WorkerSet] /\ \A u \in AllocThreads : u # t => worker'[u] = worker[u]
      /\ rootPages' = rootPages /\ rootBits' = rootBits /\ ref_count' = ref_count /\ managed' = managed
      /\ bitmap' = bitmap /\ control_blocks' = control_blocks
      /\ recycle_count' = recycle_count - 1 /\ items' = items /\ item_count' = item_count /\ calls' = calls
      /\ worker'[t].pc = "unmanage" /\ worker'[t].block = b
  BY <1>2, <1>3 DEF Popped, Goto, WorkerSet, AllocPCs, rootVars
<1>5. t \in Between /\ t \notin Between' /\ t \notin Racing /\ t \notin Racing'
  BY <1>4 DEF Between, Racing
<1>6. recycle_count \in Nat /\ recycle_count >= 1 /\ recycle_count' \in Nat
  BY <1>1, <1>4, <1>5, BetweenCounted DEF AllocTypes
<1>7. next' \in [Blocks -> Linked] /\ \A y \in Blocks : y # b => next'[y] = next[y]
  BY <1>1, <1>4 DEF AllocTypes, Linked
<1>8. Steady' /\ Only(t)
  <2>1. AllocTypes'
    BY <1>1, <1>4, <1>6, <1>7 DEF AllocTypes, Slots, Linked, WorkerSet
  <2>2. \A u \in AllocThreads : Placed(worker[u])'
    BY <1>1, <1>2, <1>4 DEF Placed, Slots
  <2> QED
    BY <1>4, <2>1, <2>2 DEF Steady, Only
<1>9. HeadOf(worker[t], next) = Null /\ HeadOf(worker'[t], next') = Null
  BY <1>4 DEF HeadOf
<1>10. /\ Carried(t, b) /\ \A x : Carried(t, x)' <=> Carried(t, x)
       /\ \A x : Holds(t, x)' <=> Holds(t, x)
  BY <1>2, <1>4 DEF Carried, Carries, Holds
<1>11. /\ b \notin ListOf(recycled_head)
       /\ \A u \in AllocThreads : Taken(u)' = Taken(u) /\ Straight(next', HeadOf(worker'[u], next'))
       /\ \A u \in AllocThreads : u # t => \A x : Carried(u, x)' <=> Carried(u, x)
  BY <1>1, <1>7, <1>8, <1>9, <1>10, LinkCarried
<1>12. ListOf(recycled_head)' = ListOf(recycled_head) /\ Straight(next', recycled_head')
  BY <1>1, <1>4, <1>7, <1>8, <1>11, HeadKept DEF Acyclic
<1>13. Acyclic'
  BY <1>11, <1>12 DEF Acyclic
<1>14. ClaimedOnce'
  <2> SUFFICES ASSUME NEW x \in Blocks PROVE Located(x)'
    BY DEF ClaimedOnce
  <2>1. Located(x)
    BY <1>1 DEF ClaimedOnce
  <2>2. \A u \in AllocThreads : Carried(u, x)' <=> Carried(u, x)
    BY <1>10, <1>11
  <2> QED
    BY <1>4, <1>11, <1>12, <2>1, <2>2 DEF Located
<1>15. Listed' = Listed
  BY <1>11, <1>12 DEF Listed
<1>16. RefsCounted' /\ RootExact'
  <2>1. \A x \in Blocks : Pooled(x)' <=> Pooled(x)
    BY <1>4, <1>15 DEF Pooled
  <2> QED
    BY <1>1, <1>4, <1>8, <1>10, <2>1, RefsQuiet
<1>17. RecycleCounted'
  <2>1. /\ Num(Null \in Listed') = Num(Null \in Listed) /\ Num(Null \in Listed) \in {0, 1}
        /\ Num(t \in Between) = 1 /\ Num(t \in Between') = 0 /\ Num(t \in Racing) = 0 /\ Num(t \in Racing') = 0
    BY <1>5, <1>15 DEF Num
  <2>2. /\ recycle_count' + Num(Null \in Listed) + Num(t \in Between)
             = recycle_count + Num(Null \in Listed') + Num(t \in Between')
        /\ recycle_count' + Num(t \in Racing') <= recycle_count + Num(t \in Racing)
    BY <1>4, <1>6, <2>1
  <2> QED
    BY <1>1, <1>6, <1>8, <1>15, <2>2, RecycleStep
<1>18. BitsHeld' /\ ItemsExclusive'
  <2>1. worker'[t].pc # "count"
    BY <1>4
  <2> QED
    BY <1>1, <1>4, <1>8, <2>1, SlotsKept
<1> QED
  BY <1>8, <1>13, <1>14, <1>16, <1>17, <1>18 DEF AllocInv, Steady

LEMMA PushRecycledKeeps ==
    ASSUME AllocInv, NEW t \in AllocThreads, PushRecycled(t)
    PROVE  AllocInv'
<1>1. AllocTypes /\ (\A u \in AllocThreads : Placed(worker[u])) /\ Steady /\ ClaimedOnce /\ Acyclic
      /\ RefsCounted /\ RootExact /\ RecycleCounted /\ BitsHeld /\ ItemsExclusive
  BY AllocParts
<1>2. PICK b \in Blocks : b = worker[t].block
  BY <1>1 DEF PushRecycled, Placed
<1>3. worker \in [AllocThreads -> WorkerSet] /\ Resting \in WorkerSet /\ Resting.pc = "rest"
  BY <1>1 DEF AllocTypes, WorkerSet, Resting, AllocPCs, Linked
<1>4. /\ worker[t].pc = "push" /\ recycled_head' = b /\ next' = [next EXCEPT ![b] = recycled_head]
      /\ worker' \in [AllocThreads -> WorkerSet] /\ \A u \in AllocThreads : u # t => worker'[u] = worker[u]
      /\ rootPages' = rootPages /\ rootBits' = rootBits /\ ref_count' = ref_count /\ managed' = managed
      /\ bitmap' = bitmap /\ control_blocks' = control_blocks
      /\ recycle_count' = recycle_count /\ items' = items /\ item_count' = item_count /\ calls' = calls
      /\ worker'[t].pc = "rest"
  BY <1>2, <1>3 DEF PushRecycled, rootVars
<1>5. t \in Between /\ t \notin Between' /\ t \notin Racing /\ t \notin Racing'
  BY <1>4 DEF Between, Racing
<1>6. recycle_count \in Nat /\ recycled_head \in Linked /\ recycled_head \in Blocks \cup {Null}
  BY <1>1 DEF AllocTypes, Linked
<1>7. /\ next' \in [Blocks -> Linked] /\ \A y \in Blocks : y # b => next'[y] = next[y]
      /\ next'[b] = recycled_head /\ next \in [Blocks -> Blocks \cup {Null}] /\ next' \in [Blocks -> Blocks \cup {Null}]
  BY <1>1, <1>4, <1>6 DEF AllocTypes, Linked
<1>8. Steady' /\ Only(t)
  <2>1. AllocTypes'
    BY <1>1, <1>4, <1>6, <1>7 DEF AllocTypes, Slots, Linked, WorkerSet
  <2>2. \A u \in AllocThreads : Placed(worker[u])'
    BY <1>1, <1>2, <1>4 DEF Placed, Slots
  <2> QED
    BY <1>4, <2>1, <2>2 DEF Steady, Only
<1>9. HeadOf(worker[t], next) = Null /\ HeadOf(worker'[t], next') = Null
  BY <1>4 DEF HeadOf
<1>10. /\ Carried(t, b) /\ \A x : (Carried(t, x) <=> x = b) /\ ~(Carried(t, x)')
       /\ \A x : (Holds(t, x) <=> x = b) /\ ~(Holds(t, x)')
  BY <1>2, <1>4 DEF Carried, Carries, Holds
<1>11. /\ b \notin ListOf(recycled_head) /\ b \notin Listed /\ managed[b]
       /\ \A u \in AllocThreads : b \notin Taken(u) /\ (u # t => ~Carried(u, b))
       /\ \A c \in 1 .. ControlBlocks : control_blocks[c] # b
       /\ \A u \in AllocThreads : Taken(u)' = Taken(u) /\ Straight(next', HeadOf(worker'[u], next'))
       /\ \A u \in AllocThreads : u # t => \A x : Carried(u, x)' <=> Carried(u, x)
  BY <1>1, <1>7, <1>8, <1>9, <1>10, LinkCarried
<1>12. ListOf(recycled_head)' = {b} \cup ListOf(recycled_head) /\ Straight(next', recycled_head')
  <2>1. Straight(next, recycled_head) /\ b \notin Reach(next, recycled_head)
    BY <1>1, <1>11 DEF Acyclic, ListOf
  <2>2. Reach(next', b) = {b} \cup Reach(next, recycled_head) /\ Straight(next', b)
    BY <1>6, <1>7, <2>1, StraightPush
  <2> QED
    BY <1>4, <2>2 DEF ListOf
<1>13. Acyclic'
  BY <1>11, <1>12 DEF Acyclic
<1>14. ClaimedOnce'
  <2> SUFFICES ASSUME NEW x \in Blocks PROVE Located(x)'
    BY DEF ClaimedOnce
  <2>1. CASE x = b
    <3>1. /\ managed'[x] /\ x \in ListOf(recycled_head)' /\ (\A u \in AllocThreads : x \notin Taken(u)')
          /\ (\A u \in AllocThreads : ~(Carried(u, x)')) /\ \A c \in 1 .. ControlBlocks : control_blocks'[c] # x
      BY <1>4, <1>10, <1>11, <1>12, <2>1
    <3> QED
      BY <3>1 DEF Located
  <2>2. CASE x # b
    <3>1. Located(x)
      BY <1>1 DEF ClaimedOnce
    <3>2. \A u \in AllocThreads : Carried(u, x)' <=> Carried(u, x)
      BY <1>10, <1>11, <2>2
    <3> QED
      BY <1>4, <1>11, <1>12, <2>2, <3>1, <3>2 DEF Located
  <2> QED
    BY <2>1, <2>2
<1>15. b \in Listed' /\ \A x : x # b => (x \in Listed <=> x \in Listed')
  BY <1>11, <1>12 DEF Listed
<1>16. RefsCounted' /\ RootExact'
  <2>1. \A x \in Blocks : x # b => (Pooled(x)' <=> Pooled(x))
    BY <1>4, <1>15 DEF Pooled
  <2>2. ~Pooled(b) /\ Pooled(b)'
    BY <1>11, <1>15 DEF Pooled
  <2> QED
    BY <1>1, <1>4, <1>8, <1>10, <2>1, <2>2, HandOver
<1>17. RecycleCounted'
  <2>1. /\ Num(b \in Listed') = 1 /\ Num(b \in Listed) = 0
        /\ Num(t \in Between) = 1 /\ Num(t \in Between') = 0 /\ Num(t \in Racing) = 0 /\ Num(t \in Racing') = 0
    BY <1>5, <1>11, <1>15 DEF Num
  <2>2. /\ recycle_count' + Num(b \in Listed) + Num(t \in Between)
             = recycle_count + Num(b \in Listed') + Num(t \in Between')
        /\ recycle_count' + Num(t \in Racing') <= recycle_count + Num(t \in Racing)
        /\ recycle_count' \in Int
    BY <1>4, <1>6, <2>1
  <2> QED
    BY <1>1, <1>8, <1>15, <2>2, RecycleStep
<1>18. BitsHeld' /\ ItemsExclusive'
  <2>1. worker'[t].pc # "count"
    BY <1>4
  <2> QED
    BY <1>1, <1>4, <1>8, <2>1, SlotsKept
<1> QED
  BY <1>8, <1>13, <1>14, <1>16, <1>17, <1>18 DEF AllocInv, Steady

LEMMA UnmanageKeeps ==
    ASSUME AllocInv, NEW t \in AllocThreads, Unmanage(t)
    PROVE  AllocInv'
<1>1. AllocTypes /\ (\A u \in AllocThreads : Placed(worker[u])) /\ Steady /\ ClaimedOnce /\ Acyclic
      /\ RefsCounted /\ RootExact /\ RecycleCounted /\ BitsHeld /\ ItemsExclusive
  BY AllocParts
<1>2. PICK b \in Blocks : b = worker[t].block
  BY <1>1 DEF Unmanage, Placed
<1>3. worker \in [AllocThreads -> WorkerSet]
  BY <1>1 DEF AllocTypes, WorkerSet
<1>4. /\ worker[t].pc = "unmanage" /\ managed' = [managed EXCEPT ![b] = FALSE]
      /\ worker' \in [AllocThreads -> WorkerSet] /\ \A u \in AllocThreads : u # t => worker'[u] = worker[u]
      /\ rootPages' = rootPages /\ rootBits' = rootBits /\ ref_count' = ref_count
      /\ bitmap' = bitmap /\ next' = next /\ control_blocks' = control_blocks /\ recycled_head' = recycled_head
      /\ recycle_count' = recycle_count /\ items' = items /\ item_count' = item_count /\ calls' = calls
      /\ worker'[t].pc = "mask" /\ worker'[t].block = b
  BY <1>2, <1>3 DEF Unmanage, Goto, WorkerSet, AllocPCs, rootVars, poolVars
<1>5. managed' \in [Blocks -> BOOLEAN] /\ ~managed'[b] /\ \A x \in Blocks : x # b => managed'[x] = managed[x]
  BY <1>1, <1>4 DEF AllocTypes
<1>6. Steady' /\ Only(t)
  <2>1. AllocTypes'
    BY <1>1, <1>4, <1>5 DEF AllocTypes, Slots, Linked, WorkerSet
  <2>2. \A u \in AllocThreads : Placed(worker[u])'
    BY <1>1, <1>2, <1>4 DEF Placed, Slots
  <2> QED
    BY <1>4, <2>1, <2>2 DEF Steady, Only
<1>7. HeadOf(worker'[t], next) = HeadOf(worker[t], next) /\ worker'[t].pc # "count"
  BY <1>4 DEF HeadOf
<1>8. /\ t \in Between' <=> t \in Between
      /\ t \in Racing' => t \in Racing
      /\ \A x : (Carried(t, x) <=> x = b) /\ ~(Carried(t, x)')
      /\ \A x : Holds(t, x)' <=> Holds(t, x)
  BY <1>2, <1>4 DEF Between, Racing, Carried, Carries, Holds
<1>9. /\ ListOf(recycled_head)' = ListOf(recycled_head) /\ \A u \in AllocThreads : Taken(u)' = Taken(u)
      /\ \A u \in AllocThreads : u # t => \A x : Carried(u, x)' <=> Carried(u, x)
      /\ Acyclic' /\ Listed' = Listed
  BY <1>1, <1>4, <1>6, <1>7, ListsKept
<1>10. ClaimedOnce'
  <2> SUFFICES ASSUME NEW x \in Blocks PROVE Located(x)'
    BY DEF ClaimedOnce
  <2>1. Located(x)
    BY <1>1 DEF ClaimedOnce
  <2>2. CASE x = b
    <3>1. /\ ~managed'[x] /\ x \notin ListOf(recycled_head)' /\ (\A u \in AllocThreads : x \notin Taken(u)')
          /\ (\A u \in AllocThreads : ~(Carried(u, x)')) /\ \A c \in 1 .. ControlBlocks : control_blocks'[c] # x
      BY <1>4, <1>5, <1>8, <1>9, <2>1, <2>2 DEF Located
    <3> QED
      BY <3>1 DEF Located
  <2>3. CASE x # b
    <3>1. \A u \in AllocThreads : Carried(u, x)' <=> Carried(u, x)
      BY <1>8, <1>9, <2>3
    <3> QED
      BY <1>4, <1>5, <1>9, <2>1, <2>3, <3>1 DEF Located
  <2> QED
    BY <2>2, <2>3
<1>11. RefsCounted' /\ RootExact'
  <2>1. \A x \in Blocks : Pooled(x)' <=> Pooled(x)
    BY <1>4, <1>9 DEF Pooled
  <2> QED
    BY <1>1, <1>4, <1>6, <1>8, <2>1, RefsQuiet
<1>12. RecycleCounted'
  BY <1>1, <1>4, <1>6, <1>8, <1>9, RecycleQuiet
<1>13. BitsHeld' /\ ItemsExclusive'
  BY <1>1, <1>4, <1>6, <1>7, SlotsKept
<1> QED
  BY <1>6, <1>9, <1>10, <1>11, <1>12, <1>13 DEF AllocInv, Steady

LEMMA RecycleKeeps ==
    ASSUME AllocInv, NEW t \in AllocThreads, Recycle(t)
    PROVE  AllocInv'
<1>1. AllocTypes /\ (\A u \in AllocThreads : Placed(worker[u])) /\ Steady /\ ClaimedOnce /\ Acyclic
      /\ RefsCounted /\ RootExact /\ RecycleCounted /\ BitsHeld /\ ItemsExclusive
  BY AllocParts
<1>2. PICK b \in Blocks : b = worker[t].block
  BY <1>1 DEF Recycle, Placed
<1>3. worker \in [AllocThreads -> WorkerSet] /\ managed[b] \in BOOLEAN
  BY <1>1 DEF AllocTypes, WorkerSet
<1>4. /\ worker[t].pc = "manage" /\ managed' = [managed EXCEPT ![b] = TRUE]
      /\ worker' \in [AllocThreads -> WorkerSet] /\ \A u \in AllocThreads : u # t => worker'[u] = worker[u]
      /\ rootPages' = rootPages /\ rootBits' = rootBits /\ ref_count' = ref_count
      /\ bitmap' = bitmap /\ next' = next /\ control_blocks' = control_blocks /\ recycled_head' = recycled_head
      /\ recycle_count' = recycle_count /\ items' = items /\ item_count' = item_count /\ calls' = calls
      /\ worker'[t].slot = 1 /\ worker'[t].block = b
      /\ managed[b] => worker'[t].pc = "try_free"
      /\ ~managed[b] => worker'[t].pc = "put"
  <2>1. CASE managed[b]
    BY <1>2, <1>3, <2>1 DEF Recycle, WorkerSet, AllocPCs, rootVars, poolVars
  <2>2. CASE ~managed[b]
    BY <1>2, <1>3, <2>2 DEF Recycle, WorkerSet, AllocPCs, rootVars, poolVars
  <2> QED
    BY <2>1, <2>2
<1>5. managed' \in [Blocks -> BOOLEAN] /\ managed'[b] /\ \A x \in Blocks : x # b => managed'[x] = managed[x]
  BY <1>1, <1>4 DEF AllocTypes
<1>6. Steady' /\ Only(t)
  <2>1. AllocTypes'
    BY <1>1, <1>4, <1>5 DEF AllocTypes, Slots, Linked, WorkerSet
  <2>2. \A u \in AllocThreads : Placed(worker[u])'
    BY <1>1, <1>2, <1>3, <1>4 DEF Placed, Slots
  <2> QED
    BY <1>4, <2>1, <2>2 DEF Steady, Only
<1>7. HeadOf(worker'[t], next) = HeadOf(worker[t], next) /\ worker'[t].pc # "count"
  BY <1>3, <1>4 DEF HeadOf
<1>8. /\ t \in Between' <=> t \in Between
      /\ t \in Racing' => t \in Racing
      /\ \A x : ~Carried(t, x) /\ (Carried(t, x)' <=> x = b /\ ~managed[b])
      /\ \A x : Holds(t, x)' <=> Holds(t, x)
  <2>1. CASE managed[b]
    BY <1>2, <1>4, <2>1 DEF Between, Racing, Carried, Carries, Holds
  <2>2. CASE ~managed[b]
    BY <1>2, <1>4, <2>2 DEF Between, Racing, Carried, Carries, Holds
  <2> QED
    BY <2>1, <2>2
<1>9. /\ ListOf(recycled_head)' = ListOf(recycled_head) /\ \A u \in AllocThreads : Taken(u)' = Taken(u)
      /\ \A u \in AllocThreads : u # t => \A x : Carried(u, x)' <=> Carried(u, x)
      /\ Acyclic' /\ Listed' = Listed
  BY <1>1, <1>4, <1>6, <1>7, ListsKept
<1>10. ClaimedOnce'
  <2> SUFFICES ASSUME NEW x \in Blocks PROVE Located(x)'
    BY DEF ClaimedOnce
  <2>1. Located(x)
    BY <1>1 DEF ClaimedOnce
  <2>2. CASE x = b /\ ~managed[b]
    <3>1. /\ managed'[x] /\ x \notin ListOf(recycled_head)' /\ (\A u \in AllocThreads : x \notin Taken(u)')
          /\ (\A u \in AllocThreads : Carried(u, x)' <=> u = t) /\ \A c \in 1 .. ControlBlocks : control_blocks'[c] # x
      BY <1>4, <1>5, <1>8, <1>9, <2>1, <2>2 DEF Located
    <3> QED
      BY <3>1 DEF Located
  <2>3. CASE x # b \/ managed[b]
    <3>1. \A u \in AllocThreads : Carried(u, x)' <=> Carried(u, x)
      BY <1>8, <1>9, <2>3
    <3>2. managed'[x] <=> managed[x]
      BY <1>5, <2>3
    <3> QED
      BY <1>4, <1>9, <2>1, <3>1, <3>2 DEF Located
  <2> QED
    BY <2>2, <2>3
<1>11. RefsCounted' /\ RootExact'
  <2>1. \A x \in Blocks : Pooled(x)' <=> Pooled(x)
    BY <1>4, <1>9 DEF Pooled
  <2> QED
    BY <1>1, <1>4, <1>6, <1>8, <2>1, RefsQuiet
<1>12. RecycleCounted'
  BY <1>1, <1>4, <1>6, <1>8, <1>9, RecycleQuiet
<1>13. BitsHeld' /\ ItemsExclusive'
  BY <1>1, <1>4, <1>6, <1>7, SlotsKept
<1> QED
  BY <1>6, <1>9, <1>10, <1>11, <1>12, <1>13 DEF AllocInv, Steady

LEMMA PutKeeps ==
    ASSUME AllocInv, NEW t \in AllocThreads, Put(t)
    PROVE  AllocInv'
<1>1. AllocTypes /\ (\A u \in AllocThreads : Placed(worker[u])) /\ Steady /\ ClaimedOnce /\ Acyclic
      /\ RefsCounted /\ RootExact /\ RecycleCounted /\ BitsHeld /\ ItemsExclusive
  BY AllocParts
<1>2. PICK b \in Blocks, c \in Nat : b = worker[t].block /\ c = worker[t].slot
  BY <1>1 DEF Put, Placed, AllocTypes
<1>3. worker \in [AllocThreads -> WorkerSet] /\ Resting \in WorkerSet /\ Resting.pc = "rest" /\ ControlBlocks \in Nat
  BY <1>1, AllocAssumption DEF AllocTypes, WorkerSet, Resting, AllocPCs, Linked
<1>4. /\ worker[t].pc = "put" /\ worker[t].slot >= 1
      /\ rootPages' = rootPages /\ rootBits' = rootBits /\ ref_count' = ref_count /\ managed' = managed
      /\ bitmap' = bitmap /\ next' = next /\ recycled_head' = recycled_head
      /\ items' = items /\ item_count' = item_count /\ calls' = calls
  BY <1>1 DEF Put, Placed, rootVars, blockVars
<1>5. CASE c <= ControlBlocks /\ control_blocks[c] = Null
  <2>1. /\ control_blocks' = [control_blocks EXCEPT ![c] = b] /\ recycle_count' = recycle_count
        /\ worker' \in [AllocThreads -> WorkerSet] /\ \A u \in AllocThreads : u # t => worker'[u] = worker[u]
        /\ worker'[t].pc = "rest" /\ c \in 1 .. ControlBlocks
    BY <1>2, <1>3, <1>4, <1>5 DEF Put
  <2>2. /\ control_blocks' \in [1 .. ControlBlocks -> Linked]
        /\ \A d \in 1 .. ControlBlocks : control_blocks'[d] = IF d = c THEN b ELSE control_blocks[d]
    BY <1>1, <2>1 DEF AllocTypes, Linked
  <2>3. Steady' /\ Only(t)
    <3>1. AllocTypes'
      BY <1>1, <1>4, <2>1, <2>2 DEF AllocTypes, Slots, Linked, WorkerSet
    <3>2. \A u \in AllocThreads : Placed(worker[u])'
      BY <1>1, <1>4, <2>1 DEF Placed, Slots
    <3> QED
      BY <2>1, <3>1, <3>2 DEF Steady, Only
  <2>4. HeadOf(worker'[t], next) = HeadOf(worker[t], next) /\ worker'[t].pc # "count"
    BY <1>4, <2>1 DEF HeadOf
  <2>5. /\ t \in Between' <=> t \in Between
        /\ t \in Racing' => t \in Racing
        /\ \A x : (Carried(t, x) <=> x = b) /\ ~(Carried(t, x)')
        /\ \A x : (Holds(t, x) <=> x = b) /\ ~(Holds(t, x)')
    BY <1>2, <1>4, <2>1 DEF Between, Racing, Carried, Carries, Holds
  <2>6. /\ ListOf(recycled_head)' = ListOf(recycled_head) /\ \A u \in AllocThreads : Taken(u)' = Taken(u)
        /\ \A u \in AllocThreads : u # t => \A x : Carried(u, x)' <=> Carried(u, x)
        /\ Acyclic' /\ Listed' = Listed
    BY <1>1, <1>4, <2>3, <2>4, ListsKept
  <2>7. Located(b) /\ Carried(t, b)
    BY <1>1, <2>5 DEF ClaimedOnce
  <2>8. /\ managed[b] /\ b \notin ListOf(recycled_head) /\ b \notin Listed
        /\ \A u \in AllocThreads : b \notin Taken(u) /\ (u # t => ~Carried(u, b))
        /\ \A d \in 1 .. ControlBlocks : control_blocks[d] # b
    BY <2>7 DEF Located, Listed
  <2>9. \A x \in Blocks : x # b => \A d \in 1 .. ControlBlocks : control_blocks'[d] = x <=> control_blocks[d] = x
    BY <1>5, <2>2, NullNoBlock
  <2>10. \A d \in 1 .. ControlBlocks : control_blocks'[d] = b <=> d = c
    BY <2>2, <2>8
  <2>11. ClaimedOnce'
    <3> SUFFICES ASSUME NEW x \in Blocks PROVE Located(x)'
      BY DEF ClaimedOnce
    <3>1. CASE x = b
      <4>1. /\ managed'[x] /\ x \notin ListOf(recycled_head)' /\ (\A u \in AllocThreads : x \notin Taken(u)')
            /\ (\A u \in AllocThreads : ~(Carried(u, x)'))
            /\ \A d \in 1 .. ControlBlocks : control_blocks'[d] = x <=> d = c
        BY <1>4, <2>5, <2>6, <2>8, <2>10, <3>1
      <4> QED
        BY <2>1, <4>1 DEF Located
    <3>2. CASE x # b
      <4>1. Located(x)
        BY <1>1 DEF ClaimedOnce
      <4>2. \A u \in AllocThreads : Carried(u, x)' <=> Carried(u, x)
        BY <2>5, <2>6, <3>2
      <4>3. \A d \in 1 .. ControlBlocks : control_blocks'[d] = x <=> control_blocks[d] = x
        BY <2>9, <3>2
      <4> QED
        BY <1>4, <2>6, <4>1, <4>2, <4>3 DEF Located
    <3> QED
      BY <3>1, <3>2
  <2>12. RefsCounted' /\ RootExact'
    <3>1. \A x \in Blocks : x # b => (Pooled(x)' <=> Pooled(x))
      BY <2>6, <2>9 DEF Pooled
    <3>2. ~Pooled(b) /\ Pooled(b)'
      BY <2>1, <2>8, <2>10 DEF Pooled
    <3> QED
      BY <1>1, <1>4, <2>3, <2>5, <3>1, <3>2, HandOver
  <2>13. RecycleCounted'
    BY <1>1, <2>1, <2>3, <2>5, <2>6, RecycleQuiet
  <2>14. BitsHeld' /\ ItemsExclusive'
    BY <1>1, <1>4, <2>3, <2>4, SlotsKept
  <2> QED
    BY <2>3, <2>6, <2>11, <2>12, <2>13, <2>14 DEF AllocInv, Steady
<1>6. CASE c <= ControlBlocks /\ control_blocks[c] # Null
  <2>1. /\ control_blocks' = control_blocks /\ recycle_count' = recycle_count
        /\ worker' \in [AllocThreads -> WorkerSet] /\ \A u \in AllocThreads : u # t => worker'[u] = worker[u]
        /\ worker'[t].pc = "put" /\ worker'[t].block = b /\ worker'[t].slot >= 1
    BY <1>2, <1>3, <1>4, <1>6 DEF Put, WorkerSet
  <2>2. Steady' /\ Only(t)
    <3>1. AllocTypes'
      BY <1>1, <1>4, <2>1 DEF AllocTypes, Slots, Linked, WorkerSet
    <3>2. \A u \in AllocThreads : Placed(worker[u])'
      BY <1>1, <1>2, <1>4, <2>1 DEF Placed, Slots
    <3> QED
      BY <2>1, <3>1, <3>2 DEF Steady, Only
  <2>3. HeadOf(worker'[t], next) = HeadOf(worker[t], next) /\ worker'[t].pc # "count"
    BY <1>4, <2>1 DEF HeadOf
  <2>4. /\ t \in Between' <=> t \in Between
        /\ t \in Racing' => t \in Racing
        /\ \A x : Carried(t, x)' <=> Carried(t, x)
        /\ \A x : Holds(t, x)' <=> Holds(t, x)
    BY <1>2, <1>4, <2>1 DEF Between, Racing, Carried, Carries, Holds
  <2> QED
    BY <1>4, <2>1, <2>2, <2>3, <2>4, QuietKeeps
<1>7. CASE c > ControlBlocks
  <2>1. /\ control_blocks' = control_blocks /\ recycle_count' = recycle_count + 1
        /\ worker' \in [AllocThreads -> WorkerSet] /\ \A u \in AllocThreads : u # t => worker'[u] = worker[u]
        /\ worker'[t].pc = "push" /\ worker'[t].block = b
    BY <1>2, <1>3, <1>4, <1>7 DEF Put, Goto, WorkerSet, AllocPCs
  <2>2. recycle_count \in Nat /\ recycle_count' \in Nat
    BY <1>1, <2>1 DEF AllocTypes
  <2>3. Steady' /\ Only(t)
    <3>1. AllocTypes'
      BY <1>1, <1>4, <2>1, <2>2 DEF AllocTypes, Slots, Linked, WorkerSet
    <3>2. \A u \in AllocThreads : Placed(worker[u])'
      BY <1>1, <1>2, <1>4, <2>1 DEF Placed, Slots
    <3> QED
      BY <2>1, <3>1, <3>2 DEF Steady, Only
  <2>4. HeadOf(worker'[t], next) = HeadOf(worker[t], next) /\ worker'[t].pc # "count"
    BY <1>4, <2>1 DEF HeadOf
  <2>5. /\ t \notin Between /\ t \in Between' /\ t \in Racing /\ t \notin Racing'
        /\ \A x : Carried(t, x)' <=> Carried(t, x)
        /\ \A x : Holds(t, x)' <=> Holds(t, x)
    BY <1>2, <1>4, <2>1 DEF Between, Racing, Carried, Carries, Holds
  <2>6. ClaimedOnce' /\ Acyclic' /\ Listed' = Listed /\ \A x \in Blocks : Pooled(x)' <=> Pooled(x)
    BY <1>1, <1>4, <2>1, <2>3, <2>4, <2>5, PoolKept
  <2>7. RefsCounted' /\ RootExact'
    BY <1>1, <1>4, <2>3, <2>5, <2>6, RefsQuiet
  <2>8. RecycleCounted'
    <3>1. /\ Num(Null \in Listed') = Num(Null \in Listed) /\ Num(Null \in Listed) \in {0, 1}
          /\ Num(t \in Between) = 0 /\ Num(t \in Between') = 1 /\ Num(t \in Racing) = 1 /\ Num(t \in Racing') = 0
      BY <2>5, <2>6 DEF Num
    <3>2. /\ recycle_count' + Num(Null \in Listed) + Num(t \in Between)
               = recycle_count + Num(Null \in Listed') + Num(t \in Between')
          /\ recycle_count' + Num(t \in Racing') <= recycle_count + Num(t \in Racing)
      BY <2>1, <2>2, <3>1
    <3> QED
      BY <1>1, <2>2, <2>3, <2>6, <3>2, RecycleStep
  <2>9. BitsHeld' /\ ItemsExclusive'
    BY <1>1, <1>4, <2>3, <2>4, SlotsKept
  <2> QED
    BY <2>3, <2>6, <2>7, <2>8, <2>9 DEF AllocInv, Steady
<1> QED
  BY <1>2, <1>3, <1>5, <1>6, <1>7

\* The blocks that the root allocator has handed out.
InRoot(b) == b[1] \in rootPages /\ b[2] \in rootBits[b[1]]

LEMMA TryFreeKeeps ==
    ASSUME AllocInv, NEW t \in AllocThreads, TryFree(t)
    PROVE  AllocInv'
<1>1. AllocTypes /\ (\A u \in AllocThreads : Placed(worker[u])) /\ Steady /\ ClaimedOnce /\ Acyclic
      /\ RefsCounted /\ RootExact /\ RecycleCounted /\ BitsHeld /\ ItemsExclusive
  BY AllocParts
<1>2. PICK b \in Blocks : b = worker[t].block
  BY <1>1 DEF TryFree, Placed
<1>3. worker \in [AllocThreads -> WorkerSet] /\ Resting \in WorkerSet /\ Resting.pc = "rest" /\ ControlBlocks \in Nat \ {0}
  BY <1>1, AllocAssumption DEF AllocTypes, WorkerSet, Resting, AllocPCs, Linked
<1>4. /\ worker[t].pc \in {"try_free", "full"} /\ ref_count' = [ref_count EXCEPT ![b] = @ - 1]
      /\ worker' \in [AllocThreads -> WorkerSet] /\ \A u \in AllocThreads : u # t => worker'[u] = worker[u]
      /\ managed' = managed /\ bitmap' = bitmap /\ next' = next /\ control_blocks' = control_blocks
      /\ recycled_head' = recycled_head /\ recycle_count' = recycle_count /\ items' = items
      /\ item_count' = item_count /\ calls' = calls
      /\ \/ worker'[t].pc = "rest"
         \/ worker'[t].pc = "control" /\ worker'[t].slot = 1
  <2> DEFINE again == [Resting EXCEPT !.pc = "control", !.slot = 1]
  <2>1. again \in WorkerSet /\ again.pc = "control" /\ again.slot = 1
    BY DEF WorkerSet, Resting, AllocPCs, Linked
  <2> HIDE DEF again
  <2>2. worker' = [worker EXCEPT ![t] = again] \/ worker' = [worker EXCEPT ![t] = Resting]
    BY <1>2, <1>3 DEF TryFree, again
  <2>3. /\ worker' \in [AllocThreads -> WorkerSet] /\ \A u \in AllocThreads : u # t => worker'[u] = worker[u]
        /\ \/ worker'[t].pc = "rest"
           \/ worker'[t].pc = "control" /\ worker'[t].slot = 1
    BY <1>3, <2>1, <2>2
  <2> QED
    BY <1>2, <2>3 DEF TryFree, poolVars
<1>5. Holds(t, b) /\ \A x : (Holds(t, x) <=> x = b) /\ ~(Holds(t, x)')
  BY <1>2, <1>4 DEF Holds
<1>6. ref_count[b] \in Nat /\ ref_count[b] > 0
  BY <1>1, <1>5, Uncounted DEF AllocTypes
<1>7. /\ ref_count' \in [Blocks -> Nat] /\ ref_count'[b] = ref_count[b] - 1
      /\ \A x \in Blocks : x # b => ref_count'[x] = ref_count[x]
  BY <1>1, <1>4, <1>6 DEF AllocTypes
<1>8. InRoot(b)
  BY <1>1, <1>6 DEF RootExact, InRoot
<1>9. /\ rootPages' \subseteq Pages /\ rootBits' \in [Pages -> SUBSET (1 .. PageSize)]
      /\ ref_count[b] = 1 => \A x \in Blocks : InRoot(x)' <=> InRoot(x) /\ x # b
      /\ ref_count[b] # 1 => \A x \in Blocks : InRoot(x)' <=> InRoot(x)
  <2>1. CASE ref_count[b] = 1
    <3>1. /\ rootBits' = [rootBits EXCEPT ![b[1]] = @ \ {b[2]}]
          /\ rootPages' = IF rootBits[b[1]] = {b[2]} THEN rootPages \ {b[1]} ELSE rootPages
      BY <1>2, <2>1 DEF TryFree, RootFree
    <3>2. /\ b[1] \in Pages /\ rootBits' \in [Pages -> SUBSET (1 .. PageSize)] /\ rootPages' \subseteq Pages
          /\ rootBits'[b[1]] = rootBits[b[1]] \ {b[2]} /\ \A p \in Pages : p # b[1] => rootBits'[p] = rootBits[p]
      BY <1>1, <3>1 DEF AllocTypes, Blocks
    <3>3. \A x \in Blocks : x[1] \in Pages /\ (x[1] = b[1] /\ x[2] = b[2] => x = b)
      BY DEF Blocks
    <3>4. ASSUME NEW x \in Blocks, x[1] = b[1] PROVE InRoot(x)' <=> InRoot(x) /\ x # b
      BY <3>1, <3>2, <3>3, <3>4 DEF InRoot
    <3>5. ASSUME NEW x \in Blocks, x[1] # b[1] PROVE InRoot(x)' <=> InRoot(x) /\ x # b
      BY <3>1, <3>2, <3>3, <3>5 DEF InRoot
    <3> QED
      BY <2>1, <3>2, <3>4, <3>5
  <2>2. CASE ref_count[b] # 1
    <3>1. rootPages' = rootPages /\ rootBits' = rootBits
      BY <1>2, <2>2 DEF TryFree, rootVars
    <3> QED
      BY <1>1, <2>2, <3>1 DEF AllocTypes, InRoot
  <2> QED
    BY <2>1, <2>2
<1>10. Steady' /\ Only(t)
  <2>1. AllocTypes'
    BY <1>1, <1>4, <1>7, <1>9 DEF AllocTypes, Slots, Linked, WorkerSet
  <2>2. \A u \in AllocThreads : Placed(worker[u])'
    BY <1>1, <1>3, <1>4 DEF Placed, Slots
  <2> QED
    BY <1>4, <2>1, <2>2 DEF Steady, Only
<1>11. HeadOf(worker'[t], next) = HeadOf(worker[t], next) /\ worker'[t].pc # "count"
  BY <1>4 DEF HeadOf
<1>12. /\ t \in Between' <=> t \in Between
       /\ t \in Racing' => t \in Racing
       /\ \A x : Carried(t, x)' <=> Carried(t, x)
  BY <1>4 DEF Between, Racing, Carried, Carries
<1>13. ClaimedOnce' /\ Acyclic' /\ Listed' = Listed /\ \A x \in Blocks : Pooled(x)' <=> Pooled(x)
  BY <1>1, <1>4, <1>10, <1>11, <1>12, PoolKept
<1>14. RefsCounted'
  <2>1. ASSUME NEW x \in Blocks
        PROVE  ref_count'[x] + Num(Holds(t, x)) + Num(Pooled(x)) = ref_count[x] + Num(Holds(t, x)') + Num(Pooled(x)')
    <3>1. /\ Num(Pooled(x)') = Num(Pooled(x)) /\ Num(Pooled(x)) \in Nat /\ Num(Holds(t, x)') = 0
          /\ Num(Holds(t, x)) = IF x = b THEN 1 ELSE 0
      BY <1>5, <1>13 DEF Num
    <3>2. ref_count[x] \in Nat /\ ref_count'[x] = IF x = b THEN ref_count[x] - 1 ELSE ref_count[x]
      BY <1>1, <1>7 DEF AllocTypes
    <3> QED
      BY <3>1, <3>2
  <2>2. ref_count' \in [Blocks -> Int]
    BY <1>7
  <2> QED
    BY <1>1, <1>4, <1>10, <2>1, <2>2, HoldersStep
<1>15. RootExact'
  <2> SUFFICES ASSUME NEW x \in Blocks PROVE ref_count'[x] > 0 <=> InRoot(x)'
    BY DEF RootExact, InRoot
  <2>1. ref_count[x] > 0 <=> InRoot(x)
    BY <1>1 DEF RootExact, InRoot
  <2> QED
    BY <1>6, <1>7, <1>9, <2>1
<1>16. RecycleCounted'
  BY <1>1, <1>4, <1>10, <1>12, <1>13, RecycleQuiet
<1>17. BitsHeld' /\ ItemsExclusive'
  BY <1>1, <1>4, <1>10, <1>11, SlotsKept
<1> QED
  BY <1>10, <1>13, <1>14, <1>15, <1>16, <1>17 DEF AllocInv, Steady

\* A block that nothing counts is taken from the root allocator by t.
LEMMA FreshKeeps ==
    ASSUME AllocInv, NEW t \in AllocThreads, NEW b \in Blocks, ref_count[b] = 0,
           worker[t].pc \in {"root", "page"}, Fresh(b), GotoWith(t, "mask", b),
           UNCHANGED <<poolVars, items, item_count, calls>>,
           rootPages' \subseteq Pages, rootBits' \in [Pages -> SUBSET (1 .. PageSize)],
           \A x \in Blocks : InRoot(x)' <=> InRoot(x) \/ x = b
    PROVE  AllocInv'
<1>1. AllocTypes /\ (\A u \in AllocThreads : Placed(worker[u])) /\ Steady /\ ClaimedOnce /\ Acyclic
      /\ RefsCounted /\ RootExact /\ RecycleCounted /\ BitsHeld /\ ItemsExclusive
  BY AllocParts
<1>2. worker \in [AllocThreads -> WorkerSet]
  BY <1>1 DEF AllocTypes, WorkerSet
<1>3. /\ worker' \in [AllocThreads -> WorkerSet] /\ \A u \in AllocThreads : u # t => worker'[u] = worker[u]
      /\ worker'[t].pc = "mask" /\ worker'[t].block = b
      /\ ref_count' = [ref_count EXCEPT ![b] = 1] /\ managed' = [managed EXCEPT ![b] = FALSE]
      /\ bitmap' = [bitmap EXCEPT ![b] = {}] /\ next' = [next EXCEPT ![b] = Null]
      /\ control_blocks' = control_blocks /\ recycled_head' = recycled_head
      /\ recycle_count' = recycle_count /\ items' = items /\ item_count' = item_count /\ calls' = calls
  BY <1>2, ZenonT(60) DEF GotoWith, Fresh, WorkerSet, AllocPCs, Linked, poolVars
<1>4. /\ ref_count' \in [Blocks -> Nat] /\ managed' \in [Blocks -> BOOLEAN]
      /\ bitmap' \in [Blocks -> SUBSET Slots] /\ next' \in [Blocks -> Linked]
      /\ ref_count'[b] = 1 /\ ~managed'[b]
      /\ \A x \in Blocks : x # b => /\ ref_count'[x] = ref_count[x] /\ (managed'[x] = managed[x])
                                    /\ bitmap'[x] = bitmap[x] /\ next'[x] = next[x]
  BY <1>1, <1>3 DEF AllocTypes, Linked
<1>5. Steady' /\ Only(t)
  <2>1. AllocTypes'
    BY <1>1, <1>3, <1>4 DEF AllocTypes, Slots, Linked, WorkerSet
  <2>2. \A u \in AllocThreads : Placed(worker[u])'
    BY <1>1, <1>3 DEF Placed, Slots
  <2> QED
    BY <1>3, <2>1, <2>2 DEF Steady, Only
<1>6. ~Pooled(b) /\ (\A u \in AllocThreads : ~Holds(u, b)) /\ \A i \in items : i[1] # b
  BY <1>1, Uncounted
<1>7. /\ \A u \in AllocThreads : ~Carried(u, b) /\ b \notin Taken(u)
      /\ b \notin ListOf(recycled_head) /\ \A c \in 1 .. ControlBlocks : control_blocks[c] # b
  BY <1>6 DEF Carried, Carries, Holds, Pooled, Listed
<1>8. ListOf(recycled_head)' = ListOf(recycled_head) /\ Straight(next', recycled_head')
  BY <1>1, <1>3, <1>4, <1>5, <1>7, HeadKept DEF Acyclic
<1>9. /\ t \in Between' <=> t \in Between
      /\ t \in Racing' => t \in Racing
      /\ \A x : Carried(t, x)' <=> Carried(t, x)
      /\ \A x : (Holds(t, x)' <=> x = b) /\ ~Holds(t, x)
      /\ HeadOf(worker[t], next) = Null /\ HeadOf(worker'[t], next') = Null
  BY <1>3 DEF Between, Racing, Carried, Carries, Holds, HeadOf
<1>10. ASSUME NEW u \in AllocThreads
       PROVE  Taken(u)' = Taken(u) /\ Straight(next', HeadOf(worker'[u], next'))
  <2>1. CASE u # t
    <3>1. Straight(next, HeadOf(worker[u], next))
      BY <1>1 DEF Acyclic
    <3>2. worker'[u] = worker[u]
      BY <1>3, <2>1
    <3> QED
      BY <1>1, <1>4, <1>5, <1>7, <3>1, <3>2, TakenKept
  <2>2. CASE u = t
    <3>1. next \in [Blocks -> Blocks \cup {Null}] /\ next' \in [Blocks -> Blocks \cup {Null}] /\ Null \in Blocks \cup {Null}
      BY <1>1, <1>4 DEF AllocTypes, Linked
    <3>2. Reach(next, Null) = {} /\ Reach(next', Null) = {}
      BY <3>1, ReachClosed
    <3> QED
      BY <1>9, <2>2, <3>2 DEF Taken, ListOf, Straight
  <2> QED
    BY <2>1, <2>2
<1>11. Acyclic'
  BY <1>8, <1>10 DEF Acyclic
<1>12. \A u \in AllocThreads : \A x : Carried(u, x)' <=> Carried(u, x)
  BY <1>3, <1>9 DEF Carried
<1>13. ClaimedOnce'
  <2> SUFFICES ASSUME NEW x \in Blocks PROVE Located(x)'
    BY DEF ClaimedOnce
  <2>1. CASE x = b
    <3>1. /\ ~managed'[x] /\ x \notin ListOf(recycled_head)' /\ (\A u \in AllocThreads : x \notin Taken(u)')
          /\ (\A u \in AllocThreads : ~(Carried(u, x)')) /\ \A c \in 1 .. ControlBlocks : control_blocks'[c] # x
      BY <1>3, <1>4, <1>7, <1>8, <1>10, <1>12, <2>1
    <3> QED
      BY <3>1 DEF Located
  <2>2. CASE x # b
    <3>1. Located(x)
      BY <1>1 DEF ClaimedOnce
    <3> QED
      BY <1>3, <1>4, <1>8, <1>10, <1>12, <2>2, <3>1 DEF Located
  <2> QED
    BY <2>1, <2>2
<1>14. Listed' = Listed
  BY <1>8, <1>10 DEF Listed
<1>15. \A x \in Blocks : Pooled(x)' <=> Pooled(x)
  BY <1>3, <1>14 DEF Pooled
<1>16. RefsCounted'
  <2>1. ASSUME NEW x \in Blocks
        PROVE  ref_count'[x] + Num(Holds(t, x)) + Num(Pooled(x)) = ref_count[x] + Num(Holds(t, x)') + Num(Pooled(x)')
    <3>1. /\ Num(Pooled(x)') = Num(Pooled(x)) /\ Num(Pooled(x)) \in Nat /\ Num(Holds(t, x)) = 0
          /\ Num(Holds(t, x)') = IF x = b THEN 1 ELSE 0
      BY <1>9, <1>15 DEF Num
    <3>2. ref_count[x] \in Nat /\ ref_count'[x] = IF x = b THEN ref_count[x] + 1 ELSE ref_count[x]
      BY <1>1, <1>4 DEF AllocTypes
    <3> QED
      BY <3>1, <3>2
  <2>2. ref_count' \in [Blocks -> Int]
    BY <1>4
  <2> QED
    BY <1>1, <1>3, <1>5, <2>1, <2>2, HoldersStep
<1>17. RootExact'
  <2> SUFFICES ASSUME NEW x \in Blocks PROVE ref_count'[x] > 0 <=> InRoot(x)'
    BY DEF RootExact, InRoot
  <2>1. ref_count[x] > 0 <=> InRoot(x)
    BY <1>1 DEF RootExact, InRoot
  <2> QED
    BY <1>4, <2>1
<1>18. RecycleCounted'
  BY <1>1, <1>3, <1>5, <1>9, <1>14, RecycleQuiet
<1>19. BitsHeld' /\ ItemsExclusive'
  <2>1. \A i \in items : i[1] \in Blocks /\ i[1] # b
    BY <1>1, <1>6 DEF AllocTypes
  <2>2. \A u \in AllocThreads : worker[u].pc = "count" => worker[u].block \in Blocks /\ worker[u].block # b
    BY <1>1, <1>6 DEF Placed, Holds
  <2>3. BitsHeld'
    <3>1. \A i \in items' : i[2] \in bitmap'[i[1]]
      BY <1>1, <1>3, <1>4, <2>1 DEF BitsHeld
    <3>2. \A u \in AllocThreads : worker'[u].pc = "count" => worker'[u].slot \in bitmap'[worker'[u].block]
      BY <1>1, <1>3, <1>4, <2>2 DEF BitsHeld
    <3> QED
      BY <3>1, <3>2 DEF BitsHeld
  <2>4. ItemsExclusive'
    BY <1>1, <1>3 DEF ItemsExclusive
  <2> QED
    BY <2>3, <2>4
<1> QED
  BY <1>5, <1>11, <1>13, <1>16, <1>17, <1>18, <1>19 DEF AllocInv, Steady

LEMMA RootFindKeeps ==
    ASSUME AllocInv, NEW t \in AllocThreads, RootFind(t)
    PROVE  AllocInv'
<1>1. AllocTypes /\ (\A u \in AllocThreads : Placed(worker[u])) /\ Steady /\ RootExact
  BY AllocParts
<1>2. CASE \E p \in rootPages : Free(p) # {}
  <2>1. PICK p \in rootPages :
          /\ Free(p) # {} /\ rootBits' = [rootBits EXCEPT ![p] = @ \cup {Min(Free(p))}]
          /\ Fresh(<<p, Min(Free(p))>>) /\ GotoWith(t, "mask", <<p, Min(Free(p))>>)
    BY <1>2 DEF RootFind
  <2>2. Free(p) \in SUBSET Nat
    BY DEF Free
  <2>3. PICK i : i = Min(Free(p))
    OBVIOUS
  <2>4. i \in 1 .. PageSize /\ i \notin rootBits[p] /\ p \in Pages
    <3>1. i \in Free(p)
      BY <2>1, <2>2, <2>3, MinIn
    <3> QED
      BY <1>1, <3>1 DEF Free, AllocTypes
  <2> DEFINE b == <<p, i>>
  <2>5. b \in Blocks /\ b[1] = p /\ b[2] = i
    BY <2>4 DEF Blocks
  <2>6. rootPages' = rootPages /\ rootBits' = [rootBits EXCEPT ![p] = @ \cup {i}]
    BY <2>1, <2>3 DEF RootFind
  <2>7. rootBits' \in [Pages -> SUBSET (1 .. PageSize)] /\ rootPages' \subseteq Pages
    BY <1>1, <2>4, <2>6 DEF AllocTypes
  <2>8. \A x \in Blocks : InRoot(x)' <=> InRoot(x) \/ x = b
    <3>1. \A x \in Blocks : x[1] \in Pages /\ x = <<x[1], x[2]>>
      BY DEF Blocks
    <3>2. \A q \in Pages : rootBits'[q] = IF q = p THEN rootBits[q] \cup {i} ELSE rootBits[q]
      BY <1>1, <2>6 DEF AllocTypes
    <3> QED
      BY <2>6, <3>1, <3>2 DEF InRoot
  <2>9. ref_count[b] = 0
    <3>1. ~(ref_count[b] > 0) /\ ref_count[b] \in Nat
      BY <1>1, <2>4, <2>5 DEF RootExact, AllocTypes
    <3> QED
      BY <3>1
  <2>10. Fresh(b) /\ GotoWith(t, "mask", b)
    BY <2>1, <2>3
  <2> HIDE DEF b
  <2> QED
    BY <2>5, <2>7, <2>8, <2>9, <2>10, FreshKeeps DEF RootFind
<1>3. CASE ~\E p \in rootPages : Free(p) # {}
  <2>1. Goto(t, "page") /\ UNCHANGED <<rootBits, blockVars>> /\ worker[t].pc = "root"
        /\ UNCHANGED <<rootPages, poolVars, items, item_count, calls>>
    BY <1>3 DEF RootFind
  <2>2. /\ worker[t].pc = "root" /\ worker'[t].pc = "page"
        /\ worker' \in [AllocThreads -> WorkerSet] /\ \A u \in AllocThreads : u # t => worker'[u] = worker[u]
    BY <1>1, <2>1 DEF Goto, AllocTypes, WorkerSet, AllocPCs
  <2>3. Steady' /\ Only(t)
    BY <1>1, <2>1, <2>2 DEF Steady, AllocTypes, Placed, Only, blockVars, poolVars, Slots, Linked, WorkerSet
  <2>4. HeadOf(worker'[t], next) = HeadOf(worker[t], next) /\ worker'[t].pc # "count"
    BY <2>2 DEF HeadOf
  <2>5. /\ \A x : Carried(t, x)' <=> Carried(t, x)
        /\ \A x : Holds(t, x)' <=> Holds(t, x)
        /\ t \in Between' <=> t \in Between
        /\ t \in Racing' => t \in Racing
    BY <2>2 DEF Carried, Carries, Holds, Between, Racing
  <2> QED
    BY <2>1, <2>3, <2>4, <2>5, QuietKeeps DEF blockVars, poolVars
<1> QED
  BY <1>2, <1>3

LEMMA RootNewPageKeeps ==
    ASSUME AllocInv, NEW t \in AllocThreads, RootNewPage(t)
    PROVE  AllocInv'
<1>1. AllocTypes /\ RootExact
  BY AllocParts
<1>2. PICK p \in Pages \ rootPages :
         /\ rootPages' = rootPages \cup {p} /\ rootBits' = [rootBits EXCEPT ![p] = {1}]
         /\ Fresh(<<p, 1>>) /\ GotoWith(t, "mask", <<p, 1>>)
  BY DEF RootNewPage
<1> DEFINE b == <<p, 1>>
<1>3. 1 \in 1 .. PageSize
  BY AllocAssumption
<1>4. b \in Blocks /\ b[1] = p /\ b[2] = 1
  BY <1>3 DEF Blocks
<1>5. rootBits' \in [Pages -> SUBSET (1 .. PageSize)] /\ rootPages' \subseteq Pages
  BY <1>1, <1>2, <1>3 DEF AllocTypes
<1>6. \A x \in Blocks : InRoot(x)' <=> InRoot(x) \/ x = b
  <2>1. \A x \in Blocks : x[1] \in Pages /\ x = <<x[1], x[2]>>
    BY DEF Blocks
  <2>2. \A q \in Pages : rootBits'[q] = IF q = p THEN {1} ELSE rootBits[q]
    BY <1>1, <1>2 DEF AllocTypes
  <2> QED
    BY <1>2, <2>1, <2>2 DEF InRoot
<1>7. ref_count[b] = 0
  <2>1. ~(ref_count[b] > 0) /\ ref_count[b] \in Nat
    BY <1>1, <1>2, <1>4 DEF RootExact, AllocTypes
  <2> QED
    BY <2>1
<1>8. Fresh(b) /\ GotoWith(t, "mask", b)
  BY <1>2
<1> HIDE DEF b
<1> QED
  BY <1>4, <1>5, <1>6, <1>7, <1>8, FreshKeeps DEF RootNewPage

LEMMA AllocSteps == AllocInv /\ [AllocNext]_allocVars => AllocInv'
<1> SUFFICES ASSUME AllocInv, [AllocNext]_allocVars PROVE AllocInv'
  OBVIOUS
<1>1. CASE UNCHANGED allocVars
  <2>1. /\ rootPages' = rootPages /\ rootBits' = rootBits /\ ref_count' = ref_count /\ managed' = managed
        /\ bitmap' = bitmap /\ next' = next /\ control_blocks' = control_blocks /\ recycled_head' = recycled_head
        /\ recycle_count' = recycle_count /\ worker' = worker /\ items' = items /\ item_count' = item_count
        /\ calls' = calls
    BY <1>1 DEF allocVars, rootVars, blockVars, poolVars
  <2>2. AllocTypes' /\ (\A u \in AllocThreads : Placed(worker[u])') /\ BitsHeld' /\ ItemsExclusive' /\ RootExact'
    BY <2>1, AllocParts DEF AllocTypes, Placed, Slots, BitsHeld, ItemsExclusive, RootExact
  <2>3. /\ ListOf(recycled_head)' = ListOf(recycled_head)
        /\ \A u \in AllocThreads : Taken(u)' = Taken(u) /\ \A b : Carried(u, b)' <=> Carried(u, b)
    BY <2>1 DEF ListOf, Taken, Carried
  <2>4. Listed' = Listed /\ Between' = Between /\ Racing' = Racing
    BY <2>1, <2>3 DEF Listed, Between, Racing
  <2>5. ClaimedOnce'
    BY <2>1, <2>3, AllocParts DEF ClaimedOnce, Located
  <2>6. Acyclic'
    BY <2>1, AllocParts DEF Acyclic
  <2>7. RefsCounted'
    <3>1. \A b \in Blocks : /\ ItemsOf(b)' = ItemsOf(b) /\ Holders(b)' = Holders(b)
                           /\ Num(Pooled(b)') = Num(Pooled(b))
      BY <2>1, <2>4 DEF ItemsOf, Holders, Holds, Pooled, Num
    <3> QED
      BY <2>1, <3>1, AllocParts DEF RefsCounted
  <2>8. RecycleCounted'
    BY <2>1, <2>4, AllocParts DEF RecycleCounted
  <2> QED
    BY <2>2, <2>5, <2>6, <2>7, <2>8 DEF AllocInv
<1>2. ASSUME NEW t \in AllocThreads, AllocStep(t) PROVE AllocInv'
  BY <1>2, RootFindKeeps, RootNewPageKeeps, AllocBeginKeeps, TakeControlKeeps, TakeRecycledKeeps, RestBackKeeps,
     PushBackKeeps, PoppedKeeps, UnmanageKeeps, LoadMaskKeeps, SetBitKeeps, CountItemKeeps, RecycleTestKeeps,
     RecycleKeeps, PutKeeps, PushRecycledKeeps, TryFreeKeeps, DeallocateKeeps
  DEF AllocStep
<1> QED
  BY <1>1, <1>2 DEF AllocNext

\* The blocks are numbered page by page.
LEMMA BlockNumber ==
    ASSUME NEW b \in Blocks, NEW c \in Blocks,
           (b[1] - 1) * PageSize + b[2] = (c[1] - 1) * PageSize + c[2]
    PROVE  b = c
<1>1. ASSUME NEW p \in Nat, NEW q \in Nat, NEW i \in Nat, NEW j \in Nat, NEW s \in Nat,
             1 <= j, i <= s, p < q, (p - 1) * s + i = (q - 1) * s + j
      PROVE  FALSE
  <2>1. q - p - 1 \in Nat /\ (q - p - 1) * s \in Nat
    BY <1>1
  <2>2. (q - 1) * s = (p - 1) * s + (q - p - 1) * s + s
    BY <1>1
  <2> QED
    BY <1>1, <2>1, <2>2
<1>2. \A x \in Blocks : x[1] \in Pages /\ x[2] \in 1 .. PageSize /\ x = <<x[1], x[2]>>
  BY DEF Blocks
<1>6. /\ b[1] \in Nat /\ c[1] \in Nat /\ b[2] \in Nat /\ c[2] \in Nat /\ PageSize \in Nat
      /\ 1 <= b[2] /\ 1 <= c[2] /\ b[2] <= PageSize /\ c[2] <= PageSize
  <2>1. Pages \subseteq Nat \ {0} /\ PageSize \in Nat
    BY AllocAssumption
  <2>2. b[1] \in Pages /\ c[1] \in Pages /\ b[2] \in 1 .. PageSize /\ c[2] \in 1 .. PageSize
    BY <1>2
  <2>3. b[1] \in Nat /\ c[1] \in Nat
    BY ONLY <2>1, <2>2
  <2>4. \A x \in 1 .. PageSize : x \in Nat /\ 1 <= x /\ x <= PageSize
    BY ONLY <2>1
  <2> QED
    BY ONLY <2>1, <2>2, <2>3, <2>4
<1>7. ~(b[1] < c[1])
  BY ONLY <1>1, <1>6, (b[1] - 1) * PageSize + b[2] = (c[1] - 1) * PageSize + c[2]
<1>8. ~(c[1] < b[1])
  BY ONLY <1>1, <1>6, (c[1] - 1) * PageSize + c[2] = (b[1] - 1) * PageSize + b[2]
<1>3. ~(b[1] < c[1]) /\ ~(c[1] < b[1])
  BY <1>7, <1>8
<1>4. b[1] = c[1]
  BY <1>6, <1>3
<1>5. b[2] = c[2]
  <2>1. (b[1] - 1) * PageSize \in Int
    BY <1>6
  <2> QED
    BY ONLY <1>6, <1>4, <2>1, (b[1] - 1) * PageSize + b[2] = (c[1] - 1) * PageSize + c[2]
<1> QED
  BY <1>2, <1>4, <1>5

LEMMA AllocStarts == AllocInit => AllocInv
<1> SUFFICES ASSUME AllocInit PROVE AllocInv
  OBVIOUS
<1> DEFINE Upto(n) == {b \in Blocks : (b[1] - 1) * PageSize + b[2] <= n}
           Final(n) == {b \in Upto(n) : (b[1] - 1) * PageSize + b[2] = n}
<1>1. PICK start \in Starts :
        LET inUse == Upto(start.blocks)
            last == Final(start.blocks) IN
        /\ item_count = start.items /\ calls = start.calls
        /\ rootPages = {b[1] : b \in inUse}
        /\ rootBits = [p \in Pages |-> {b[2] : b \in {x \in inUse : x[1] = p}}]
        /\ items = inUse \X Slots
        /\ bitmap = [b \in Blocks |-> IF b \in inUse THEN Slots ELSE {}]
        /\ ref_count = [b \in Blocks |-> IF b \notin inUse THEN 0
                                         ELSE item_count + (IF b \in last THEN 1 ELSE 0)]
        /\ managed = [b \in Blocks |-> b \in last] /\ next = [b \in Blocks |-> Null]
        /\ control_blocks = [c \in 1 .. ControlBlocks |->
                                IF c = 1 /\ last # {} THEN CHOOSE b \in last : TRUE ELSE Null]
        /\ recycled_head = Null /\ recycle_count = 0
        /\ worker = [t \in AllocThreads |-> Resting]
  BY DEF AllocInit
<1> DEFINE inUse == Upto(start.blocks)
           last == Final(start.blocks)
           L == CHOOSE b \in last : TRUE
<1>2. inUse \subseteq Blocks /\ last \subseteq inUse /\ (last # {} => L \in last) /\ \A b, c \in last : b = c
  <2>1. inUse \subseteq Blocks /\ last \subseteq inUse /\ (last # {} => L \in last)
    OBVIOUS
  <2>2. \A b, c \in last : b \in Blocks /\ c \in Blocks
                           /\ (b[1] - 1) * PageSize + b[2] = (c[1] - 1) * PageSize + c[2]
    OBVIOUS
  <2> QED
    BY <2>1, <2>2, BlockNumber
<1>3. item_count \in Nat \ {0} /\ calls \in Nat /\ ControlBlocks \in Nat \ {0} /\ MaxRecycled \in Nat
  BY <1>1, AllocAssumption
<1>4. /\ rootPages = {b[1] : b \in inUse} /\ rootBits = [p \in Pages |-> {b[2] : b \in {x \in inUse : x[1] = p}}]
      /\ items = inUse \X Slots /\ bitmap = [b \in Blocks |-> IF b \in inUse THEN Slots ELSE {}]
      /\ ref_count = [b \in Blocks |-> IF b \notin inUse THEN 0 ELSE item_count + (IF b \in last THEN 1 ELSE 0)]
      /\ managed = [b \in Blocks |-> b \in last] /\ next = [b \in Blocks |-> Null]
      /\ control_blocks = [c \in 1 .. ControlBlocks |-> IF c = 1 /\ last # {} THEN L ELSE Null]
      /\ recycled_head = Null /\ recycle_count = 0 /\ worker = [t \in AllocThreads |-> Resting]
  BY <1>1
<1> HIDE DEF inUse, last, L, Upto, Final
<1>5. AllocTypes
  <2>1. \A b \in Blocks : b[1] \in Pages /\ b[2] \in 1 .. PageSize
    BY DEF Blocks
  <2>2. rootPages \subseteq Pages /\ rootBits \in [Pages -> SUBSET (1 .. PageSize)]
    BY <1>2, <1>4, <2>1
  <2>3. ref_count \in [Blocks -> Nat] /\ managed \in [Blocks -> BOOLEAN] /\ bitmap \in [Blocks -> SUBSET Slots]
    BY <1>3, <1>4
  <2>4. next \in [Blocks -> Linked] /\ recycled_head \in Linked
    BY <1>4 DEF Linked
  <2>5. control_blocks \in [1 .. ControlBlocks -> Linked]
    BY <1>2, <1>4 DEF Linked
  <2>6. worker \in [AllocThreads -> WorkerSet]
    BY <1>4 DEF WorkerSet, Resting, AllocPCs, Linked
  <2> QED
    BY <1>2, <1>3, <1>4, <2>2, <2>3, <2>4, <2>5, <2>6 DEF AllocTypes, WorkerSet
<1>6. \A t \in AllocThreads : worker[t].pc = "rest"
  BY <1>4 DEF Resting
<1>7. \A t \in AllocThreads : Placed(worker[t])
  BY <1>6 DEF Placed
<1>8. BitsHeld /\ ItemsExclusive
  BY <1>2, <1>4, <1>6 DEF BitsHeld, ItemsExclusive
<1>9. Reach(next, Null) = {}
  <2>1. next \in [Blocks -> Blocks \cup {Null}] /\ Null \in Blocks \cup {Null}
    BY <1>5 DEF AllocTypes, Linked
  <2> QED
    BY <2>1, ReachClosed
<1>10. /\ ListOf(recycled_head) = {} /\ Listed = {}
       /\ \A t \in AllocThreads : HeadOf(worker[t], next) = Null /\ Taken(t) = {}
       /\ \A t \in AllocThreads : \A b : ~Carried(t, b) /\ ~Holds(t, b)
  <2>1. \A t \in AllocThreads : HeadOf(worker[t], next) = Null
    BY <1>6 DEF HeadOf
  <2>2. ListOf(recycled_head) = {} /\ \A t \in AllocThreads : Taken(t) = {}
    BY <1>4, <1>9, <2>1 DEF ListOf, Taken
  <2>3. \A t \in AllocThreads : \A b : ~Carried(t, b) /\ ~Holds(t, b)
    BY <1>6 DEF Carried, Carries, Holds
  <2> QED
    BY <2>1, <2>2, <2>3 DEF Listed
<1>11. Acyclic
  BY <1>4, <1>9, <1>10 DEF Acyclic, Straight
<1>12. \A b \in Blocks : \A c \in 1 .. ControlBlocks : control_blocks[c] = b <=> c = 1 /\ b \in last
  BY <1>2, <1>4, NullNoBlock
<1>13. 1 \in 1 .. ControlBlocks
  BY <1>3
<1>14. ClaimedOnce
  <2> SUFFICES ASSUME NEW b \in Blocks PROVE Located(b)
    BY DEF ClaimedOnce
  <2>1. managed[b] <=> b \in last
    BY <1>4
  <2> QED
    BY <1>10, <1>12, <1>13, <2>1 DEF Located
<1>15. RefsCounted
  <2> SUFFICES ASSUME NEW b \in Blocks
               PROVE  ref_count[b] = Cardinality(ItemsOf(b)) + Cardinality(Holders(b)) + Num(Pooled(b))
    BY DEF RefsCounted
  <2>1. Cardinality(Holders(b)) = 0
    <3>1. Holders(b) = {}
      BY <1>10 DEF Holders
    <3> QED
      BY <3>1, FS_EmptySet
  <2>2. Num(Pooled(b)) = IF b \in last THEN 1 ELSE 0
    BY <1>10, <1>12, <1>13 DEF Pooled, Num
  <2>3. Cardinality(ItemsOf(b)) = IF b \in inUse THEN item_count ELSE 0
    <3>1. CASE b \in inUse
      <4>1. ItemsOf(b) = {b} \X Slots
        BY <1>4, <3>1 DEF ItemsOf
      <4>2. IsFiniteSet(Slots) /\ Cardinality(Slots) = item_count
        <5>1. 1 \in Int /\ item_count \in Int /\ item_count - 1 + 1 = item_count /\ ~(1 > item_count)
          BY <1>3
        <5> QED
          BY <5>1, FS_Interval DEF Slots
      <4>3. IsFiniteSet({b}) /\ Cardinality({b}) = 1
        BY FS_Singleton
      <4>4. Cardinality({b} \X Slots) = 1 * item_count
        BY <4>2, <4>3, FS_Product
      <4> QED
        BY <1>3, <3>1, <4>1, <4>4
    <3>2. CASE b \notin inUse
      <4>1. ItemsOf(b) = {}
        BY <1>4, <3>2 DEF ItemsOf
      <4> QED
        BY <3>2, <4>1, FS_EmptySet
    <3> QED
      BY <3>1, <3>2
  <2>4. ref_count[b] = IF b \notin inUse THEN 0 ELSE item_count + (IF b \in last THEN 1 ELSE 0)
    BY <1>4
  <2> QED
    BY <1>2, <1>3, <2>1, <2>2, <2>3, <2>4
<1>16. RootExact
  <2> SUFFICES ASSUME NEW b \in Blocks PROVE ref_count[b] > 0 <=> b[1] \in rootPages /\ b[2] \in rootBits[b[1]]
    BY DEF RootExact
  <2>1. ref_count[b] > 0 <=> b \in inUse
    BY <1>3, <1>4
  <2>2. b \in inUse => b[1] \in rootPages
    BY <1>4
  <2>3. \A x \in inUse : x = <<x[1], x[2]>>
    BY <1>2 DEF Blocks
  <2>4. b[1] \in Pages /\ b = <<b[1], b[2]>>
    BY DEF Blocks
  <2>5. b[2] \in rootBits[b[1]] <=> b \in inUse
    BY <1>4, <2>3, <2>4
  <2> QED
    BY <2>1, <2>2, <2>5
<1>17. RecycleCounted
  <2>1. Between = {} /\ Racing = {}
    BY <1>6 DEF Between, Racing
  <2>2. Cardinality(Listed) = 0 /\ Cardinality(Between) = 0 /\ Cardinality(Racing) = 0
    BY <1>10, <2>1, FS_EmptySet
  <2>3. Cardinality(AllocThreads) \in Nat /\ Cardinality(AllocThreads) # 0
    BY BlocksFinite, AllocAssumption, FS_CardinalityType, FS_EmptySet
  <2> QED
    BY <1>3, <1>4, <2>2, <2>3 DEF RecycleCounted
<1> QED
  BY <1>5, <1>7, <1>8, <1>11, <1>14, <1>15, <1>16, <1>17 DEF AllocInv

\* What the lists and the pool hold of a block.
LEMMA PoolOf ==
    ASSUME AllocInv, NEW b \in Blocks
    PROVE  /\ Lists(b) = Num(b \in Listed)
           /\ InPool(b) = Num(Pooled(b)) /\ (Pooled(b) => managed[b])
<1> DEFINE A == {x \in {"recycled"} : b \in ListOf(recycled_head)}
           T == {t \in AllocThreads :
                   \/ worker[t].pc = "rest_back" /\ b \in ListOf(next[worker[t].block])
                   \/ worker[t].pc = "push_back" /\ b \in ListOf(worker[t].list)}
           C == {c \in DOMAIN control_blocks : control_blocks[c] = b}
<1>1. Located(b) /\ DOMAIN control_blocks = 1 .. ControlBlocks
      /\ next \in [Blocks -> Blocks \cup {Null}] /\ Null \in Blocks \cup {Null}
  BY AllocParts DEF ClaimedOnce, AllocTypes, Linked
<1>2. \A t \in AllocThreads : t \in T <=> b \in Taken(t)
  <2>1. b \notin ListOf(Null)
    BY <1>1, ReachClosed DEF ListOf
  <2> QED
    BY <2>1 DEF Taken, HeadOf
<1>3. \A x, y \in A : x = y
  OBVIOUS
<1>4. \A x, y \in T : x = y
  BY <1>1, <1>2 DEF Located
<1>5. \A x, y \in C : x = y
  BY <1>1 DEF Located
<1>6. /\ Cardinality(A) = IF A = {} THEN 0 ELSE 1
      /\ Cardinality(T) = IF T = {} THEN 0 ELSE 1
      /\ Cardinality(C) = IF C = {} THEN 0 ELSE 1
  BY <1>3, <1>4, <1>5, OneAtMost
<1>7. A = {} \/ T = {}
  BY <1>1, <1>2 DEF Located
<1>8. (A = {} /\ T = {}) \/ C = {}
  BY <1>1, <1>2 DEF Located
<1>9. b \in Listed <=> A # {} \/ T # {}
  BY <1>2 DEF Listed
<1>10. Pooled(b) <=> b \in Listed \/ C # {}
  BY <1>1 DEF Pooled
<1>11. Lists(b) = Cardinality(A) + Cardinality(T) /\ InPool(b) = Lists(b) + Cardinality(C)
  BY DEF Lists, InPool
<1>12. Pooled(b) => managed[b]
  BY <1>1 DEF Located, Pooled, Listed
<1> HIDE DEF A, T, C
<1> QED
  BY <1>6, <1>7, <1>8, <1>9, <1>10, <1>11, <1>12 DEF Num

LEMMA AllocExact == AllocInv => ItemsExclusive /\ RefsExact /\ PooledOnce
<1> SUFFICES ASSUME AllocInv PROVE ItemsExclusive /\ RefsExact /\ PooledOnce
  OBVIOUS
<1>1. AllocTypes /\ RefsCounted /\ RootExact /\ RecycleCounted /\ ItemsExclusive
  BY AllocParts
<1>2. RefsExact
  BY <1>1, PoolOf DEF RefsExact, RefsCounted, RootExact, ItemsOf, Holders
<1>3. PooledOnce
  <2>1. \A b \in Blocks : InPool(b) <= 1 /\ (InPool(b) = 1 => managed[b])
    BY PoolOf DEF Num
  <2>2. {b \in Blocks : Lists(b) > 0} = Listed
    <3>1. \A b \in Blocks : Lists(b) > 0 <=> b \in Listed
      BY PoolOf DEF Num
    <3> QED
      BY <3>1 DEF Listed
  <2>3. Cardinality(Racing) \in Nat /\ Cardinality(AllocThreads) \in Nat
    BY BlocksFinite, FS_Subset, FS_CardinalityType DEF Racing
  <2>4. recycle_count < MaxRecycled + Cardinality(AllocThreads)
    BY <1>1, <2>3, AllocAssumption DEF RecycleCounted, AllocTypes
  <2> QED
    BY <1>1, <2>1, <2>2, <2>4 DEF PooledOnce, RecycleCounted, Between
<1> QED
  BY <1>1, <1>2, <1>3

(***************************************************************************)
(* allocate_safe(), deallocate_safe() and the linear allocator, for any    *)
(* threads, pages, slots, limits, sizes and alignments: memory has one     *)
(* owner, whatever the threads interleave, and a block is counted exactly. *)
(***************************************************************************)
THEOREM MemoryKept == CacheAllocSpec /\ AllocSpec => []MemoryExclusive
<1>1. AllocInv => ItemsExclusive /\ RefsExact /\ PooledOnce
  BY AllocExact
<1>2. RegionsDisjoint /\ ItemsExclusive /\ RefsExact /\ PooledOnce => MemoryExclusive
  BY DEF MemoryExclusive
<1>3. AllocSpec => []AllocInv
  BY AllocStarts, AllocSteps, PTL DEF AllocSpec
<1> QED
  BY <1>1, <1>2, <1>3, RegionsKept, PTL

=============================================================================
