--------------------------- MODULE CacheAllocator ---------------------------
(***************************************************************************)
(* iris_cache_t and iris_cache_allocator_t of src/src/iris/iris_common.h:  *)
(* linear allocation from a list of rings that are never popped.  reset()  *)
(* keeps the rings for the next use, clear() keeps one.  A ring that is    *)
(* not popped is the number of its elements in use.                        *)
(***************************************************************************)
EXTENDS Naturals, Sequences, FiniteSetsExt

CONSTANTS
    RingSize,   \* element_count
    Sizes,      \* sizes asked for, in elements
    Alignments, \* powers of two
    MaxRings    \* bound: rings of the list

ASSUME RingAssumption ==
    RingSize \in Nat \ {0} /\ Sizes \subseteq Nat /\ Alignments \subseteq Nat \ {0} /\ MaxRings \in Nat

VARIABLES
    used,       \* rings in the order of the list -> elements in use
    head,       \* push_head
    regions,    \* regions handed out since the last reset()
    largeCount  \* allocations passed on to the large allocator

cacheAllocVars == <<used, head, regions, largeCount>>

CacheAllocInit == used = <<0>> /\ head = 1 /\ regions = {} /\ largeCount = 0

\* iris_get_alignment(): the largest power of two that divides i
LowestBit(i) ==
    IF i = 0 THEN 0 ELSE Max({b \in 1 .. i : i % b = 0 /\ \E k \in 0 .. i : b = 2^k})

\* allocate() of a ring: the padding to the alignment is counted after the
\* region, which begins where the last one ended
Padding(index, alignment) == (alignment + alignment * RingSize - LowestBit(index)) % alignment
Total(index, count, alignment) == count + Padding(index, alignment)

\* Mutant: only the size asked for is compared with the room that is left.
RingFitsUnpadded(u, count, alignment) == count <= RingSize - u

\* a ring in use up to its end has index 0 again, and no room
RingFits(u, count, alignment) == Total(u % RingSize, count, alignment) <= RingSize - u

Place(h, count, alignment) ==
    /\ used' = [used EXCEPT ![h] = @ + Total(@, count, alignment)]
    /\ regions' = regions \cup {[ring |-> h, from |-> used[h], to |-> used[h] + count]}
    /\ head' = h /\ UNCHANGED largeCount

\* allocate_linear() in push_head or in a ring kept by reset() after it; the
\* rings it passes keep a hole
AllocateHere(count, alignment) ==
    /\ count <= RingSize
    /\ \E h \in head .. Len(used) :
         /\ RingFits(used[h], count, alignment)
         /\ \A g \in head .. h - 1 : ~RingFits(used[g], count, alignment)
         /\ Place(h, count, alignment)

\* or in a new ring
AllocateNewRing(count, alignment) ==
    /\ count <= RingSize /\ Len(used) < MaxRings
    /\ \A h \in head .. Len(used) : ~RingFits(used[h], count, alignment)
    /\ head' = Len(used) + 1 /\ used' = Append(used, Total(0, count, alignment))
    /\ regions' = regions \cup {[ring |-> Len(used) + 1, from |-> 0, to |-> count]}
    /\ UNCHANGED largeCount

\* larger than a ring: the large allocator; deallocate() frees only those
AllocateLarge(count) ==
    /\ count > RingSize /\ largeCount = 0 /\ largeCount' = 1
    /\ UNCHANGED <<used, head, regions>>

DeallocateLarge(count) ==
    /\ count > RingSize /\ largeCount > 0 /\ largeCount' = largeCount - 1
    /\ UNCHANGED <<used, head, regions>>

\* Mutant: reset() empties the rings up to push_head only.
CacheResetUsed ==
    /\ used' = [r \in DOMAIN used |-> IF r = 1 THEN 0 ELSE used[r]] /\ head' = 1
    /\ regions' = {} /\ UNCHANGED largeCount

\* reset(): every ring is kept, empty
CacheReset ==
    /\ used' = [r \in DOMAIN used |-> 0] /\ head' = 1
    /\ regions' = {} /\ UNCHANGED largeCount

\* clear(): the first ring is kept
CacheClear == used' = <<0>> /\ head' = 1 /\ regions' = {} /\ UNCHANGED largeCount

CacheAllocNext ==
    \/ \E n \in Sizes : \/ \E a \in Alignments : n >= a /\ (AllocateHere(n, a) \/ AllocateNewRing(n, a))
                        \/ AllocateLarge(n) \/ DeallocateLarge(n)
    \/ CacheReset \/ CacheClear

CacheAllocSpec == CacheAllocInit /\ [][CacheAllocNext]_cacheAllocVars

(***************************************************************************)
(* The regions handed out since the last reset() lie inside their ring and *)
(* do not overlap; and a ring after push_head is empty, so that it can be  *)
(* reused: although reset() keeps rings and clear() frees them.            *)
(***************************************************************************)
RegionsDisjoint ==
    /\ \A r \in regions : r.ring \in DOMAIN used /\ r.to <= used[r.ring] /\ used[r.ring] <= RingSize
    /\ \A r, q \in regions : r # q /\ r.ring = q.ring => r.to <= q.from \/ q.to <= r.from
    /\ \A h \in head + 1 .. Len(used) : used[h] = 0
=============================================================================
