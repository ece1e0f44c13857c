------------------------------- MODULE Memory -------------------------------
(***************************************************************************)
(* The two allocators of src/src/iris/iris_common.h side by side: linear   *)
(* allocation from rings, and blocks of items that threads share.          *)
(***************************************************************************)
EXTENDS CacheAllocator, Allocator

(***************************************************************************)
(* No two owners of the same memory: regions of iris_cache_allocator_t do  *)
(* not overlap, an item of iris_allocator_t is given to one thread, its    *)
(* block is counted exactly while in use and recycled once.                *)
(***************************************************************************)
MemoryExclusive == RegionsDisjoint /\ ItemsExclusive /\ RefsExact /\ PooledOnce
=============================================================================
