---------------------------- MODULE EntitySystem ----------------------------
(***************************************************************************)
(* iris_system_t and iris_entity_allocator_t of src/src/iris/iris_system.h *)
(* over iris_queue_quick_list_t of src/src/iris/iris_common.h: a vector of *)
(* (entity, index) sorted by entity, and queues of the entities and of     *)
(* their components, filled and emptied together.  A removal moves the     *)
(* front of the queues into the hole and pops the front; the entry stays   *)
(* as a tombstone.  One component; a cell is an entity with its component. *)
(***************************************************************************)
EXTENDS Naturals, Sequences, FiniteSets, SequencesExt

CONSTANTS
    MaxEntities,  \* bound: identifiers 0 .. MaxEntities - 1
    Components,   \* values of the component
    QuickRing,    \* element_count of the queues
    MaxInserts    \* bound: elements pushed to the queues

Ids == 0 .. MaxEntities - 1
Tombstone == 1000000 \* ~(index_t)0, above every index

VARIABLES
    entity_components, \* entity -> index or tombstone, for the entries present
    rings,             \* nodes of the quick list: [push, pop, cells]
    iteratorCounter,   \* counter the next node starts from
    free_entities, max_allocated_entity,
    owned,             \* entities given out -> component last inserted, or "none" (history)
    inserts

entityVars == <<entity_components, rings, iteratorCounter, free_entities,
                max_allocated_entity, owned, inserts>>

EmptyRing(c) == [push |-> c, pop |-> c, cells |-> <<>>]

EntityInit ==
    /\ entity_components = <<>> /\ rings = <<EmptyRing(0)>> /\ iteratorCounter = QuickRing
    /\ free_entities = <<>> /\ max_allocated_entity = 0 /\ owned = <<>> /\ inserts = 0

SetEntry(f, e, i) == [x \in DOMAIN f \cup {e} |-> IF x = e THEN i ELSE f[x]]
Valid(e) == e \in DOMAIN entity_components /\ entity_components[e] # Tombstone

-----------------------------------------------------------------------------
(* The quick list.  A ring may go round, so that its counters pass the one *)
(* that the next node starts from.                                         *)

end_index == rings[Len(rings)].push
begin_index == rings[1].pop
Top == rings[1].cells[1]

RingPush(rs, counter, cell) ==
    LET n == rs[Len(rs)] IN
    IF n.push - n.pop < QuickRing
    THEN [rs EXCEPT ![Len(rs)] = [@ EXCEPT !.push = @ + 1, !.cells = Append(@, cell)]]
    ELSE Append(rs, [push |-> counter + 1, pop |-> counter, cells |-> <<cell>>])

Chains == rings[Len(rings)].push - rings[Len(rings)].pop = QuickRing

\* pop() and cleanup_empty()
RingPop(rs) ==
    LET n == [rs[1] EXCEPT !.pop = @ + 1, !.cells = Tail(@)] IN
    IF n.cells = <<>> /\ Len(rs) > 1 THEN Tail(rs) ELSE [rs EXCEPT ![1] = n]

\* get(): the node is computed from the index and where the first one begins
NodeOf(index) == (index - (begin_index - (begin_index % QuickRing))) \div QuickRing + 1
Reaches(index) ==
    LET n == NodeOf(index) IN
    n \in DOMAIN rings /\ rings[n].pop <= index /\ index < rings[n].push
CellAt(index) == rings[NodeOf(index)].cells[index - rings[NodeOf(index)].pop + 1]
WriteAt(index, cell) ==
    [rings EXCEPT ![NodeOf(index)].cells[index - rings[NodeOf(index)].pop + 1] = cell]

-----------------------------------------------------------------------------
\* iris_entity_allocator_t: the identifier freed first comes back first
AllocateEntity ==
    /\ \/ /\ free_entities # <<>> /\ free_entities' = Tail(free_entities)
          /\ owned' = SetEntry(owned, Head(free_entities), "none")
          /\ UNCHANGED max_allocated_entity
       \/ /\ free_entities = <<>> /\ max_allocated_entity < MaxEntities
          /\ max_allocated_entity' = max_allocated_entity + 1
          /\ owned' = SetEntry(owned, max_allocated_entity, "none")
          /\ UNCHANGED free_entities
    /\ UNCHANGED <<entity_components, rings, iteratorCounter, inserts>>

\* the owner removes the component first
FreeEntity(e) ==
    /\ e \in DOMAIN owned /\ owned[e] = "none"
    /\ free_entities' = Append(free_entities, e)
    /\ owned' = [x \in DOMAIN owned \ {e} |-> owned[x]]
    /\ UNCHANGED <<entity_components, rings, iteratorCounter, max_allocated_entity, inserts>>

\* insert() of a component that is there: it is replaced
Replace(e, v) ==
    /\ e \in DOMAIN owned /\ Valid(e) /\ Reaches(entity_components[e])
    /\ rings' = WriteAt(entity_components[e], <<CellAt(entity_components[e])[1], v>>)
    /\ owned' = [owned EXCEPT ![e] = v]
    /\ UNCHANGED <<entity_components, iteratorCounter, free_entities, max_allocated_entity, inserts>>

\* insert() of a new one: the entry, or the tombstone, takes the next index
Insert(e, v) ==
    /\ e \in DOMAIN owned /\ ~Valid(e) /\ inserts < MaxInserts
    /\ entity_components' = SetEntry(entity_components, e, end_index)
    /\ rings' = RingPush(rings, iteratorCounter, <<e, v>>)
    /\ iteratorCounter' = IF Chains THEN iteratorCounter + QuickRing ELSE iteratorCounter
    /\ owned' = [owned EXCEPT ![e] = v] /\ inserts' = inserts + 1
    /\ UNCHANGED <<free_entities, max_allocated_entity>>

\* Mutant: the entry of the entity that moves into the hole keeps its index.
RemoveEntryStays(e) ==
    LET index == entity_components[e] IN
    /\ Valid(e) /\ Top[1] # e /\ Reaches(index)
    /\ entity_components' = [entity_components EXCEPT ![e] = Tombstone]
    /\ rings' = RingPop(WriteAt(index, Top))
    /\ owned' = [owned EXCEPT ![e] = "none"]
    /\ UNCHANGED <<iteratorCounter, free_entities, max_allocated_entity, inserts>>

\* remove() of an entity that is not at the front: the front takes its place
RemoveInside(e) ==
    LET index == entity_components[e] IN
    /\ Valid(e) /\ Top[1] # e /\ Reaches(index)
    /\ entity_components' = [entity_components EXCEPT ![Top[1]] = index, ![e] = Tombstone]
    /\ rings' = RingPop(WriteAt(index, Top))
    /\ owned' = [owned EXCEPT ![e] = "none"]
    /\ UNCHANGED <<iteratorCounter, free_entities, max_allocated_entity, inserts>>

\* Mutant: an entity that is alone in the queues is not popped.
RemoveTopKeeps(e) ==
    /\ Valid(e) /\ Top[1] = e
    /\ entity_components' = [entity_components EXCEPT ![e] = Tombstone]
    /\ rings' = IF Len(rings[1].cells) = 1 THEN rings ELSE RingPop(rings)
    /\ owned' = [owned EXCEPT ![e] = "none"]
    /\ UNCHANGED <<iteratorCounter, free_entities, max_allocated_entity, inserts>>

\* and of the one at the front
RemoveTop(e) ==
    /\ Valid(e) /\ Top[1] = e
    /\ entity_components' = [entity_components EXCEPT ![e] = Tombstone]
    /\ rings' = RingPop(rings)
    /\ owned' = [owned EXCEPT ![e] = "none"]
    /\ UNCHANGED <<iteratorCounter, free_entities, max_allocated_entity, inserts>>

\* compress(): tombstones go
Compress ==
    /\ entity_components' = [e \in {x \in DOMAIN entity_components : Valid(x)} |-> entity_components[e]]
    /\ UNCHANGED <<rings, iteratorCounter, free_entities, max_allocated_entity, owned, inserts>>

\* clear(): the first node is kept and starts from 0
ClearSystem ==
    /\ entity_components' = <<>> /\ rings' = <<EmptyRing(0)>> /\ iteratorCounter' = QuickRing
    /\ owned' = [e \in DOMAIN owned |-> "none"]
    /\ UNCHANGED <<free_entities, max_allocated_entity, inserts>>

EntityNext ==
    \/ AllocateEntity \/ Compress \/ ClearSystem
    \/ \E e \in DOMAIN owned : FreeEntity(e)
    \/ \E e \in Ids : \/ RemoveInside(e) \/ RemoveTop(e)
                      \/ \E v \in Components : Insert(e, v) \/ Replace(e, v)

EntitySpec == EntityInit /\ [][EntityNext]_entityVars

(***************************************************************************)
(* get() of a valid entity finds the component last inserted for it, and   *)
(* the queue has the entity at that index: after removals that moved other *)
(* entities, reuse of an identifier and of its tombstone, compress().      *)
(***************************************************************************)
GetsOwnComponent ==
    \A e \in DOMAIN entity_components : Valid(e) =>
        /\ Reaches(entity_components[e])
        /\ e \in DOMAIN owned /\ CellAt(entity_components[e]) = <<e, owned[e]>>

\* The queues hold the valid entities and no other, each once: what iterate()
\* visits.
IteratesExactly ==
    LET cells == FlattenSeq([r \in DOMAIN rings |-> rings[r].cells])
        ids == [i \in DOMAIN cells |-> cells[i][1]] IN
    /\ IsInjective(ids)
    /\ ToSet(ids) = {e \in DOMAIN entity_components : Valid(e)}
    /\ ToSet(ids) = {e \in DOMAIN owned : owned[e] # "none"}

(***************************************************************************)
(* After any sequence of insert(), remove(), compress() and clear() the    *)
(* index, the entities and the components agree, both by entity and in     *)
(* iteration.                                                              *)
(***************************************************************************)
EntitiesRight == GetsOwnComponent /\ IteratesExactly
=============================================================================
