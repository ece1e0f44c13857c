----------------------------- MODULE Allocator ------------------------------
(***************************************************************************)
(* iris_root_allocator_t and iris_allocator_t of src/src/iris/iris_common.h *)
(* on the path that threads may share: allocate_safe() and                 *)
(* deallocate_safe().  A block of items carries a reference count, one for *)
(* every item in use and one for whoever holds the block (a thread, a      *)
(* control block, the recycled list); managed says that it is in one of    *)
(* the latter two.  One word of bitmap per block.                          *)
(***************************************************************************)
EXTENDS Naturals, Sequences, FiniteSets, FiniteSetsExt, SequencesExt

CONSTANTS
    AllocThreads,
    Pages, PageSize, \* pages of the root allocator, of s blocks
    ControlBlocks,  \* slots of control_blocks: 1 .. w
    MaxRecycled,    \* r
    Starts          \* how a behaviour starts: [blocks, items, calls], see AllocInit;
                    \* calls bounds the calls of allocate_safe()

ASSUME AllocAssumption ==
    /\ IsFiniteSet(AllocThreads) /\ AllocThreads # {}
    /\ Pages \subseteq Nat \ {0} /\ IsFiniteSet(Pages) /\ PageSize \in Nat \ {0}
    /\ ControlBlocks \in Nat \ {0} /\ MaxRecycled \in Nat
    /\ Starts \subseteq [blocks : Nat, items : Nat \ {0}, calls : Nat]

VARIABLES
    rootPages,      \* pages the root allocator has
    rootBits,       \* page -> indices handed out
    ref_count, managed, bitmap, next,
    control_blocks, recycled_head, recycle_count,
    worker,         \* thread -> [pc, block, slot, list]
    items,          \* items in use: pairs of a block and a slot
    item_count, calls \* items of a block, calls of allocate_safe() left

rootVars == <<rootPages, rootBits>>
blockVars == <<ref_count, managed, bitmap, next>>
poolVars == <<control_blocks, recycled_head, recycle_count>>
allocVars == <<rootVars, blockVars, poolVars, worker, items, item_count, calls>>

Null == <<>>
Blocks == Pages \X (1 .. PageSize)
Slots == 1 .. item_count
Resting == [pc |-> "rest", block |-> Null, slot |-> 0, list |-> Null]

\* One thread has allocated all the items of the first n blocks: the last of
\* them is still in the control block, the others were found full.
AllocInit ==
    \E start \in Starts :
      LET n == start.blocks
          inUse == {b \in Blocks : (b[1] - 1) * PageSize + b[2] <= n}
          last == {b \in inUse : (b[1] - 1) * PageSize + b[2] = n} IN
      /\ item_count = start.items /\ calls = start.calls
      /\ rootPages = {b[1] : b \in inUse}
      /\ rootBits = [p \in Pages |-> {b[2] : b \in {x \in inUse : x[1] = p}}]
      /\ items = inUse \X Slots
      /\ bitmap = [b \in Blocks |-> IF b \in inUse THEN Slots ELSE {}]
      /\ ref_count = [b \in Blocks |-> IF b \notin inUse THEN 0
                                       ELSE item_count + (IF b \in last THEN 1 ELSE 0)]
      /\ managed = [b \in Blocks |-> b \in last] /\ next = [b \in Blocks |-> Null]
      /\ control_blocks = [c \in 1 .. ControlBlocks |->
                              IF c = 1 /\ last # {} THEN CHOOSE b \in last : TRUE ELSE Null]
      /\ recycled_head = Null /\ recycle_count = 0
      /\ worker = [t \in AllocThreads |-> Resting]

Goto(t, pc) == worker' = [worker EXCEPT ![t].pc = pc]
GotoWith(t, pc, b) == worker' = [worker EXCEPT ![t].pc = pc, ![t].block = b]

-----------------------------------------------------------------------------
(* The root allocator: each critical section is a step.                    *)

Free(p) == {i \in 1 .. PageSize : i \notin rootBits[p]}

\* a fresh block: its header is cleared and its count is one
Fresh(b) ==
    /\ ref_count' = [ref_count EXCEPT ![b] = 1] /\ managed' = [managed EXCEPT ![b] = FALSE]
    /\ bitmap' = [bitmap EXCEPT ![b] = {}] /\ next' = [next EXCEPT ![b] = Null]

\* the first free block of the first page that has one
RootFind(t) ==
    /\ worker[t].pc = "root"
    /\ IF \E p \in rootPages : Free(p) # {}
         THEN \E p \in rootPages :
                /\ Free(p) # {} /\ rootBits' = [rootBits EXCEPT ![p] = @ \cup {Min(Free(p))}]
                /\ Fresh(<<p, Min(Free(p))>>) /\ GotoWith(t, "mask", <<p, Min(Free(p))>>)
         ELSE Goto(t, "page") /\ UNCHANGED <<rootBits, blockVars>>
    /\ UNCHANGED <<rootPages, poolVars, items, item_count, calls>>

\* a new page, allocated outside of the critical section
RootNewPage(t) ==
    /\ worker[t].pc = "page"
    /\ \E p \in Pages \ rootPages :
         /\ rootPages' = rootPages \cup {p} /\ rootBits' = [rootBits EXCEPT ![p] = {1}]
         /\ Fresh(<<p, 1>>) /\ GotoWith(t, "mask", <<p, 1>>)
    /\ UNCHANGED <<poolVars, items, item_count, calls>>

\* deallocate(): a page without blocks goes back to the system
RootFree(b) ==
    /\ rootBits' = [rootBits EXCEPT ![b[1]] = @ \ {b[2]}]
    /\ rootPages' = IF rootBits[b[1]] = {b[2]} THEN rootPages \ {b[1]} ELSE rootPages

-----------------------------------------------------------------------------
(* allocate_safe().                                                        *)

AllocBegin(t) ==
    /\ worker[t].pc = "rest" /\ calls > 0 /\ calls' = calls - 1
    /\ worker' = [worker EXCEPT ![t] = [Resting EXCEPT !.pc = "control", !.slot = 1]]
    /\ UNCHANGED <<rootVars, blockVars, poolVars, items, item_count>>

\* the control blocks are exchanged out in turn, until one is there
TakeControl(t) ==
    LET c == worker[t].slot IN
    /\ worker[t].pc = "control"
    /\ control_blocks' = [control_blocks EXCEPT ![c] = Null]
    /\ IF control_blocks[c] # Null THEN GotoWith(t, "unmanage", control_blocks[c])
       ELSE worker' = [worker EXCEPT ![t].slot = c + 1,
                                     ![t].pc = IF c = ControlBlocks THEN "recycled" ELSE "control"]
    /\ UNCHANGED <<rootVars, blockVars, recycled_head, recycle_count, items, item_count, calls>>

\* the whole recycled list is exchanged out
TakeRecycled(t) ==
    /\ worker[t].pc = "recycled" /\ recycled_head' = Null
    /\ IF recycled_head = Null THEN Goto(t, "root") ELSE GotoWith(t, "rest_back", recycled_head)
    /\ UNCHANGED <<rootVars, blockVars, control_blocks, recycle_count, items, item_count, calls>>

\* the rest of the recycled list goes back in one piece when the list is
\* still empty, or else block by block
RestBack(t) ==
    LET b == worker[t].block IN
    /\ worker[t].pc = "rest_back"
    /\ IF recycled_head = Null
         THEN recycled_head' = next[b] /\ Goto(t, "popped")
         ELSE worker' = [worker EXCEPT ![t].pc = "push_back", ![t].list = next[b]]
              /\ UNCHANGED recycled_head
    /\ UNCHANGED <<rootVars, blockVars, control_blocks, recycle_count, items, item_count, calls>>

PushBack(t) ==
    LET q == worker[t].list IN
    /\ worker[t].pc = "push_back"
    /\ IF q = Null THEN Goto(t, "popped") /\ UNCHANGED <<next, recycled_head>>
       ELSE /\ next' = [next EXCEPT ![q] = recycled_head] /\ recycled_head' = q
            /\ worker' = [worker EXCEPT ![t].list = next[q]]
    /\ UNCHANGED <<rootVars, ref_count, managed, bitmap, control_blocks, recycle_count, items, item_count, calls>>

\* the block popped from the list is no longer counted
Popped(t) ==
    LET b == worker[t].block IN
    /\ worker[t].pc = "popped"
    /\ next' = [next EXCEPT ![b] = Null] /\ recycle_count' = recycle_count - 1
    /\ Goto(t, "unmanage")
    /\ UNCHANGED <<rootVars, ref_count, managed, bitmap, control_blocks, recycled_head, items, item_count, calls>>

Unmanage(t) ==
    /\ worker[t].pc = "unmanage" /\ managed' = [managed EXCEPT ![worker[t].block] = FALSE]
    /\ Goto(t, "mask")
    /\ UNCHANGED <<rootVars, ref_count, bitmap, next, poolVars, items, item_count, calls>>

\* the lowest free bit of the mask that was loaded
LoadMask(t) ==
    LET free == Slots \ bitmap[worker[t].block] IN
    /\ worker[t].pc = "mask"
    /\ worker' = IF free = {} THEN [worker EXCEPT ![t].pc = "full"]
                 ELSE [worker EXCEPT ![t].pc = "bit", ![t].slot = Min(free)]
    /\ UNCHANGED <<rootVars, blockVars, poolVars, items, item_count, calls>>

\* Mutant: the bit is stored without looking at what was there.
SetBitBlindly(t) ==
    LET b == worker[t].block s == worker[t].slot IN
    /\ worker[t].pc = "bit" /\ bitmap' = [bitmap EXCEPT ![b] = @ \cup {s}]
    /\ Goto(t, "count")
    /\ UNCHANGED <<rootVars, ref_count, managed, next, poolVars, items, item_count, calls>>

\* fetch_or: another thread may have taken the bit, then the block counts as
\* full for this call
SetBit(t) ==
    LET b == worker[t].block s == worker[t].slot IN
    /\ worker[t].pc = "bit" /\ bitmap' = [bitmap EXCEPT ![b] = @ \cup {s}]
    /\ Goto(t, IF s \in bitmap[b] THEN "full" ELSE "count")
    /\ UNCHANGED <<rootVars, ref_count, managed, next, poolVars, items, item_count, calls>>

\* Mutant: the item is not counted when the block goes back to the pool.
CountItemNot(t) ==
    LET b == worker[t].block IN
    /\ worker[t].pc = "count" /\ Goto(t, "recycle")
    /\ items' = items \cup {<<b, worker[t].slot>>}
    /\ UNCHANGED <<rootVars, blockVars, poolVars, item_count, calls>>

CountItem(t) ==
    LET b == worker[t].block IN
    /\ worker[t].pc = "count" /\ ref_count' = [ref_count EXCEPT ![b] = @ + 1]
    /\ items' = items \cup {<<b, worker[t].slot>>}
    /\ Goto(t, "recycle")
    /\ UNCHANGED <<rootVars, managed, bitmap, next, poolVars, item_count, calls>>

-----------------------------------------------------------------------------
(* recycle_safe(), try_free_safe() and deallocate_safe().                  *)

\* load managed and recycle_count: the block may go back to the pool
RecycleTest(t) ==
    /\ worker[t].pc = "recycle"
    /\ Goto(t, IF ~managed[worker[t].block] /\ recycle_count < MaxRecycled
               THEN "manage" ELSE "try_free")
    /\ UNCHANGED <<rootVars, blockVars, poolVars, items, item_count, calls>>

\* Mutant: managed is set although another thread may just have set it.
RecycleUntested(t) ==
    LET b == worker[t].block IN
    /\ worker[t].pc = "manage" /\ managed' = [managed EXCEPT ![b] = TRUE]
    /\ worker' = [worker EXCEPT ![t].slot = 1, ![t].pc = "put"]
    /\ UNCHANGED <<rootVars, ref_count, bitmap, next, poolVars, items, item_count, calls>>

\* exchange managed: one thread puts the block back, the others let it go
Recycle(t) ==
    LET b == worker[t].block IN
    /\ worker[t].pc = "manage" /\ managed' = [managed EXCEPT ![b] = TRUE]
    /\ worker' = [worker EXCEPT ![t].slot = 1, ![t].pc = IF managed[b] THEN "try_free" ELSE "put"]
    /\ UNCHANGED <<rootVars, ref_count, bitmap, next, poolVars, items, item_count, calls>>

\* into the first control block found empty; or counted and then pushed
Put(t) ==
    LET b == worker[t].block c == worker[t].slot IN
    /\ worker[t].pc = "put"
    /\ \/ /\ c <= ControlBlocks /\ control_blocks[c] = Null
          /\ control_blocks' = [control_blocks EXCEPT ![c] = b]
          /\ worker' = [worker EXCEPT ![t] = Resting] /\ UNCHANGED recycle_count
       \/ /\ c <= ControlBlocks /\ control_blocks[c] # Null
          /\ worker' = [worker EXCEPT ![t].slot = c + 1] /\ UNCHANGED <<control_blocks, recycle_count>>
       \/ /\ c > ControlBlocks /\ recycle_count' = recycle_count + 1 /\ Goto(t, "push")
          /\ UNCHANGED control_blocks
    /\ UNCHANGED <<rootVars, blockVars, recycled_head, items, item_count, calls>>

PushRecycled(t) ==
    LET b == worker[t].block IN
    /\ worker[t].pc = "push"
    /\ next' = [next EXCEPT ![b] = recycled_head] /\ recycled_head' = b
    /\ worker' = [worker EXCEPT ![t] = Resting]
    /\ UNCHANGED <<rootVars, ref_count, managed, bitmap, control_blocks, recycle_count, items, item_count, calls>>

\* a reference is given up, the last one frees the block; allocate_safe()
\* goes on with another block when this one was full
TryFree(t) ==
    LET b == worker[t].block IN
    /\ worker[t].pc \in {"try_free", "full"}
    /\ ref_count' = [ref_count EXCEPT ![b] = @ - 1]
    /\ worker' = [worker EXCEPT ![t] = IF @.pc = "full" THEN [Resting EXCEPT !.pc = "control", !.slot = 1]
                                       ELSE Resting]
    /\ IF ref_count[b] = 1 THEN RootFree(b) ELSE UNCHANGED rootVars
    /\ UNCHANGED <<managed, bitmap, next, poolVars, items, item_count, calls>>

\* any thread gives an item back: its bit, then recycle_safe()
Deallocate(t, i) ==
    /\ worker[t].pc = "rest" /\ i \in items /\ items' = items \ {i}
    /\ bitmap' = [bitmap EXCEPT ![i[1]] = @ \ {i[2]}]
    /\ GotoWith(t, "recycle", i[1])
    /\ UNCHANGED <<rootVars, ref_count, managed, next, poolVars, item_count, calls>>

AllocStep(t) ==
    \/ RootFind(t) \/ RootNewPage(t) \/ AllocBegin(t) \/ TakeControl(t)
    \/ TakeRecycled(t) \/ RestBack(t)
    \/ PushBack(t) \/ Popped(t) \/ Unmanage(t) \/ LoadMask(t) \/ SetBit(t) \/ CountItem(t)
    \/ RecycleTest(t) \/ Recycle(t) \/ Put(t) \/ PushRecycled(t) \/ TryFree(t)
    \/ \E i \in items : Deallocate(t, i)

AllocNext == \E t \in AllocThreads : AllocStep(t)

AllocSpec == AllocInit /\ [][AllocNext]_allocVars

-----------------------------------------------------------------------------
Holds(t, b) == worker[t].pc \notin {"rest", "control", "recycled", "root", "page"} /\ worker[t].block = b

\* The blocks of a list: those in every set that has b and what follows each
\* of its members.
Reach(nx, b) ==
    {x \in Blocks : /\ b # Null
                    /\ \A S \in SUBSET Blocks : b \in S /\ (\A y \in S : nx[y] \in S \cup {Null}) => x \in S}
ListOf(b) == Reach(next, b)

\* The lists of blocks: the recycled one, and what a thread took of it.
Lists(b) ==
    Cardinality({x \in {"recycled"} : b \in ListOf(recycled_head)})
    + Cardinality({t \in AllocThreads :
        \/ worker[t].pc = "rest_back" /\ b \in ListOf(next[worker[t].block])
        \/ worker[t].pc = "push_back" /\ b \in ListOf(worker[t].list)})
InPool(b) == Lists(b) + Cardinality({c \in DOMAIN control_blocks : control_blocks[c] = b})

\* A slot belongs to one owner: no item is handed out while it is in use, and
\* a block in use, in a list or held by a thread is not given to another page.
ItemsExclusive ==
    \A t \in AllocThreads : worker[t].pc = "count" =>
        /\ <<worker[t].block, worker[t].slot>> \notin items
        /\ \A u \in AllocThreads \ {t} :
             worker[u].pc = "count" => <<worker[u].block, worker[u].slot>> # <<worker[t].block, worker[t].slot>>

(***************************************************************************)
(* The count of a block is its items in use, the threads that work on it   *)
(* and its place in the pool; the root allocator has exactly the blocks    *)
(* with a count.  So no block is freed while somebody can reach it, and    *)
(* none is leaked.                                                         *)
(***************************************************************************)
RefsExact ==
    \A b \in Blocks :
        /\ ref_count[b] = Cardinality({i \in items : i[1] = b})
                          + Cardinality({t \in AllocThreads : Holds(t, b)}) + InPool(b)
        /\ ref_count[b] > 0 <=> b[1] \in rootPages /\ b[2] \in rootBits[b[1]]

\* A block is in one place of the pool at most, and then it is managed; the
\* pool passes its limit by no more than the threads that race for it.
PooledOnce ==
    /\ \A b \in Blocks : InPool(b) <= 1 /\ (InPool(b) = 1 => managed[b])
    /\ recycle_count = Cardinality({b \in Blocks : Lists(b) > 0})
         + Cardinality({t \in AllocThreads : worker[t].pc \in {"rest_back", "push_back", "popped", "push"}})
    /\ recycle_count < MaxRecycled + Cardinality(AllocThreads)
=============================================================================
