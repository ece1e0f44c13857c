----------------------------- MODULE QueueList ------------------------------
(***************************************************************************)
(* iris_queue_t and iris_queue_list_t of src/src/iris/iris_common.h: a ring *)
(* of element_count slots with one producer and one consumer, and the list *)
(* of rings that grows when the last one is full.  The counters are plain  *)
(* words: each side keeps a shadow of the other's counter and loads the    *)
(* real one only when the shadow leaves a doubt.  Elements are the numbers *)
(* 1, 2, ... in the order they are pushed.                                 *)
(***************************************************************************)
EXTENDS Integers, Sequences, FiniteSets, SequencesExt

CONSTANTS
    Nodes,         \* addresses of nodes; a freed one can be allocated again
    ElementCounts, \* ring sizes explored: a power of two, and another
    WordBits,      \* bits of size_t
    FirstCounts,   \* counters the first ring starts from: 0, or near the end of the word
    MaxPush,       \* bound: elements pushed
    Bulks          \* sizes of push(from, to) and pop(n)

VARIABLES
    element_count,
    node,          \* address -> ring, meaningful when allocated
    allocated,     \* addresses in use
    push_head, pop_head,
    iterator_counter,
    producer,      \* [pc, item, upto, at]: items item+1..upto are to be pushed
    consumer,      \* [pc, n, took, seen]: n elements are to be popped
    pushed,        \* elements published (history)
    got            \* elements taken, in order (history)

queueVars == <<element_count, node, allocated, push_head, pop_head,
               iterator_counter, producer, consumer, pushed, got>>

Words == 0 .. 2^WordBits - 1
Log2(n) == CHOOSE k \in 0 .. WordBits : 2^k <= n /\ n < 2^(k + 1)
PowTwo == element_count = 2^Log2(element_count)
counter_limit == element_count * 2^(WordBits - 1 - Log2(element_count))

step_counter(c, d) ==
    LET r == (c + d) % 2^WordBits
    IN IF PowTwo \/ r < counter_limit THEN r ELSE r - counter_limit

Signed(w) == IF w >= 2^(WordBits - 1) THEN w - 2^WordBits ELSE w

diff_counter(l, r) ==
    IF PowTwo THEN Signed((2^WordBits + l - r) % 2^WordBits)
    ELSE LET d == (2^WordBits + l + counter_limit - r) % 2^WordBits
         IN Signed(IF d >= counter_limit THEN d - counter_limit ELSE d)

Slot(c) == c % element_count
NoElement == 0

NewNode(count) ==
    [push |-> count, pop |-> count, push_shadow |-> count, pop_shadow |-> count,
     ring |-> [i \in 0 .. element_count - 1 |-> NoElement], next |-> "null"]

Idle == [pc |-> "idle", item |-> 0, upto |-> 0, at |-> 0]
Rest == [pc |-> "rest", n |-> 0, took |-> 0, seen |-> 0]

QueueInit ==
    /\ element_count \in ElementCounts /\ push_head = CHOOSE a \in Nodes : TRUE
    /\ \E c \in IF PowTwo THEN FirstCounts ELSE {0} :
         /\ node = [a \in Nodes |-> NewNode(IF a = push_head THEN c ELSE 0)]
         /\ allocated = {push_head} /\ pop_head = push_head
    /\ iterator_counter = element_count
    /\ producer = Idle /\ consumer = Rest
    /\ pushed = 0 /\ got = <<>>

\* Mutant: the shadow of the producer is believed without loading pop_count.
maybe_full_late(n) == diff_counter(n.push, n.push_shadow) > element_count

full(n) == step_counter(n.pop, element_count) = n.push
maybe_full(n) == diff_counter(n.push, n.push_shadow) >= element_count
maybe_empty(n) == diff_counter(n.pop_shadow, n.pop) <= 0

KeepConsumer == UNCHANGED <<element_count, pop_head, consumer, got>>
KeepProducer == UNCHANGED <<element_count, push_head, iterator_counter, producer, pushed>>

-----------------------------------------------------------------------------
(* The producer: push(t) and push(from, to) of the list.                   *)

\* push(t): a doubt loads pop_count into the shadow
PushBegin ==
    LET n == node[push_head] doubt == maybe_full(n) IN
    /\ producer.pc = "idle" /\ pushed < MaxPush
    /\ producer' = [Idle EXCEPT !.pc = IF doubt THEN "check" ELSE "write",
                                !.item = pushed, !.upto = pushed + 1]
    /\ node' = IF doubt THEN [node EXCEPT ![push_head].push_shadow = n.pop] ELSE node
    /\ UNCHANGED <<allocated, push_head, iterator_counter, pushed>> /\ KeepConsumer

\* push(from, to): an exact check
PushManyBegin(k) ==
    /\ producer.pc = "idle" /\ pushed + k <= MaxPush
    /\ producer' = [Idle EXCEPT !.pc = IF full(node[push_head]) THEN "chain" ELSE "fill",
                                !.item = pushed, !.upto = pushed + k]
    /\ UNCHANGED <<node, allocated, push_head, iterator_counter, pushed>> /\ KeepConsumer

\* the exact check of push(t), with a second load of pop_count
PushCheck ==
    /\ producer.pc = "check"
    /\ producer' = [producer EXCEPT !.pc = IF full(node[push_head]) THEN "chain" ELSE "write"]
    /\ UNCHANGED <<node, allocated, push_head, iterator_counter, pushed>> /\ KeepConsumer

\* push(t) constructs its element
PushWrite ==
    LET n == node[push_head] IN
    /\ producer.pc = "write"
    /\ node' = [node EXCEPT ![push_head].ring[Slot(n.push)] = producer.item + 1]
    /\ producer' = [producer EXCEPT !.pc = "publish", !.item = @ + 1]
    /\ UNCHANGED <<allocated, push_head, iterator_counter, pushed>> /\ KeepConsumer

\* Slots that push(from, to) may fill, in order: to the end of the ring and
\* then up to rindex, or only up to rindex.
FreeSlots(windex, rindex) ==
    IF rindex <= windex THEN [i \in 1 .. element_count - windex |-> windex + i - 1]
                             \o [i \in 1 .. rindex |-> i - 1]
    ELSE [i \in 1 .. rindex - windex |-> windex + i - 1]

Fill(n, item, upto) ==
    LET slots == FreeSlots(Slot(n.push), Slot(n.pop))
        k == IF Len(slots) < upto - item THEN Len(slots) ELSE upto - item
    IN [ring |-> [s \in DOMAIN n.ring |->
                    IF \E i \in 1 .. k : slots[i] = s
                    THEN item + (CHOOSE i \in 1 .. k : slots[i] = s) ELSE n.ring[s]],
        count |-> k]

\* push(from, to) fills a ring; push_stream() also refreshes the shadow
PushFill ==
    LET f == Fill(node[push_head], producer.item, producer.upto) IN
    /\ producer.pc = "fill"
    /\ \E stream \in BOOLEAN :
         node' = [node EXCEPT ![push_head].ring = f.ring,
                              ![push_head].push_shadow = IF stream THEN node[push_head].pop ELSE @]
    /\ producer' = [producer EXCEPT !.pc = "publish", !.item = @ + f.count]
    /\ UNCHANGED <<allocated, push_head, iterator_counter, pushed>> /\ KeepConsumer

\* push_count moves; what did not fit goes to a new node
PushPublish ==
    /\ producer.pc = "publish"
    /\ node' = [node EXCEPT ![push_head].push = step_counter(@, producer.item - pushed)]
    /\ pushed' = producer.item
    /\ producer' = IF producer.item < producer.upto THEN [producer EXCEPT !.pc = "chain"] ELSE Idle
    /\ UNCHANGED <<allocated, push_head, iterator_counter>> /\ KeepConsumer

\* The ring is full: fill a new node (nobody else knows it), chain it.  Its
\* elements count as published when the consumer can reach them.
PushChain ==
    /\ producer.pc = "chain"
    /\ \E p \in Nodes \ allocated :
         LET n == NewNode(iterator_counter)
             f == Fill(n, producer.item, producer.upto) IN
         /\ allocated' = allocated \cup {p}
         /\ node' = [node EXCEPT ![p] = [n EXCEPT !.ring = f.ring,
                                                  !.push = step_counter(@, f.count)],
                                 ![push_head].next = p]
         /\ producer' = [producer EXCEPT !.pc = "head", !.item = @ + f.count, !.at = p]
    /\ iterator_counter' = step_counter(iterator_counter, element_count)
    /\ UNCHANGED <<push_head, pushed>> /\ KeepConsumer

PushHead ==
    /\ producer.pc = "head"
    /\ push_head' = producer.at /\ pushed' = producer.item
    /\ producer' = IF producer.item < producer.upto THEN [producer EXCEPT !.pc = "chain"] ELSE Idle
    /\ UNCHANGED <<node, allocated, iterator_counter>> /\ KeepConsumer

ProducerStep == PushCheck \/ PushWrite \/ PushFill \/ PushPublish \/ PushChain \/ PushHead

-----------------------------------------------------------------------------
(* The consumer: empty(), then top() and pop(), or pop(n).                 *)

\* Mutant: a ring that ran empty is freed although the producer is on it.
CleanupEmptyAny(nodes) ==
    LET n == nodes[pop_head] IN
    IF n.pop = n.push /\ n.next # "null"
    THEN /\ pop_head' = n.next /\ allocated' = allocated \ {pop_head}
         /\ node' = [nodes EXCEPT ![pop_head] = NewNode(0)]
    ELSE UNCHANGED <<pop_head, allocated>> /\ node' = nodes

\* cleanup_empty().  The producer has left a ring that is not push_head, so
\* what this reads of it stays as it is: one step.  What a freed ring holds
\* does not matter.
CleanupEmpty(nodes) ==
    LET n == nodes[pop_head] IN
    IF pop_head # push_head /\ n.pop = n.push
    THEN /\ pop_head' = n.next /\ allocated' = allocated \ {pop_head}
         /\ node' = [nodes EXCEPT ![pop_head] = NewNode(0)]
    ELSE UNCHANGED <<pop_head, allocated>> /\ node' = nodes

\* empty() of the list asks the first ring: the shadow may settle it, or
\* push_count is loaded into the shadow
EmptyBegin ==
    LET n == node[pop_head] doubt == maybe_empty(n) IN
    /\ consumer.pc = "rest"
    /\ consumer' = [Rest EXCEPT !.pc = IF doubt THEN "first" ELSE "some", !.seen = pushed]
    /\ node' = IF doubt THEN [node EXCEPT ![pop_head].pop_shadow = n.push] ELSE node
    /\ UNCHANGED <<allocated, pop_head, got>> /\ KeepProducer

EmptyFirst ==
    LET n == node[pop_head] IN
    /\ consumer.pc = "first"
    /\ consumer' = [consumer EXCEPT !.pc = IF n.pop # n.push THEN "some" ELSE "last"]
    /\ UNCHANGED <<node, allocated, pop_head, got>> /\ KeepProducer

\* Mutant: an empty first ring is an empty list.
EmptyLastSkipped ==
    /\ consumer.pc = "last" /\ consumer' = [consumer EXCEPT !.pc = "none"]
    /\ UNCHANGED <<node, allocated, pop_head, got>> /\ KeepProducer

\* the first ring is empty: nothing, unless there is another one that is not
EmptyLast ==
    LET n == node[push_head] doubt == maybe_empty(n) IN
    /\ consumer.pc = "last"
    /\ IF pop_head = push_head
         THEN consumer' = [consumer EXCEPT !.pc = "none"] /\ UNCHANGED node
         ELSE /\ consumer' = [consumer EXCEPT !.pc = IF doubt /\ n.pop = n.push
                                                     THEN "none" ELSE "some"]
              /\ node' = IF doubt THEN [node EXCEPT ![push_head].pop_shadow = n.push] ELSE node
    /\ UNCHANGED <<allocated, pop_head, got>> /\ KeepProducer

EmptyTrue ==
    /\ consumer.pc = "none" /\ consumer' = Rest
    /\ UNCHANGED <<node, allocated, pop_head, got>> /\ KeepProducer

\* top() and pop(), or pop(n): first drop a ring that has run empty
PopBegin(k) ==
    /\ consumer.pc = "some" /\ CleanupEmpty(node)
    /\ consumer' = [consumer EXCEPT !.pc = "take", !.n = k]
    /\ UNCHANGED got /\ KeepProducer

\* read and destroy the elements: pop() trusts empty(), pop(n) takes size()
PopTake ==
    LET n == node[pop_head]
        size == diff_counter(n.push, n.pop)
        m == IF consumer.n = 1 THEN 1 ELSE IF size < consumer.n THEN size ELSE consumer.n
        slots == {Slot(n.pop + i) : i \in 0 .. m - 1} IN
    /\ consumer.pc = "take"
    /\ got' = got \o [i \in 1 .. m |-> n.ring[Slot(n.pop + i - 1)]]
    /\ node' = [node EXCEPT ![pop_head].ring = [s \in DOMAIN @ |-> IF s \in slots THEN NoElement
                                                                   ELSE @[s]]]
    /\ consumer' = [consumer EXCEPT !.pc = "publish", !.took = m]
    /\ UNCHANGED <<allocated, pop_head>> /\ KeepProducer

\* pop_count moves and a ring that ran empty is dropped; pop(n) goes on in
\* the next ring if there is one
PopPublish ==
    LET nodes == [node EXCEPT ![pop_head].pop = step_counter(@, consumer.took)]
        left == consumer.n - consumer.took IN
    /\ consumer.pc = "publish" /\ CleanupEmpty(nodes)
    /\ consumer' = IF left > 0 /\ pop_head' # pop_head
                   THEN [consumer EXCEPT !.pc = "take", !.n = left, !.took = 0] ELSE Rest
    /\ UNCHANGED got /\ KeepProducer

\* reset(0), by a caller that is both sides: the elements left are destroyed
QueueReset ==
    /\ producer.pc = "idle" /\ consumer.pc = "rest"
    /\ Len(got) < pushed /\ got' = [i \in 1 .. pushed |-> i]
    /\ node' = [a \in Nodes |-> NewNode(0)]
    /\ push_head' = pop_head /\ allocated' = {pop_head}
    /\ iterator_counter' = element_count
    /\ UNCHANGED <<element_count, pop_head, producer, consumer, pushed>>

ConsumerStep ==
    EmptyBegin \/ EmptyFirst \/ EmptyLast \/ EmptyTrue \/ PopTake \/ PopPublish
    \/ \E k \in Bulks : PopBegin(k)

QueueNext ==
    \/ PushBegin \/ (\E k \in Bulks : PushManyBegin(k)) \/ ProducerStep
    \/ ConsumerStep \/ QueueReset

QueueSpec == QueueInit /\ [][QueueNext]_queueVars

-----------------------------------------------------------------------------
\* The i-th ring from pop_head, and the rings up to push_head.
RingAt[i \in 0 .. Cardinality(Nodes)] ==
    IF i = 0 THEN pop_head
    ELSE IF RingAt[i - 1] \in Nodes THEN node[RingAt[i - 1]].next ELSE "null"
Chained == {k \in 0 .. Cardinality(Nodes) : RingAt[k] = push_head}
Rings == IF Chained = {} THEN <<>>
         ELSE [i \in 1 .. 1 + (CHOOSE k \in Chained : \A j \in Chained : k <= j) |-> RingAt[i - 1]]

\* The elements that rings hold.
Held == FlattenSeq([r \in DOMAIN Rings |->
    LET n == node[Rings[r]]
    IN [i \in 1 .. diff_counter(n.push, n.pop) |-> n.ring[Slot(n.pop + i - 1)]]])

(***************************************************************************)
(* The consumer gets the elements in the order of the pushes, and the rest *)
(* is in the rings in that order: although the two sides look at stale     *)
(* counters, the counters wrap, and an address may be a new ring's.        *)
(***************************************************************************)
FifoKept ==
    /\ got = [i \in 1 .. Len(got) |-> i]
    /\ consumer.pc # "publish" =>
         got \o Held = [i \in 1 .. pushed |-> i]

\* empty() says TRUE only when what had been pushed before the call has been
\* popped, and the caller of pop() always finds an element.
EmptyLinearizable ==
    /\ consumer.pc = "none" => Len(got) >= consumer.seen
    /\ consumer.pc = "some" => Len(got) < pushed

\* The rings allocated are the ones from pop_head to push_head, with the one
\* being chained: none is lost, none is used after it was freed.
RingsExact ==
    /\ Rings # <<>>
    /\ allocated = ToSet(Rings) \cup (IF producer.pc = "head" THEN {producer.at} ELSE {})

(***************************************************************************)
(* One producer and one consumer without a lock: elements arrive in order, *)
(* empty() is never wrong about what was pushed before, and rings are      *)
(* freed exactly when neither side can reach them.                         *)
(***************************************************************************)
QueueRight == FifoKept /\ EmptyLinearizable /\ RingsExact
=============================================================================
