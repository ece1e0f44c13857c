---------------------------- MODULE MCContainers ----------------------------
(***************************************************************************)
(* The containers, allocators and algorithms: the LRU cache, the ring      *)
(* queues, the two allocators, the tree, the entity system, the digests,   *)
(* the codecs, the log analyzer, the socket calls and the fan-out over the *)
(* pool.  They share no state, so a run explores each on its own: `part'   *)
(* is chosen in the first state and the others' variables do not change.   *)
(***************************************************************************)
EXTENDS LruCache, QueueList, Memory, KdTree, EntitySystem,
        Digest, Codecs, LogAnalyzer, Requests

VARIABLE part

\* An empty allocator with blocks of two items; or every block of one item in
\* use, so that the limit of the recycled list is met.
MCStarts == {[blocks |-> 0, items |-> 2, calls |-> 3], [blocks |-> 4, items |-> 1, calls |-> 1]}

\* Requests of three seconds for two URLs, one without a URL, and a line
\* that is no request.
Line(t, s, u, q) == [ts |-> t, status |-> s, url |-> u, request |-> q]
MCLines == {Line(1, 200, "a", TRUE), Line(2, 404, "a", TRUE), Line(2, 200, "b", TRUE),
            Line(3, 200, "", TRUE), Line(0, 0, "", FALSE)}

containerVars == <<part, cacheVars, queueVars, cacheAllocVars, allocVars, treeVars, entityVars,
                   digestVars, codecVars, logVars, socketVars, fanVars>>

\* The parts that are not explored start from one state.
ContainersInit ==
    /\ part \in {"cache", "queue", "linear", "allocator", "tree", "entity",
                 "digest", "codec", "log", "socket", "fan"}
    /\ CacheInit /\ QueueInit /\ CacheAllocInit /\ AllocInit /\ TreeInit /\ EntityInit
    /\ DigestInit /\ CodecInit /\ LogInit /\ SocketInit /\ FanInit
    /\ part # "queue" => PowTwo /\ node[push_head].push = 0
    /\ part # "allocator" => items = {}
    /\ part # "tree" => \A n \in TreeNodes : key[n] = <<0, 0>> /\ tree.index[n] = 0

InCache(X) == part = "cache" /\ X
    /\ UNCHANGED <<part, queueVars, cacheAllocVars, allocVars, treeVars, entityVars, digestVars,
                   codecVars, logVars, socketVars, fanVars>>
InQueue(X) == part = "queue" /\ X
    /\ UNCHANGED <<part, cacheVars, cacheAllocVars, allocVars, treeVars, entityVars, digestVars,
                   codecVars, logVars, socketVars, fanVars>>
InLinear(X) == part = "linear" /\ X
    /\ UNCHANGED <<part, cacheVars, queueVars, allocVars, treeVars, entityVars, digestVars,
                   codecVars, logVars, socketVars, fanVars>>
InAllocator(X) == part = "allocator" /\ X
    /\ UNCHANGED <<part, cacheVars, queueVars, cacheAllocVars, treeVars, entityVars, digestVars,
                   codecVars, logVars, socketVars, fanVars>>
InKdTree(X) == part = "tree" /\ X
    /\ UNCHANGED <<part, cacheVars, queueVars, cacheAllocVars, allocVars, entityVars, digestVars,
                   codecVars, logVars, socketVars, fanVars>>
InEntity(X) == part = "entity" /\ X
    /\ UNCHANGED <<part, cacheVars, queueVars, cacheAllocVars, allocVars, treeVars, digestVars,
                   codecVars, logVars, socketVars, fanVars>>
InDigest(X) == part = "digest" /\ X
    /\ UNCHANGED <<part, cacheVars, queueVars, cacheAllocVars, allocVars, treeVars, entityVars,
                   codecVars, logVars, socketVars, fanVars>>
InCodec(X) == part = "codec" /\ X
    /\ UNCHANGED <<part, cacheVars, queueVars, cacheAllocVars, allocVars, treeVars, entityVars,
                   digestVars, logVars, socketVars, fanVars>>
InLog(X) == part = "log" /\ X
    /\ UNCHANGED <<part, cacheVars, queueVars, cacheAllocVars, allocVars, treeVars, entityVars,
                   digestVars, codecVars, socketVars, fanVars>>
InSocket(X) == part = "socket" /\ X
    /\ UNCHANGED <<part, cacheVars, queueVars, cacheAllocVars, allocVars, treeVars, entityVars,
                   digestVars, codecVars, logVars, fanVars>>
InFan(X) == part = "fan" /\ X
    /\ UNCHANGED <<part, cacheVars, queueVars, cacheAllocVars, allocVars, treeVars, entityVars,
                   digestVars, codecVars, logVars, socketVars>>

ContainersNext ==
    \/ InCache(CacheNext) \/ InQueue(QueueNext) \/ InLinear(CacheAllocNext)
    \/ InAllocator(AllocNext) \/ InKdTree(TreeNext) \/ InEntity(EntityNext)
    \/ InDigest(DigestNext) \/ InCodec(CodecNext) \/ InLog(LogNext)
    \/ InSocket(SocketNext) \/ InFan(FanNext)

ContainersSpec == ContainersInit /\ [][ContainersNext]_containerVars

(***************************************************************************)
(* The pure functions against their mathematical definitions over bounded  *)
(* inputs: the padding of sha256 and hmac, base64url, days_from_civil, the *)
(* segmented sieve, the two windows of the log report.                     *)
(***************************************************************************)
AlgorithmsExact ==
    /\ DigestOfWhole /\ HmacOfKey /\ Base64Exact /\ CivilExact /\ SieveExact
    /\ TopUrlsRight /\ LastSecondsRight
=============================================================================
