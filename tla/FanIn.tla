------------------------------- MODULE FanIn --------------------------------
(***************************************************************************)
(* The two coroutines of src/src/ngx_lua_cpp.cpp that fan out over the     *)
(* pool: fetch() queues one request per URL that can be parsed, and        *)
(* mandelbrot() one task per row.  Both await their tasks in the order     *)
(* they were queued, while the pool finishes them in any order; what an    *)
(* await waits for is in module Awaitable.  Requests and rows are          *)
(* abstract: a result is named after what it is the result of.             *)
(***************************************************************************)
EXTENDS Naturals, Sequences

CONSTANTS
    MaxUrls, \* bound: URLs of a fetch
    MaxRows  \* bound: rows of an image

VARIABLES
    fan,       \* "none", "fetch" or "mandelbrot"
    urls,      \* fetch(): TRUE for a URL that can be parsed
    height,    \* mandelbrot(): rows
    serial,    \* mandelbrot(): mode # 0
    fpc,       \* "queue", "await", "encode", "end"
    nextItem,  \* URL or row to queue, or task to await
    tasks,     \* item of each task queued
    ready,     \* tasks whose function has run
    results,   \* results: of a URL, or pixels of a row; "" if none yet
    image      \* rows of the bitmap, the first one first in the file

fanVars == <<fan, urls, height, serial, fpc, nextItem, tasks, ready, results, image>>

FanInit ==
    /\ fan = "none" /\ urls = <<>> /\ height = 0 /\ serial = FALSE /\ fpc = "end"
    /\ nextItem = 1 /\ tasks = <<>> /\ ready = {} /\ results = <<>> /\ image = <<>>

Fetch ==
    /\ fan = "none" /\ fan' = "fetch"
    /\ urls' \in UNION {[1 .. n -> BOOLEAN] : n \in 0 .. MaxUrls}
    /\ fpc' = IF urls' = <<>> THEN "end" ELSE "queue"
    /\ results' = [i \in DOMAIN urls' |-> <<>>]
    /\ UNCHANGED <<height, serial, nextItem, tasks, ready, image>>

Mandelbrot ==
    /\ fan = "none" /\ fan' = "mandelbrot" /\ fpc' = "queue"
    /\ height' \in 1 .. MaxRows /\ serial' \in BOOLEAN
    /\ results' = [i \in 1 .. height' |-> <<>>]
    /\ UNCHANGED <<urls, nextItem, tasks, ready, image>>

\* a URL that cannot be parsed has its error at once, the others a task
QueueUrl ==
    /\ fan = "fetch" /\ fpc = "queue" /\ nextItem <= Len(urls)
    /\ nextItem' = nextItem + 1
    /\ IF urls[nextItem]
       THEN tasks' = Append(tasks, nextItem) /\ UNCHANGED results
       ELSE results' = [results EXCEPT ![nextItem] = <<"error", nextItem>>] /\ UNCHANGED tasks
    /\ UNCHANGED <<fan, urls, height, serial, fpc, ready, image>>

\* rows are rendered one by one in place, or each by a task
QueueRow ==
    /\ fan = "mandelbrot" /\ fpc = "queue" /\ nextItem <= height
    /\ nextItem' = nextItem + 1
    /\ IF ~serial /\ height > 1
       THEN tasks' = Append(tasks, nextItem) /\ UNCHANGED results
       ELSE results' = [results EXCEPT ![nextItem] = <<"row", nextItem>>] /\ UNCHANGED tasks
    /\ UNCHANGED <<fan, urls, height, serial, fpc, ready, image>>

\* A pool thread runs a task.  A row writes its pixels, a request its result.
RunTask(k) ==
    /\ k \notin ready /\ ready' = ready \cup {k}
    /\ results' = IF fan = "mandelbrot" THEN [results EXCEPT ![tasks[k]] = <<"row", tasks[k]>>]
                  ELSE results
    /\ UNCHANGED <<fan, urls, height, serial, fpc, nextItem, tasks, image>>

AwaitFirst ==
    /\ fpc = "queue" /\ nextItem > Len(results) /\ fpc' = "await" /\ nextItem' = 1
    /\ UNCHANGED <<fan, urls, height, serial, tasks, ready, results, image>>

\* Mutant: the k-th result goes to the k-th URL.
EntryOfTask(k) == k

\* task_indices
EntryOf(k) == tasks[k]

\* the next task is awaited; a request hands over its result
AwaitTask ==
    /\ fpc = "await" /\ nextItem <= Len(tasks) /\ nextItem \in ready
    /\ nextItem' = nextItem + 1
    /\ results' = IF fan = "fetch"
                  THEN [results EXCEPT ![EntryOf(nextItem)] = <<"body", tasks[nextItem]>>]
                  ELSE results
    /\ UNCHANGED <<fan, urls, height, serial, fpc, tasks, ready, image>>

\* Mutant: the image is encoded as soon as the first task is over.
AllAwaitedOne == nextItem > 1 \/ tasks = <<>>

AllAwaited == nextItem > Len(tasks)

AwaitLast ==
    /\ fpc = "await" /\ AllAwaited
    /\ fpc' = IF fan = "fetch" THEN "end" ELSE "encode"
    /\ UNCHANGED <<fan, urls, height, serial, nextItem, tasks, ready, results, image>>

\* encode_bmp(): the last row comes first
EncodeBmp ==
    /\ fpc = "encode" /\ fpc' = "end"
    /\ image' = [y \in 1 .. height |-> results[height - y + 1]]
    /\ UNCHANGED <<fan, urls, height, serial, nextItem, tasks, ready, results>>

FanNext ==
    \/ Fetch \/ Mandelbrot \/ QueueUrl \/ QueueRow \/ AwaitFirst \/ AwaitTask \/ AwaitLast \/ EncodeBmp
    \/ \E k \in DOMAIN tasks : RunTask(k)

FanSpec == FanInit /\ [][FanNext]_fanVars

\* fetch() returns, for every URL and in the order of the URLs, the result
\* of that URL, whichever were refused and in whatever order they ended.
EntriesInPlace ==
    fan = "fetch" /\ fpc = "end" =>
        \A i \in DOMAIN urls : results[i] = <<IF urls[i] THEN "body" ELSE "error", i>>

\* The image is encoded when every row has been rendered, upside down.
ImageComplete ==
    fan = "mandelbrot" /\ fpc = "end" =>
        image = [y \in 1 .. height |-> <<"row", height - y + 1>>]

=============================================================================
