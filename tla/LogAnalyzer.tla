---------------------------- MODULE LogAnalyzer -----------------------------
(***************************************************************************)
(* log_analyze() of src/src/ngx_lua_cpp.cpp: it reads a log line by line,  *)
(* counts requests per URL, status and second, and reports the most        *)
(* requested URLs and the last seconds.  A line is what its parser finds   *)
(* in it.                                                                  *)
(***************************************************************************)
EXTENDS Integers, Sequences, FiniteSets, FiniteSetsExt, SequencesExt

CONSTANTS
    Lines,      \* lines explored: [ts, status, url, request]
    MaxLog,     \* bound: lines of a log
    LineLimits, \* values of max_lines
    TopUrls,    \* URLs reported (20 in the code)
    Window      \* seconds reported (60)

\* ts = 0: the time is not found or not parsed; status = 0: no digits after
\* the request; url = "": no two blanks in the request; request = FALSE: no
\* quoted request with HTTP/ before the closing quote
ASSUME LogAssumption ==
    /\ \A l \in Lines : l.ts \in Nat /\ l.status \in Nat /\ l.request \in BOOLEAN
    /\ TopUrls \in Nat \ {0} /\ Window \in Nat \ {0}

VARIABLES
    log,     \* [lines, open, ended]: the file up to its first byte 0xFF, which
             \* ends the loop; ended = FALSE: the last line has no newline
    limit,   \* max_lines
    reader,  \* "idle", "open", "read", "report", "end"
    pos,     \* lines read
    total, firstTs, lastTs,
    urlCounts, statusCounts, secondCounts, \* std::map: function on the keys met
    report   \* [urls, statuses, seconds, error]

logVars == <<log, limit, reader, pos, total, firstTs, lastTs, urlCounts, statusCounts,
             secondCounts, report>>

NoReport == [urls |-> <<>>, statuses |-> <<>>, seconds |-> <<>>, span |-> 0, error |-> FALSE]

LogInit ==
    /\ log = [lines |-> <<>>, open |-> TRUE, ended |-> TRUE] /\ limit = 0
    /\ reader = "idle" /\ pos = 0
    /\ total = 0 /\ firstTs = 0 /\ lastTs = 0
    /\ urlCounts = <<>> /\ statusCounts = <<>> /\ secondCounts = <<>>
    /\ report = NoReport

\* log_analyze() of any log
Analyze ==
    /\ reader = "idle" /\ reader' = "open" /\ limit' \in LineLimits
    /\ log' \in [lines : UNION {[1 .. n -> Lines] : n \in 0 .. MaxLog},
                 open : BOOLEAN, ended : BOOLEAN]
    /\ UNCHANGED <<pos, total, firstTs, lastTs, urlCounts, statusCounts, secondCounts, report>>

OpenLog ==
    /\ reader = "open"
    /\ IF log.open THEN reader' = "read" /\ UNCHANGED report
       ELSE reader' = "end" /\ report' = [report EXCEPT !.error = TRUE]
    /\ UNCHANGED <<log, limit, pos, total, firstTs, lastTs, urlCounts, statusCounts, secondCounts>>

\* counts[k] += 1
Bump(counts, k) ==
    [x \in DOMAIN counts \cup {k} |-> (IF x \in DOMAIN counts THEN counts[x] ELSE 0)
                                      + (IF x = k THEN 1 ELSE 0)]

\* a line of a request, with its time and status
Counted(l) == l.request /\ l.ts > 0 /\ l.status > 0

\* A newline: the line is parsed.  A line the file ends in is not.
ReadLine ==
    LET l == log.lines[pos + 1] IN
    /\ reader = "read" /\ pos < Len(log.lines)
    /\ pos + 1 = Len(log.lines) => log.ended
    /\ IF Counted(l)
       THEN /\ total' = total + 1 /\ lastTs' = l.ts
            /\ firstTs' = IF firstTs = 0 THEN l.ts ELSE firstTs
            /\ secondCounts' = Bump(secondCounts, l.ts)
            /\ statusCounts' = Bump(statusCounts, l.status)
            /\ urlCounts' = IF l.url = "" THEN urlCounts ELSE Bump(urlCounts, l.url)
       ELSE UNCHANGED <<total, firstTs, lastTs, urlCounts, statusCounts, secondCounts>>
    /\ pos' = pos + 1 /\ reader' = IF pos + 1 >= limit THEN "report" ELSE "read"
    /\ UNCHANGED <<log, limit, report>>

EndOfFile ==
    /\ reader = "read" /\ (pos = Len(log.lines) \/ (pos + 1 = Len(log.lines) /\ ~log.ended))
    /\ reader' = "report"
    /\ UNCHANGED <<log, limit, pos, total, firstTs, lastTs, urlCounts, statusCounts,
                   secondCounts, report>>

\* std::sort of the pairs by count: any order among equals
SortedByCount(s) == \A i, j \in DOMAIN s : i < j => s[i].count >= s[j].count
PairsOf(counts) == {[key |-> k, count |-> counts[k]] : k \in DOMAIN counts}

\* Mutant: the least requested URLs come first.
TopOfAscending(s) == SubSeq(Reverse(s), 1, Min({TopUrls, Len(s)}))

TopOf(s) == SubSeq(s, 1, Min({TopUrls, Len(s)}))

\* Mutant: the first seconds are kept.
LastOfFirst(s) == SubSeq(s, 1, Min({Window, Len(s)}))

LastOf(s) == SubSeq(s, IF Len(s) > Window THEN Len(s) - Window + 1 ELSE 1, Len(s))

InKeyOrder(counts) == SetToSortSeq(PairsOf(counts), LAMBDA a, b : a.key < b.key)

MakeReport ==
    /\ reader = "report" /\ reader' = "end"
    /\ \E s \in {q \in SetToSeqs(PairsOf(urlCounts)) : SortedByCount(q)} :
         report' = [urls |-> TopOf(s), statuses |-> InKeyOrder(statusCounts),
                    seconds |-> LastOf(InKeyOrder(secondCounts)),
                    span |-> IF lastTs > firstTs THEN lastTs - firstTs ELSE 0, error |-> FALSE]
    /\ UNCHANGED <<log, limit, pos, total, firstTs, lastTs, urlCounts, statusCounts, secondCounts>>

LogNext == Analyze \/ OpenLog \/ ReadLine \/ EndOfFile \/ MakeReport

LogSpec == LogInit /\ [][LogNext]_logVars

(***************************************************************************)
(* The report against the lines themselves, those that end in a newline    *)
(* and come before the limit.                                              *)
(***************************************************************************)
ReadOnes ==
    LET n == Len(log.lines) - (IF log.ended THEN 0 ELSE 1)
    IN {i \in DOMAIN log.lines : i <= n /\ i <= limit /\ Counted(log.lines[i])}
CountOf(url) == Cardinality({i \in ReadOnes : log.lines[i].url = url})
At(ts) == Cardinality({i \in ReadOnes : log.lines[i].ts = ts})

\* No URL that is left out was requested more often than one that is
\* reported, each is reported once and with its own number of requests.
TopUrlsRight ==
    reader = "end" /\ log.open =>
        LET urls == {log.lines[i].url : i \in ReadOnes} \ {""}
            reported == {report.urls[i].key : i \in DOMAIN report.urls} IN
        /\ Cardinality(reported) = Len(report.urls)
        /\ Len(report.urls) = Min({TopUrls, Cardinality(urls)})
        /\ \A i \in DOMAIN report.urls : report.urls[i].count = CountOf(report.urls[i].key)
        /\ \A u \in urls \ reported, i \in DOMAIN report.urls : CountOf(u) <= report.urls[i].count

\* The seconds reported are the last ones of the log, in order, with their
\* own number of requests, also when lines are not in the order of time.
LastSecondsRight ==
    reader = "end" /\ log.open =>
        LET seconds == {log.lines[i].ts : i \in ReadOnes}
            s == report.seconds IN
        /\ Len(s) = Min({Window, Cardinality(seconds)})
        /\ \A i \in DOMAIN s : s[i].count = At(s[i].key) /\ s[i].count > 0
        /\ \A i \in 1 .. Len(s) - 1 : s[i].key < s[i + 1].key
        /\ \A t \in seconds \ {s[i].key : i \in DOMAIN s}, i \in DOMAIN s : t < s[i].key

=============================================================================
