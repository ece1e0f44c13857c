------------------------------- MODULE Codecs -------------------------------
(***************************************************************************)
(* Three pure algorithms of src/src/ngx_lua_cpp.cpp: base64url, the time   *)
(* of a log line, and the segmented sieve of run_job().  Their loops are   *)
(* the actions; each is compared with an independent definition.           *)
(***************************************************************************)
EXTENDS Integers, Sequences, FiniteSets

CONSTANTS
    SampleBytes, \* bytes of a string to encode
    MaxBytes,    \* bound: its length
    Symbols,     \* symbols of a text to decode: 0..63, End or another character
    MaxSymbols,  \* bound: its length
    BufBits,     \* bits of `buf', the word of the decoder (32 in the code)
    Years,       \* years whose days are converted
    Limits,      \* limits of count_primes
    Chunks       \* chunks of the sieve (40 in the code)

End == 64     \* '='
Invalid == 65 \* a character that is not in the table

VARIABLES
    codec,  \* "none", or the algorithm under way
    b64,    \* [pc, bytes, i, text, buf, bits, out, ok]
    date,   \* [y, m, d], the date of a log line
    dayNo,  \* days since the first of January of `firstYear'
    firstYear,
    sieve   \* [limit, c, marked, count]

codecVars == <<codec, b64, date, dayNo, firstYear, sieve>>

Strings(S, n) == UNION {[1 .. k -> S] : k \in 0 .. n}

NoText == [pc |-> "end", bytes |-> <<>>, i |-> 0, text |-> <<>>, buf |-> 0, bits |-> 0,
           out |-> <<>>, ok |-> FALSE]

CodecInit ==
    /\ codec = "none" /\ b64 = NoText
    /\ date = [y |-> 1970, m |-> 1, d |-> 1] /\ dayNo = 0 /\ firstYear = 1970
    /\ sieve = [limit |-> 0, c |-> 0, marked |-> {}, count |-> 0]

\* The inputs: a string, a text, the first day of a year, a limit.
Choose ==
    /\ codec = "none" /\ UNCHANGED dayNo
    /\ \/ /\ codec' = "encode" /\ UNCHANGED <<date, firstYear, sieve>>
          /\ \E s \in Strings(SampleBytes, MaxBytes) :
               b64' = [NoText EXCEPT !.pc = "encode", !.bytes = s]
       \/ /\ codec' = "decode" /\ UNCHANGED <<date, firstYear, sieve>>
          /\ \E s \in Strings(Symbols, MaxSymbols) :
               b64' = [NoText EXCEPT !.pc = "decode", !.text = s]
       \/ /\ codec' = "date" /\ UNCHANGED <<b64, sieve>>
          /\ firstYear' \in Years /\ date' = [y |-> firstYear', m |-> 1, d |-> 1]
       \/ /\ codec' = "sieve" /\ UNCHANGED <<b64, date, firstYear>>
          /\ \E l \in Limits : sieve' = [sieve EXCEPT !.limit = l]

-----------------------------------------------------------------------------
(* base64url_encode_impl(), base64url_decode_impl()                        *)

ByteAt(s, i) == IF i <= Len(s) THEN s[i] ELSE 0
Sextet(v, shift) == (v \div 2^shift) % 64

\* Mutant: a last group of two bytes is given the symbols of one.
GroupShort(s, i) ==
    LET v == ByteAt(s, i + 1) * 65536 + ByteAt(s, i + 2) * 256 + ByteAt(s, i + 3)
    IN <<Sextet(v, 18), Sextet(v, 12)>>
       \o (IF i + 3 <= Len(s) THEN <<Sextet(v, 6), Sextet(v, 0)>> ELSE <<>>)

\* the symbols of the three bytes after the first i, or of what is left
Group(s, i) ==
    LET v == ByteAt(s, i + 1) * 65536 + ByteAt(s, i + 2) * 256 + ByteAt(s, i + 3)
    IN <<Sextet(v, 18), Sextet(v, 12)>>
       \o (IF i + 2 <= Len(s) THEN <<Sextet(v, 6)>> ELSE <<>>)
       \o (IF i + 3 <= Len(s) THEN <<Sextet(v, 0)>> ELSE <<>>)

EncodeGroup ==
    /\ b64.pc = "encode" /\ b64.i < Len(b64.bytes)
    /\ b64' = [b64 EXCEPT !.text = @ \o Group(b64.bytes, b64.i), !.i = @ + 3]

\* The text is given to the decoder.
EncodeEnd ==
    /\ b64.pc = "encode" /\ b64.i >= Len(b64.bytes)
    /\ b64' = [b64 EXCEPT !.pc = "decode", !.i = 0]

\* the symbol at hand; the text ends as at '='
Symbol == IF b64.i < Len(b64.text) THEN b64.text[b64.i + 1] ELSE End

DecodeSymbol ==
    LET buf == (b64.buf * 64 + Symbol) % 2^BufBits
        bits == b64.bits + 6 IN
    /\ b64.pc = "decode" /\ Symbol \in 0 .. 63
    /\ b64' = IF bits >= 8
              THEN [b64 EXCEPT !.buf = buf, !.bits = bits - 8, !.i = @ + 1,
                               !.out = Append(@, (buf \div 2^(bits - 8)) % 256)]
              ELSE [b64 EXCEPT !.buf = buf, !.bits = bits, !.i = @ + 1]

DecodeEnd ==
    /\ b64.pc = "decode" /\ Symbol = End
    /\ b64' = [b64 EXCEPT !.pc = "end", !.ok = TRUE]

\* base64url_decode() returns no string with its error
DecodeInvalid ==
    /\ b64.pc = "decode" /\ Symbol = Invalid
    /\ b64' = [b64 EXCEPT !.pc = "end", !.out = <<>>]

-----------------------------------------------------------------------------
(* log_parse_time(): days since 1970                                       *)

\* Mutant: January and February belong to the year that begins.
CivilYearSame(y, m) == y

\* years are counted from March
CivilYear(y, m) == IF m <= 2 THEN y - 1 ELSE y

DaysFromCivil(t) ==
    LET y == CivilYear(t.y, t.m)
        era == (IF y >= 0 THEN y ELSE y - 399) \div 400
        yoe == y - era * 400
        mp == IF t.m > 2 THEN t.m - 3 ELSE t.m + 9
        doy == (153 * mp + 2) \div 5 + t.d - 1
        doe == yoe * 365 + yoe \div 4 - yoe \div 100 + doy
    IN era * 146097 + doe - 719468

Leap(y) == y % 4 = 0 /\ (y % 100 # 0 \/ y % 400 = 0)
MonthDays(y, m) == CASE m = 2 -> IF Leap(y) THEN 29 ELSE 28
                     [] m \in {4, 6, 9, 11} -> 30
                     [] OTHER -> 31

\* The next line of the log is of the next day.
NextDay ==
    /\ codec = "date" /\ date.y = firstYear /\ dayNo' = dayNo + 1
    /\ date' = CASE date.d < MonthDays(date.y, date.m) -> [date EXCEPT !.d = @ + 1]
                 [] date.d = MonthDays(date.y, date.m) /\ date.m < 12 ->
                      [date EXCEPT !.m = @ + 1, !.d = 1]
                 [] OTHER -> [y |-> date.y + 1, m |-> 1, d |-> 1]

-----------------------------------------------------------------------------
(* run_job(), count_primes                                                 *)

IsPrime(n) == n >= 2 /\ \A k \in 2 .. n - 1 : n % k # 0
Root(limit) == 1 + CHOOSE r \in 0 .. limit : r * r <= limit /\ limit < (r + 1) * (r + 1)

\* the sieve of the base primes, as the set that is left
BasePrimes(limit) ==
    {n \in 2 .. Root(limit) : \A i \in 2 .. Root(limit) : i * i <= Root(limit) =>
        ~\E k \in i .. n : k * i = n}

SegSize(limit) == IF limit \div Chunks > 1 THEN limit \div Chunks ELSE 1
Lo(limit, c) == IF c * SegSize(limit) > 2 THEN c * SegSize(limit) ELSE 2
Hi(limit, c) == LET h == Lo(limit, c) + SegSize(limit) IN IF h < limit THEN h ELSE limit

\* Mutant: a prime crosses itself out.
FirstMultipleAny(p, lo) == ((lo + p - 1) \div p) * p

\* where the multiples of p that are crossed out begin
FirstMultiple(p, lo) ==
    LET m == ((lo + p - 1) \div p) * p IN IF p * p > m THEN p * p ELSE m

\* one chunk: what is not crossed out is counted
SieveChunk ==
    LET l == sieve.limit lo == Lo(l, sieve.c) hi == Hi(l, sieve.c)
        left == {n \in lo .. hi - 1 : \A p \in BasePrimes(l) :
                    ~(n % p = 0 /\ n >= FirstMultiple(p, lo))} IN
    /\ codec = "sieve" /\ sieve.c < Chunks /\ lo < hi
    /\ sieve' = [sieve EXCEPT !.c = @ + 1, !.marked = left, !.count = @ + Cardinality(left)]

CodecNext ==
    \/ Choose
    \/ EncodeGroup /\ UNCHANGED <<codec, date, dayNo, firstYear, sieve>>
    \/ EncodeEnd /\ UNCHANGED <<codec, date, dayNo, firstYear, sieve>>
    \/ DecodeSymbol /\ UNCHANGED <<codec, date, dayNo, firstYear, sieve>>
    \/ DecodeEnd /\ UNCHANGED <<codec, date, dayNo, firstYear, sieve>>
    \/ DecodeInvalid /\ UNCHANGED <<codec, date, dayNo, firstYear, sieve>>
    \/ NextDay /\ UNCHANGED <<codec, b64, firstYear, sieve>>
    \/ SieveChunk /\ UNCHANGED <<codec, b64, date, dayNo, firstYear>>

CodecSpec == CodecInit /\ [][CodecNext]_codecVars

(***************************************************************************)
(* What was encoded is decoded again, from the text RFC 4648 defines: the  *)
(* bits of the bytes in groups of six.  Any other text is decoded up to    *)
(* '=', or refused if a character before it is not of the table.           *)
(***************************************************************************)
BitOf(s, j) == (s[j \div 8 + 1] \div 2^(7 - (j % 8))) % 2
SixBits(s, k) ==
    LET b(j) == IF 6 * k + j < 8 * Len(s) THEN BitOf(s, 6 * k + j) ELSE 0
    IN b(0) * 32 + b(1) * 16 + b(2) * 8 + b(3) * 4 + b(4) * 2 + b(5)
Base64Exact ==
    /\ codec = "encode" /\ b64.pc = "end" =>
         /\ b64.ok /\ b64.out = b64.bytes
         /\ b64.text = [k \in 1 .. (8 * Len(b64.bytes) + 5) \div 6 |-> SixBits(b64.bytes, k - 1)]
    /\ codec = "decode" /\ b64.pc = "end" =>
         LET ends == {i \in DOMAIN b64.text : b64.text[i] = End}
             n == IF ends = {} THEN Len(b64.text)
                  ELSE (CHOOSE i \in ends : \A j \in ends : i <= j) - 1 IN
         /\ b64.ok <=> \A i \in 1 .. n : b64.text[i] # Invalid
         /\ Len(b64.out) = IF b64.ok THEN (6 * n) \div 8 ELSE 0

\* The days of a log line are counted as the calendar counts them, over
\* leap days and the ends of centuries and eras.
CivilExact ==
    codec = "date" =>
        LET leaps(y) == Cardinality({x \in IF y >= 1970 THEN 1970 .. y - 1 ELSE y .. 1969 : Leap(x)})
            first == IF firstYear >= 1970 THEN 365 * (firstYear - 1970) + leaps(firstYear)
                     ELSE 365 * (firstYear - 1970) - leaps(firstYear)
        IN DaysFromCivil(date) = first + dayNo

\* What a chunk leaves marked are the primes of the chunk.
SieveExact ==
    sieve.c > 0 => sieve.marked = {n \in Lo(sieve.limit, sieve.c - 1) .. Hi(sieve.limit, sieve.c - 1) - 1 : IsPrime(n)}

=============================================================================
