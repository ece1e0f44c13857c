------------------------------- MODULE Digest -------------------------------
(***************************************************************************)
(* sha256_update(), sha256_final_hex(), hmac_sha256_raw_impl() and         *)
(* file_sha256() of src/src/ngx_lua_cpp.cpp: a message arrives in pieces,  *)
(* is cut into blocks and padded.  The compression function is left        *)
(* abstract: `state' is the sequence of blocks it was given, and a digest  *)
(* a string of half a block of bytes that depends on all of them.          *)
(***************************************************************************)
EXTENDS Naturals, Sequences

CONSTANTS
    Block,      \* bytes of a block (64 in the code)
    LenBytes,   \* bytes of the length at the end of the padding (8)
    MaxMessage, \* bound: bytes of a message
    KeySizes,   \* bytes of an HMAC key
    DataSizes   \* bytes of the data of an HMAC

ASSUME DigestAssumption ==
    /\ {Block, LenBytes, MaxMessage} \subseteq Nat /\ LenBytes < Block /\ Block % 2 = 0
    /\ 8 * MaxMessage < 256^LenBytes /\ 8 * (2 * Block) < 256^LenBytes

VARIABLES
    hash,     \* [state, bit_len, buffer]: sha256_ctx_t
    rest,     \* bytes that are still to be copied into the buffer
    pieces,   \* pieces of the message that are still to come
    mode,     \* "idle", "update", "final", "done"
    purpose,  \* "message", or the three hashes of an HMAC: "key", "inner", "outer"
    input     \* [key, data]: what is hashed; no key for a plain message
              \* `given' is the key as the caller gave it (history)

digestVars == <<hash, rest, pieces, mode, purpose, input>>

Text(tag, n) == [i \in 1 .. n |-> <<tag, i>>]
Zeros(n) == [i \in 1 .. n |-> <<"byte", 0>>]

sha256_init == [state |-> <<>>, bit_len |-> 0, buffer |-> <<>>]

\* sha256_transform(): the compression function, abstract
sha256_transform(h, block) == [h EXCEPT !.state = Append(@, block), !.buffer = <<>>]

\* the raw bytes of a digest; the code prints them as hex and reads that back
DigestBytes(state) == [i \in 1 .. Block \div 2 |-> <<"digest", i, state>>]

\* ipad and opad: x ^ 0 is x, so a short key is a key padded with zeros
Pad(key, x) == [i \in 1 .. Block |-> <<x, IF i <= Len(key) THEN key[i] ELSE <<"byte", 0>>>>]

DigestInit ==
    /\ hash = sha256_init /\ rest = <<>> /\ pieces = <<>> /\ mode = "idle" /\ purpose = "message"
    /\ input = [key |-> <<>>, given |-> <<>>, data |-> <<>>]

\* sha256(), or file_sha256() with what fread() returns: up to three pieces
HashMessage ==
    /\ mode = "idle" /\ mode' = "update"
    /\ \E n \in 0 .. MaxMessage : \E i \in 0 .. n : \E j \in i .. n :
         LET m == Text("m", n) IN
         /\ input' = [input EXCEPT !.data = m]
         /\ pieces' = <<SubSeq(m, 1, i), SubSeq(m, i + 1, j), SubSeq(m, j + 1, n)>>
    /\ UNCHANGED <<hash, rest, purpose>>

\* hmac_sha256_raw_impl(): a key longer than a block is hashed first
HmacMessage ==
    /\ mode = "idle" /\ mode' = "update"
    /\ \E k \in KeySizes, n \in DataSizes :
         LET key == Text("k", k) data == Text("m", n) IN
         /\ input' = [key |-> key, given |-> key, data |-> data]
         /\ purpose' = IF k > Block THEN "key" ELSE "inner"
         /\ pieces' = IF k > Block THEN <<key>> ELSE <<Pad(key, "ipad"), data>>
    /\ UNCHANGED <<hash, rest>>

\* sha256_update(): the length is counted
UpdateBegin ==
    /\ mode = "update" /\ rest = <<>> /\ pieces # <<>>
    /\ rest' = Head(pieces) /\ pieces' = Tail(pieces)
    /\ hash' = [hash EXCEPT !.bit_len = (@ + 8 * Len(Head(pieces))) % 256^LenBytes]
    /\ UNCHANGED <<mode, purpose, input>>

Smaller(a, b) == IF a < b THEN a ELSE b

\* one turn of the loop of sha256_update() or of sha256_final_hex()
CopyPiece ==
    LET take == Smaller(Len(rest), Block - Len(hash.buffer))
        filled == hash.buffer \o SubSeq(rest, 1, take) IN
    /\ mode # "done" /\ rest # <<>>
    /\ rest' = SubSeq(rest, take + 1, Len(rest))
    /\ hash' = IF Len(filled) = Block
               THEN sha256_transform(hash, filled)
               ELSE [hash EXCEPT !.buffer = filled]
    /\ UNCHANGED <<pieces, mode, purpose, input>>

\* Mutant: a buffer that leaves exactly no room for the mark is not noticed.
ZeroCountOff(len) ==
    IF len <= Block - LenBytes THEN Block - LenBytes - len ELSE 2 * Block - LenBytes - len - 1

\* the zeros between the mark and the length
ZeroCount(len) ==
    IF len < Block - LenBytes THEN Block - LenBytes - len - 1
    ELSE 2 * Block - LenBytes - len - 1

\* a number in LenBytes bytes, the most significant one first
BigEndian(bits) ==
    [i \in 1 .. LenBytes |-> <<"byte", (bits \div 256^(LenBytes - i)) % 256>>]

FinalBegin ==
    /\ mode = "update" /\ rest = <<>> /\ pieces = <<>>
    /\ rest' = <<<<"byte", 128>>>> \o Zeros(ZeroCount(Len(hash.buffer)))
               \o BigEndian(hash.bit_len)
    /\ mode' = "final"
    /\ UNCHANGED <<hash, pieces, purpose, input>>

\* Mutant: the inner hash starts from the long key itself.
KeyOfHmacLong(state) == SubSeq(input.key, 1, Block)

\* a key longer than a block is replaced by its digest
KeyOfHmac(state) == DigestBytes(state)

\* The digest is ready: of a message, or of one of the hashes of an HMAC.
FinalHex ==
    /\ mode = "final" /\ rest = <<>>
    /\ \/ /\ purpose \in {"message", "outer"} /\ mode' = "done"
          /\ UNCHANGED <<hash, pieces, purpose, input>>
       \/ LET k == KeyOfHmac(hash.state) IN
          /\ purpose = "key" /\ purpose' = "inner" /\ mode' = "update"
          /\ input' = [input EXCEPT !.key = k]
          /\ hash' = sha256_init /\ pieces' = <<Pad(k, "ipad"), input.data>>
       \/ /\ purpose = "inner" /\ purpose' = "outer" /\ mode' = "update"
          /\ hash' = sha256_init
          /\ pieces' = <<Pad(input.key, "opad"), DigestBytes(hash.state)>>
          /\ UNCHANGED input
    /\ UNCHANGED rest

DigestNext == HashMessage \/ HmacMessage \/ UpdateBegin \/ CopyPiece \/ FinalBegin \/ FinalHex

DigestSpec == DigestInit /\ [][DigestNext]_digestVars

(***************************************************************************)
(* FIPS 180-4 and RFC 2104, for comparison: the shortest padding that ends *)
(* a block, and the hash of a hash under a key padded to a block.          *)
(***************************************************************************)
Padded(m) ==
    LET z == CHOOSE z \in 0 .. Block - 1 : (Len(m) + 1 + z + LenBytes) % Block = 0
    IN m \o <<<<"byte", 128>>>> \o Zeros(z) \o BigEndian(8 * Len(m))

BlocksOf(m) ==
    LET p == Padded(m)
    IN [i \in 1 .. Len(p) \div Block |-> SubSeq(p, (i - 1) * Block + 1, i * Block)]

HmacBlocks(key, data) ==
    LET k == IF Len(key) > Block THEN DigestBytes(BlocksOf(key)) ELSE key
    IN BlocksOf(Pad(k, "opad") \o DigestBytes(BlocksOf(Pad(k, "ipad") \o data)))

\* However a message is cut into pieces, and whatever room its end leaves in
\* the last block, the blocks hashed are those of the padded message.
DigestOfWhole == mode = "done" /\ purpose = "message" => hash.state = BlocksOf(input.data)

\* An HMAC is the hash of the hash under its key, long and empty keys
\* included.
HmacOfKey ==
    mode = "done" /\ purpose = "outer" => hash.state = HmacBlocks(input.given, input.data)

=============================================================================
