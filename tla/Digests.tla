------------------------------ MODULE Digests ------------------------------
(***************************************************************************)
(* The message digests of service_module/algorithm/hash/HashManager: how   *)
(* each algorithm of algo/ collects the bytes of a file in blocks, counts  *)
(* them and pads the last block, and how CHashManager (hashmgr.cpp) feeds  *)
(* them with reads, over contexts that live from one file to the next.     *)
(*                                                                         *)
(* The mixing itself is abstracted: a compression function appends its     *)
(* block to h, the stream of everything compressed so far, so two digests  *)
(* are the same when their streams are.  The count words are as wide as    *)
(* the constants say, so that they wrap within the lengths checked.        *)
(***************************************************************************)
EXTENDS Integers, FiniteSetsExt, SequencesExt

CONSTANTS BitWord,    \* 2^32 in the code: one word of a count of bits
          ByteWord,   \* 2^32 (2^64 for SHA-384/512): one word of a count of bytes
          ReadSizes,  \* the values SIZE_HASH_BUFFER may have
          Lengths,    \* the lengths of the files
          MaxFiles    \* how many files one manager hashes

VARIABLES alg,        \* the algorithm that is selected
          ctx,        \* its context
          size_hash_buffer,
          file,       \* the number of the file, and its bytes
          message,
          left,       \* how many of them are still unread
          phase       \* idle | reading | finishing | done

digestVars == <<alg, ctx, size_hash_buffer, file, message, left, phase>>

Algorithms == {"CRC", "FCS", "GHASH", "SIZE32", "GOST", "HAVAL", "MD2", "MD4",
               "MD5", "SHA1", "SHA256", "SHA512", "TIGER"}

ASSUME DigestAssumption ==
  /\ BitWord % 1024 = 0 /\ ByteWord % 128 = 0
  /\ ReadSizes \subseteq Nat \ {0} /\ Lengths \subseteq 0..999 /\ MaxFiles \in Nat

-----------------------------------------------------------------------------
(* Bytes.  Byte i of file f is 1000 f + i; the others are negative. *)

Zero     == 0
Garbage  == -1      \* a byte nobody wrote, or one the compression scrambled
Pad      == -2      \* the byte that starts the padding (0x80 or 0x01)
Param    == -3      \* the version, pass and length bytes of HAVAL
Checksum == -4      \* a byte of MD2's checksum of the stream
WordByte(w) == -100 - w     \* a byte of count word w

Copies(n, b) == [i \in 1..n |-> b]
Word(w, n)   == Copies(n, WordByte(w))
Zeros(n)     == Copies(n, Zero)

\* memcpy of data to buf + at.
Put(buf, at, data) ==
  [i \in DOMAIN buf |-> IF i \in at + 1..at + Len(data) THEN data[i - at] ELSE buf[i]]

BlockSize == [a \in Algorithms |->
  CASE a \in {"HAVAL", "SHA512"} -> 128
    [] a = "GOST" -> 32
    [] a = "MD2" -> 16
    [] OTHER -> 64]

\* The member objects of a CHashManager before any file.
Unused(a) == [h |-> <<>>, buf |-> Copies(BlockSize[a], Garbage), lo |-> 0, hi |-> 0,
              n |-> 0, sum |-> <<>>]

-----------------------------------------------------------------------------
(* Collecting blocks *)

\* The bytes in the buffer followed by the new ones, of which whole blocks are
\* compressed.  What stays in the buffer behind the rest differs.
Gather(c, pos, data) ==
  LET B   == Len(c.buf)
      all == SubSeq(c.buf, 1, pos) \o data
      cut == (Len(all) \div B) * B
  IN  [whole |-> SubSeq(all, 1, cut),
       rest  |-> SubSeq(all, cut + 1, Len(all))]

FirstBlock(c, s) == SubSeq(s, 1, Len(c.buf))
LastBlock(c, s)  == SubSeq(s, Len(s) - Len(c.buf) + 1, Len(s))

\* Every block goes through the buffer.
Buffered(c, pos, data) ==
  LET g == Gather(c, pos, data)
  IN  [c EXCEPT !.h = @ \o g.whole,
                !.buf = IF g.whole = <<>> THEN Put(@, pos, data)
                        ELSE Put(LastBlock(c, g.whole), 0, g.rest)]

\* Only the first block does; the others are compressed where they are.
Direct(c, pos, data) ==
  LET g == Gather(c, pos, data)
  IN  [c EXCEPT !.h = @ \o g.whole,
                !.buf = IF g.whole = <<>> THEN Put(@, pos, data)
                        ELSE Put(FirstBlock(c, g.whole), 0, g.rest)]

\* Two words that count bits, with the carry of the first.
AddBits(c, len) ==
  LET add == (8 * len) % BitWord
      sum == (c.lo + add) % BitWord
      up  == IF sum < add THEN 1 ELSE 0
  IN  [c EXCEPT !.lo = sum, !.hi = (@ + up + (8 * len) \div BitWord) % BitWord]

\* Two words that count bytes; no call has more than a word of them.
AddBytes(c, len) ==
  LET sum == (c.lo + len) % ByteWord
      up  == IF sum < len THEN 1 ELSE 0
  IN  [c EXCEPT !.lo = sum, !.hi = (@ + up) % ByteWord]

BitPos(c, B) == (c.lo \div 8) % B

-----------------------------------------------------------------------------
(* MD5 and MD4 *)

MD5_Transform(c, block) == [c EXCEPT !.h = @ \o block]

MD5Init(c) == [c EXCEPT !.lo = 0, !.hi = 0, !.h = <<>>]

MD5Update(c, inBuf) == AddBits(Buffered(c, BitPos(c, 64), inBuf), Len(inBuf))

\* A rest of 56 bytes is padded in its own block.
MD5Final_OffByOne(c) ==
  LET mdi    == BitPos(c, 64)
      padLen == IF mdi <= 56 THEN 56 - mdi ELSE 120 - mdi
      padded == MD5Update(c, SubSeq(<<Pad>> \o Zeros(63), 1, padLen))
  IN  MD5_Transform(padded, SubSeq(padded.buf, 1, 56) \o Word(c.lo, 4) \o Word(c.hi, 4))

MD5Final(c) ==
  LET mdi    == BitPos(c, 64)
      padLen == IF mdi < 56 THEN 56 - mdi ELSE 120 - mdi
      padded == MD5Update(c, <<Pad>> \o Zeros(padLen - 1))
  IN  MD5_Transform(padded, SubSeq(padded.buf, 1, 56) \o Word(c.lo, 4) \o Word(c.hi, 4))

MD4Init(c) == [c EXCEPT !.lo = 0, !.hi = 0, !.h = <<>>]

MD4Update(c, input) == AddBits(Direct(c, BitPos(c, 64), input), Len(input))

\* The context is zeroed behind the result.
MD4Final(c) ==
  LET index  == BitPos(c, 64)
      padLen == IF index < 56 THEN 56 - index ELSE 120 - index
      padded == MD4Update(c, <<Pad>> \o Zeros(padLen - 1))
      ended  == MD4Update(padded, Word(c.lo, 4) \o Word(c.hi, 4))
  IN  [ended EXCEPT !.buf = Zeros(64), !.lo = 0, !.hi = 0]

-----------------------------------------------------------------------------
(* SHA-1 and SHA-2 *)

sha1_compile(c) == [c EXCEPT !.h = @ \o c.buf]

\* The message schedule of SHA-2 is computed in the buffer.
sha256_compile(c) == [c EXCEPT !.h = @ \o c.buf, !.buf = Copies(64, Garbage)]
sha512_compile(c) == [c EXCEPT !.h = @ \o c.buf, !.buf = Copies(128, Garbage)]

sha1_begin(c)   == [c EXCEPT !.lo = 0, !.hi = 0, !.h = <<>>]
sha256_begin(c) == [c EXCEPT !.lo = 0, !.hi = 0, !.h = <<>>]
sha512_begin(c) == [c EXCEPT !.lo = 0, !.hi = 0, !.h = <<>>]

sha1_hash(c, data) == AddBytes(Buffered(c, c.lo % 64, data), Len(data))

\* A block that was compressed leaves garbage behind the rest.
Scrambled(c, pos, data) ==
  LET g == Gather(c, pos, data)
  IN  IF g.whole = <<>> THEN Buffered(c, pos, data)
      ELSE [c EXCEPT !.h = @ \o g.whole,
                     !.buf = Put(Copies(Len(c.buf), Garbage), 0, g.rest)]

sha256_hash(c, data) == AddBytes(Scrambled(c, c.lo % 64, data), Len(data))
sha512_hash(c, data) == AddBytes(Scrambled(c, c.lo % 128, data), Len(data))

\* The padding of the buffer of c, of 16 words of w bytes, when i are in use: the
\* pad byte and the rest of its word, then, if the two count words do not fit, a
\* block of its own, zeros, and the count in bits.
ShaPadded(c, w, compile(_)) ==
  LET B      == 16 * w
      i      == c.lo % B
      after  == (i \div w) * w + w
      marked == [c EXCEPT !.buf = Put(@, i, <<Pad>> \o Zeros(after - i - 1))]
      full   == i > B - (2 * w + 1)
      zeroed == IF i < B - w THEN [marked EXCEPT !.buf = Put(@, B - w, Zeros(w))] ELSE marked
      room   == IF full THEN compile(zeroed) ELSE marked
      from   == IF full THEN 0 ELSE after
      high   == ((c.hi * 8) % ByteWord) + c.lo \div (ByteWord \div 8)
      low    == (c.lo * 8) % ByteWord
  IN  [room EXCEPT !.buf = Put(Put(@, from, Zeros(B - 2 * w - from)), B - 2 * w,
                               Word(high, w) \o Word(low, w))]

sha1_end(c)   == sha1_compile(ShaPadded(c, 4, sha1_compile))
sha256_end(c) == sha256_compile(ShaPadded(c, 4, sha256_compile))
sha_end(c)    == sha512_compile(ShaPadded(c, 8, sha512_compile))

-----------------------------------------------------------------------------
(* HAVAL, Tiger *)

haval_hash_block(c, blocks) == [c EXCEPT !.h = @ \o blocks]

haval_start(c) == [c EXCEPT !.lo = 0, !.hi = 0, !.h = <<>>]

haval_hash(c, str) ==
  LET rmd_len == BitPos(c, 128)
      g       == Gather(c, rmd_len, str)
      hashed  == haval_hash_block(c, g.whole)
  IN  AddBits([hashed EXCEPT !.buf = IF rmd_len + Len(str) >= 128
                                     THEN Put(LastBlock(c, g.whole), 0, g.rest)
                                     ELSE Put(@, rmd_len, str)],
              Len(str))

haval_tailor(c) == c     \* folds the eight words of the result into fewer

haval_end(c) ==
  LET rmd_len == BitPos(c, 128)
      pad_len == IF rmd_len < 118 THEN 118 - rmd_len ELSE 246 - rmd_len
      tail    == <<Param, Param>> \o Word(c.lo, 4) \o Word(c.hi, 4)
      ended   == haval_hash(haval_hash(c, <<Pad>> \o Zeros(pad_len - 1)), tail)
  IN  [haval_tailor(ended) EXCEPT !.buf = Zeros(128), !.lo = 0, !.hi = 0]

_tiger_compress(c) == [c EXCEPT !.h = @ \o c.buf]

tiger_init(c) == [c EXCEPT !.lo = 0, !.n = 0, !.h = <<>>]

\* length counts the bits of whole blocks; curlen the bytes of the last one.
tiger_process(c, buf) ==
  LET b == Buffered(c, c.n, buf)
      k == (c.n + Len(buf)) \div 64
  IN  [b EXCEPT !.n = (c.n + Len(buf)) % 64, !.lo = (@ + 512 * k) % (BitWord * BitWord)]

tiger_done(c) ==
  LET length == (c.lo + 8 * c.n) % (BitWord * BitWord)
      marked == [c EXCEPT !.buf = Put(@, c.n, <<Pad>>)]
      curlen == c.n + 1
      filled == [marked EXCEPT !.buf = Put(@, curlen, Zeros(64 - curlen))]
      room   == IF curlen > 56 THEN _tiger_compress(filled) ELSE marked
      from   == IF curlen > 56 THEN 0 ELSE curlen
  IN  _tiger_compress([room EXCEPT !.lo = length, !.n = 56,
                         !.buf = Put(Put(@, from, Zeros(56 - from)), 56, Word(length, 8))])

-----------------------------------------------------------------------------
(* GOST, MD2 *)

gosthash_compress(c, m) == [c EXCEPT !.h = @ \o m]

gosthash_reset(c) ==
  [c EXCEPT !.sum = <<>>, !.h = <<>>, !.lo = 0, !.hi = 0, !.buf = Zeros(32), !.n = 0]

\* One chunk: its words are added to the sum, of which the model keeps the terms.
gosthash_bytes(c, buf, bits) ==
  LET sum == (c.lo + bits) % BitWord
  IN  [gosthash_compress(c, buf) EXCEPT !.sum = @ \o buf, !.lo = sum,
                                        !.hi = @ + (IF sum < bits THEN 1 ELSE 0)]

\* The whole chunks of data, but a last one that would leave nothing behind.
gosthash_chunks(c, data) ==
  LET k == IF Len(data) = 0 THEN 0 ELSE (Len(data) - 1) \div 32
      mix(d, j) == gosthash_bytes(d, SubSeq(data, 32 * j - 31, 32 * j), 256)
      rest == SubSeq(data, 32 * k + 1, Len(data))
      mixed == FoldLeft(mix, c, [j \in 1..k |-> j])
  IN  [mixed EXCEPT !.buf = Put(@, 0, rest), !.n = Len(rest)]

gosthash_update(c, buf) ==
  LET take   == Min({32 - c.n, Len(buf)})
      filled == [c EXCEPT !.buf = Put(@, c.n, SubSeq(buf, 1, take)), !.n = c.n + take]
  IN  IF filled.n < 32 THEN filled
      ELSE gosthash_chunks(gosthash_bytes(filled, filled.buf, 256),
                           SubSeq(buf, take + 1, Len(buf)))

gosthash_final(c) ==
  LET last  == [c EXCEPT !.buf = Put(@, c.n, Zeros(32 - c.n))]
      mixed == IF c.n > 0 THEN gosthash_bytes(last, last.buf, 8 * c.n) ELSE c
      sized == gosthash_compress(mixed, Word(mixed.lo, 4) \o Word(mixed.hi, 4) \o Zeros(24))
  IN  gosthash_compress(sized, sized.sum)

MD2_Init(c) == [c EXCEPT !.h = <<>>, !.buf = Zeros(16), !.n = 0]

MD2_Update(c, buf) ==
  [Buffered(c, c.n, buf) EXCEPT !.n = (c.n + Len(buf)) % 16]

\* The padding byte is the length of the padding; the checksum of all blocks is
\* the last one.  Init zeroes the object behind the result.
TruncatedFinal(c) ==
  LET padlen == 16 - c.n
      padded == MD2_Update(c, Copies(padlen, WordByte(padlen)))
      ended  == MD2_Update(padded, Copies(16, Checksum))
  IN  [MD2_Init(ended) EXCEPT !.h = ended.h]

-----------------------------------------------------------------------------
(* Hashes without a buffer: a register that takes one byte after the other *)

crc_init(c) == [c EXCEPT !.h = <<>>]
crc_update(c, data) == [c EXCEPT !.h = @ \o data]
crc_final(c) == c     \* the complement of the register

fcs_init(c) == [c EXCEPT !.h = <<>>]
fcs_update(c, data) == [c EXCEPT !.h = @ \o data]
fcs_final(c) == c

GHash_Init(c) == [c EXCEPT !.h = <<>>]
GHash_Update(c, data) == [c EXCEPT !.h = @ \o data]

sizehash32_begin(c) == [c EXCEPT !.lo = 0]
sizehash32_hash(c, len) == [c EXCEPT !.lo = (@ + len) % BitWord]

-----------------------------------------------------------------------------
(* CHashManager *)

Begin(a, c) ==
  CASE a = "CRC" -> crc_init(c)        [] a = "FCS" -> fcs_init(c)
    [] a = "GHASH" -> GHash_Init(c)    [] a = "SIZE32" -> sizehash32_begin(c)
    [] a = "GOST" -> gosthash_reset(c) [] a = "HAVAL" -> haval_start(c)
    [] a = "MD2" -> MD2_Init(c)        [] a = "MD4" -> MD4Init(c)
    [] a = "MD5" -> MD5Init(c)         [] a = "SHA1" -> sha1_begin(c)
    [] a = "SHA256" -> sha256_begin(c) [] a = "SHA512" -> sha512_begin(c)
    [] a = "TIGER" -> tiger_init(c)

Update(a, c, data) ==
  CASE a = "CRC" -> crc_update(c, data)        [] a = "FCS" -> fcs_update(c, data)
    [] a = "GHASH" -> GHash_Update(c, data)    [] a = "SIZE32" -> sizehash32_hash(c, Len(data))
    [] a = "GOST" -> gosthash_update(c, data)  [] a = "HAVAL" -> haval_hash(c, data)
    [] a = "MD2" -> MD2_Update(c, data)        [] a = "MD4" -> MD4Update(c, data)
    [] a = "MD5" -> MD5Update(c, data)         [] a = "SHA1" -> sha1_hash(c, data)
    [] a = "SHA256" -> sha256_hash(c, data)    [] a = "SHA512" -> sha512_hash(c, data)
    [] a = "TIGER" -> tiger_process(c, data)

Final(a, c) ==
  CASE a = "CRC" -> crc_final(c)        [] a = "FCS" -> fcs_final(c)
    [] a = "GHASH" -> c                 [] a = "SIZE32" -> c
    [] a = "GOST" -> gosthash_final(c)  [] a = "HAVAL" -> haval_end(c)
    [] a = "MD2" -> TruncatedFinal(c)   [] a = "MD4" -> MD4Final(c)
    [] a = "MD5" -> MD5Final(c)         [] a = "SHA1" -> sha1_end(c)
    [] a = "SHA256" -> sha256_end(c)    [] a = "SHA512" -> sha_end(c)
    [] a = "TIGER" -> tiger_done(c)

DigestsInit ==
  /\ alg \in Algorithms /\ ctx = Unused(alg)
  /\ size_hash_buffer \in ReadSizes
  /\ file = 0 /\ message = <<>> /\ left = 0 /\ phase = "idle"

Bytes(f, n) == [i \in 1..n |-> 1000 * f + i]

\* HashFile and HashFileWithMD5 up to the read loop, once the file is open.
HashFile ==
  /\ phase \in {"idle", "done"} /\ file < MaxFiles
  /\ \E n \in Lengths : message' = Bytes(file + 1, n) /\ left' = n
  /\ file' = file + 1
  /\ ctx' = Begin(alg, ctx) /\ phase' = "reading"
  /\ UNCHANGED <<alg, size_hash_buffer>>

\* One pass of the loop: a short read is the last one.
Read ==
  /\ phase = "reading"
  /\ LET uRead == Min({size_hash_buffer, left})
         from  == Len(message) - left
     IN  /\ ctx' = IF uRead # 0 THEN Update(alg, ctx, SubSeq(message, from + 1, from + uRead))
                   ELSE ctx
         /\ left' = left - uRead
         /\ phase' = IF uRead # size_hash_buffer THEN "finishing" ELSE "reading"
  /\ UNCHANGED <<alg, size_hash_buffer, file, message>>

Finish ==
  /\ phase = "finishing"
  /\ ctx' = Final(alg, ctx) /\ phase' = "done"
  /\ UNCHANGED <<alg, size_hash_buffer, file, message, left>>

\* The whole message in one call.
HashStrWithMD5 ==
  /\ phase \in {"idle", "done"} /\ file < MaxFiles /\ alg = "MD5"
  /\ \E n \in Lengths :
       /\ message' = Bytes(file + 1, n) /\ left' = 0
       /\ ctx' = MD5Final(MD5Update(MD5Init(ctx), message'))
  /\ file' = file + 1 /\ phase' = "done"
  /\ UNCHANGED <<alg, size_hash_buffer>>

DigestsNext == HashFile \/ Read \/ Finish \/ HashStrWithMD5

-----------------------------------------------------------------------------
(* Properties *)

\* The stream a digest is defined over: the message, the pad byte, as few zeros
\* as make the length field end a block, and that field.
PaddedWith(m, B, field) ==
  LET over == (Len(m) + 1 + Len(field)) % B
  IN  m \o <<Pad>> \o Zeros(IF over = 0 THEN 0 ELSE B - over) \o field

Reference(a, m) ==
  LET bits      == 8 * Len(m)
      low(W)    == bits % W
      high(W)   == (bits \div W) % W
      little(n) == Word(low(BitWord), n) \o Word(high(BitWord), n)
      big(n)    == Word(high(ByteWord), n) \o Word(low(ByteWord), n)
      short     == (32 - (Len(m) % 32)) % 32
      whole     == m \o Zeros(short)
      fill      == 16 - (Len(m) % 16)
  IN  CASE a \in {"CRC", "FCS", "GHASH"} -> m
        [] a \in {"MD4", "MD5"} -> PaddedWith(m, 64, little(4))
        [] a \in {"SHA1", "SHA256"} -> PaddedWith(m, 64, big(4))
        [] a = "SHA512" -> PaddedWith(m, 128, big(8))
        [] a = "HAVAL" -> PaddedWith(m, 128, <<Param, Param>> \o little(4))
        [] a = "TIGER" -> PaddedWith(m, 64, Word(bits % (BitWord * BitWord), 8))
        [] a = "GOST" -> whole \o little(4) \o Zeros(24) \o whole
        [] a = "MD2" -> m \o Copies(fill, WordByte(fill)) \o Copies(16, Checksum)
        [] OTHER -> <<>>

\* A digest is a function of the file alone: whatever the sizes of the reads, the
\* position of the end in the last block (Final and its kin), the carry of the
\* count words, and the bytes an earlier file left in the context, the stream that
\* was compressed is the padded message, and SIZE32 is its length.
DigestOfTheFile ==
  phase = "done" =>
    IF alg = "SIZE32" THEN ctx.lo = Len(message) % BitWord
    ELSE ctx.h = Reference(alg, message)

=============================================================================
