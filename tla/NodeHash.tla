-------------------------------- MODULE NodeHash --------------------------------
(***************************************************************************)
(* The 15-bit hash of a name, twice: as the dashboard computes it for the  *)
(* hash column of its file table (utils.js, with an MD5 of its own) and as *)
(* the nodes and the name server do (Hashing.java, with Java's MD5).  Both *)
(* must agree, or the dashboard shows files at the wrong place of the      *)
(* ring.                                                                   *)
(*                                                                         *)
(* A 32-bit word is a record of its two 16-bit halves, which is how ad()   *)
(* adds, too.  A string is the sequence of its character codes, all below  *)
(* 256 here.                                                               *)
(***************************************************************************)
EXTENDS Integers, Sequences, SequencesExt, Bitwise

Half == 65536
Word(n)   == [hi |-> (n \div Half) % Half, lo |-> n % Half]     \* of a signed constant
Flip(x)   == [hi |-> Half - 1 - x.hi, lo |-> Half - 1 - x.lo]
Both(x, y)   == [hi |-> x.hi & y.hi, lo |-> x.lo & y.lo]
Either(x, y) == [hi |-> x.hi | y.hi, lo |-> x.lo | y.lo]
Differ(x, y) == [hi |-> x.hi ^^ y.hi, lo |-> x.lo ^^ y.lo]

\* ad: the low halves, then the high halves with the carry, modulo 2^32.
Add(x, y) ==
    LET l == x.lo + y.lo
    IN  [hi |-> (x.hi + y.hi + (l \div Half)) % Half, lo |-> l % Half]

\* rl: rotate left by c < 32.
Rotate(x, c) ==
    LET h == IF c < 16 THEN x.hi ELSE x.lo
        l == IF c < 16 THEN x.lo ELSE x.hi
        k == c % 16
    IN  [hi |-> ((h * 2^k) % Half) + (l \div 2^(16 - k)),
         lo |-> ((l * 2^k) % Half) + (h \div 2^(16 - k))]

-------------------------------------------------------------------------------
(***************************************************************************)
(* sb: the message, a bit 1, zeros, and the length in bits in the last but *)
(* one word of the last block.  As bytes, little-endian.                   *)
(***************************************************************************)
Blocks(len) == ((len + 8) \div 64) + 1

Padded(s) ==
    LET n == Len(s)
        size == Blocks(n) * 64
    IN  [i \in 1 .. size |->
            CASE i <= n     -> s[i]
              [] i = n + 1  -> 128
              [] i > n + 1 /\ i \in size - 7 .. size - 4 ->
                     ((n * 8) \div 256^(i - (size - 7))) % 256
              [] OTHER      -> 0]

WordAt(b, k) ==     \* x[k] of the bytes b, k from 0
    [lo |-> b[4 * k + 1] + 256 * b[4 * k + 2], hi |-> b[4 * k + 3] + 256 * b[4 * k + 4]]

(***************************************************************************)
(* The 64 calls of ff, gg, hh and ii, in order: the word each one takes,   *)
(* its shift, and its constant.                                            *)
(***************************************************************************)
Shift == << <<7, 12, 17, 22>>, <<5, 9, 14, 20>>, <<4, 11, 16, 23>>, <<6, 10, 15, 21>> >>

TakesWord(round, i) ==
    CASE round = 1 -> i
      [] round = 2 -> (1 + 5 * i) % 16
      [] round = 3 -> (5 + 3 * i) % 16
      [] round = 4 -> (7 * i) % 16

Constant ==
  << << -680876936,  -389564586,   606105819, -1044525330,
        -176418897,  1200080426, -1473231341,   -45705983,
        1770035416, -1958414417,      -42063, -1990404162,
        1804603682,   -40341101, -1502002290,  1236535329>>,
     << -165796510, -1069501632,   643717713,  -373897302,
        -701558691,    38016083,  -660478335,  -405537848,
         568446438, -1019803690,  -187363961,  1163531501,
       -1444681467,   -51403784,  1735328473, -1926607734>>,
     <<    -378558, -2022574463,  1839030562,   -35309556,
       -1530992060,  1272893353,  -155497632, -1094730640,
         681279174,  -358537222,  -722521979,    76029189,
        -640364487,  -421815835,   530742520,  -995338651>>,
     << -198630844,  1126891415, -1416354905,   -57434055,
        1700485571, -1894986606,    -1051523, -2054922799,
        1873313359,   -30611744, -1560198380,  1309151649,
        -145523070, -1120210379,   718787259,  -343485551>> >>

\* ff, gg, hh, ii
Mix(round, b, c, d) ==
    CASE round = 1 -> Either(Both(b, c), Both(Flip(b), d))
      [] round = 2 -> Either(Both(b, d), Both(c, Flip(d)))
      [] round = 3 -> Differ(Differ(b, c), d)
      [] round = 4 -> Differ(c, Either(b, Flip(d)))

\* One call: v is <<a, b, c, d>>; the result a takes b's place in the next one.
Step(v, block, n) ==
    LET round == (n \div 16) + 1
        i == n % 16
        sum == Add(Add(v[1], Mix(round, v[2], v[3], v[4])),
                   Add(WordAt(block, TakesWord(round, i)), Word(Constant[round][i + 1])))
    IN  <<v[4], Add(Rotate(sum, Shift[round][(i % 4) + 1]), v[2]), v[2], v[3]>>

Compress(v, block) ==
    LET after[n \in 0 .. 64] == IF n = 0 THEN v ELSE Step(after[n - 1], block, n - 1)
    IN  [i \in 1 .. 4 |-> Add(after[64][i], v[i])]

InitialState ==
    <<Word(1732584193), Word(-271733879), Word(-1732584194), Word(271733878)>>

\* MD5: the four words after the last block; rh writes each byte as two hex digits.
MD5(s) ==
    LET b == Padded(s)
        after[k \in 0 .. Blocks(Len(s))] ==
            IF k = 0 THEN InitialState
            ELSE Compress(after[k - 1], SubSeq(b, 64 * k - 63, 64 * k))
        v == after[Blocks(Len(s))]
    IN  FlattenSeq([i \in 1 .. 4 |-> LET w == v[i] IN
            FlattenSeq([j \in 1 .. 4 |->
                LET byte == ((IF j <= 2 THEN w.lo ELSE w.hi) \div 256^((j - 1) % 2)) % 256
                IN  <<byte \div 16, byte % 16>>])])

-------------------------------------------------------------------------------
\* toBytes: the numbers that pairs of hex digits stand for.
ToBytes(hex) == [i \in 1 .. Len(hex) \div 2 |-> 16 * hex[2 * i - 1] + hex[2 * i]]

\* bytesToShort of utils.js: each pair is added to an int by exclusive or.
BytesToShort(bytes) ==
    LET pair(h, i) == (h ^^ bytes[2 * i - 1]) ^^ (256 * bytes[2 * i])
    IN  FoldLeft(pair, 0, [i \in 1 .. Len(bytes) \div 2 |-> i]) & 32767

ComputeHash(s) == BytesToShort(ToBytes(MD5(s)))

(***************************************************************************)
(* Hashing.java works with two bytes and puts them together in the end.    *)
(***************************************************************************)
Hash(digest) ==
    LET n == Len(digest) \div 2
        byte(k) == FoldLeft(LAMBDA h, b : h ^^ b, 0, [i \in 1 .. n |-> digest[2 * i - k]])
    IN  (byte(1) + 256 * byte(0)) % 32768
===============================================================================
