------------------------------- MODULE Codecs -------------------------------
(***************************************************************************)
(* The codec operations every script of the repository calls:             *)
(*   bytes.decode(enc, errors='replace'), str.encode('utf-8',             *)
(*   errors='replace'), the Chinese-character count and bytes.find.       *)
(* Bytes are integers 0..255, text is a sequence of Unicode code points.  *)
(* UTF-8 is computed from its bit layout.  The double-byte codecs (gbk,   *)
(* gb2312, gb18030, big5) are CPython's multibyte decoders: a byte below  *)
(* 0x80 is ASCII, a lead byte with a mapped trail byte is one character,  *)
(* anything else is replaced by U+FFFD and decoding resumes at the next   *)
(* byte.  Which pairs are mapped, and to what, comes from DbcsTables, a   *)
(* per-codec table over the byte pairs a model can reach; evaluating a    *)
(* pair outside a table is a TLC error, so a table too small is noticed.  *)
(***************************************************************************)
EXTENDS Integers, Sequences, SequencesExt

CONSTANTS
  DbcsTables,     \* [codec name -> [<<lead, trail>> -> code point, or Unmapped]]
  EncodeTables    \* [codec name -> [non-ASCII character -> its two bytes]]

Unmapped    == -1
Replacement == 65533   \* U+FFFD, the character errors='replace' inserts
Utf8        == "utf-8"

InRange(x, lo, hi) == lo <= x /\ x <= hi

IsContinuation(x) == InRange(x, 128, 191)

(* Number of bytes a UTF-8 sequence starting with b1 has; 0 if b1 cannot  *)
(* start one (0x80..0xC1 and 0xF5..0xFF).                                 *)
Utf8SeqLen(b1) ==
  CASE b1 < 128               -> 1
    [] InRange(b1, 194, 223)  -> 2
    [] InRange(b1, 224, 239)  -> 3
    [] InRange(b1, 240, 244)  -> 4
    [] OTHER                  -> 0

(* Allowed second byte: excludes overlong forms (E0, F0), surrogates (ED)  *)
(* and code points above U+10FFFF (F4).                                   *)
Utf8SecondOk(b1, b2) ==
  CASE b1 = 224 -> InRange(b2, 160, 191)
    [] b1 = 237 -> InRange(b2, 128, 159)
    [] b1 = 240 -> InRange(b2, 144, 191)
    [] b1 = 244 -> InRange(b2, 128, 143)
    [] OTHER    -> IsContinuation(b2)

(* Length of the longest valid prefix of the n-byte sequence at i.        *)
Utf8ValidPrefix(b, i, n) ==
  LET ok(k) == /\ i + k - 1 <= Len(b)
               /\ IF k = 2 THEN Utf8SecondOk(b[i], b[i + 1])
                           ELSE IsContinuation(b[i + k - 1])
      good == {k \in 2..n : \A j \in 2..k : ok(j)}
  IN IF good = {} THEN 1 ELSE Max(good)

Utf8CodePoint(b, i, n) ==
  LET lead == b[i] % (CASE n = 2 -> 32 [] n = 3 -> 16 [] OTHER -> 8)
      tail(k) == b[i + k - 1] - 128
  IN CASE n = 2 -> lead * 64 + tail(2)
       [] n = 3 -> (lead * 64 + tail(2)) * 64 + tail(3)
       [] OTHER -> ((lead * 64 + tail(2)) * 64 + tail(3)) * 64 + tail(4)

(* A decoder that reads the character at i and moves on by its length,    *)
(* run over n bytes from position 1.  The positions it visits are found   *)
(* by doubling the jump (f, f o f, ...), so that a long byte string needs *)
(* only log n nested evaluations; the i-th character is read at the i-th  *)
(* smallest position.                                                      *)
RECURSIVE Reach(_, _, _, _)
Reach(S, f, p, n) ==
  IF p > n THEN S ELSE Reach(S \cup {f[s] : s \in S}, [i \in DOMAIN f |-> f[f[i]]], 2 * p, n)

DecodeBySteps(n, StepLen(_), StepChar(_)) ==
  LET f    == [i \in 1..(n + 1) |-> IF i > n THEN i ELSE i + StepLen(i)]
      S    == Reach({1}, f, 1, n) \ {n + 1}
      rank == [s \in S |-> Cardinality({t \in S : t < s}) + 1]
  IN [k \in 1..Cardinality(S) |-> StepChar(CHOOSE s \in S : rank[s] = k)]

(* bytes.decode('utf-8', errors='replace'): one U+FFFD per maximal        *)
(* invalid subpart.  Utf8Step is one step at i: the character and the    *)
(* bytes it consumes.                                                      *)
Utf8Step(b, i) ==
  LET n == Utf8SeqLen(b[i])
      k == IF n <= 1 THEN 1 ELSE Utf8ValidPrefix(b, i, n)
  IN CASE n = 1 -> [ch |-> b[i], len |-> 1]
       [] n = 0 -> [ch |-> Replacement, len |-> 1]
       [] k = n -> [ch |-> Utf8CodePoint(b, i, n), len |-> n]
       [] OTHER -> [ch |-> Replacement, len |-> k]

(* The decoder written as a recursion over positions: the reference      *)
(* Utf8Decode is checked against (MC_ViewCommitCorrect).                  *)
RECURSIVE Utf8DecodeFrom(_, _)
Utf8DecodeFrom(b, i) ==
  IF i > Len(b) THEN <<>>
  ELSE LET n == Utf8SeqLen(b[i])
           k == IF n <= 1 THEN 1 ELSE Utf8ValidPrefix(b, i, n)
       IN CASE n = 1 -> <<b[i]>> \o Utf8DecodeFrom(b, i + 1)
            [] n = 0 -> <<Replacement>> \o Utf8DecodeFrom(b, i + 1)
            [] k = n -> <<Utf8CodePoint(b, i, n)>> \o Utf8DecodeFrom(b, i + n)
            [] OTHER -> <<Replacement>> \o Utf8DecodeFrom(b, i + k)

Utf8Decode(b) ==
  DecodeBySteps(Len(b), LAMBDA i : Utf8Step(b, i).len, LAMBDA i : Utf8Step(b, i).ch)

(* str.encode('utf-8', errors='replace'): a lone surrogate becomes '?'.   *)
Utf8EncodeChar(c) ==
  CASE c < 128                   -> <<c>>
    [] c < 2048                  -> <<192 + c \div 64, 128 + (c % 64)>>
    [] InRange(c, 55296, 57343)  -> <<63>>
    [] c < 65536                 -> <<224 + c \div 4096, 128 + ((c \div 64) % 64),
                                      128 + (c % 64)>>
    [] OTHER                     -> <<240 + c \div 262144, 128 + ((c \div 4096) % 64),
                                      128 + ((c \div 64) % 64), 128 + (c % 64)>>

(* The concatenation of a sequence of pieces of 1 to 4 bytes each, piece *)
(* i placed after the lengths of the pieces before it; written without   *)
(* recursion so that long texts stay within TLC's stack.                 *)
ConcatPieces(p) ==
  LET before(i) == LET m == i - 1
                   IN Cardinality({j \in 1..m : Len(p[j]) = 1})
                      + 2 * Cardinality({j \in 1..m : Len(p[j]) = 2})
                      + 3 * Cardinality({j \in 1..m : Len(p[j]) = 3})
                      + 4 * Cardinality({j \in 1..m : Len(p[j]) = 4})
      off == [i \in DOMAIN p |-> before(i)]
  IN [k \in 1..before(Len(p) + 1) |->
        LET i == CHOOSE i \in DOMAIN p : off[i] < k /\ k <= off[i] + Len(p[i])
        IN p[i][k - off[i]]]

Utf8Encode(t) == ConcatPieces([i \in DOMAIN t |-> Utf8EncodeChar(t[i])])

(* bytes.decode(enc, errors='replace') for a CPython multibyte codec, one *)
(* step at i.                                                              *)
DbcsStep(table, b, i) ==
  CASE b[i] < 128 -> [ch |-> b[i], len |-> 1]
    [] i < Len(b) /\ table[<<b[i], b[i + 1]>>] # Unmapped ->
         [ch |-> table[<<b[i], b[i + 1]>>], len |-> 2]
    [] OTHER -> [ch |-> Replacement, len |-> 1]

DbcsDecode(table, b) ==
  DecodeBySteps(Len(b), LAMBDA i : DbcsStep(table, b, i).len,
                        LAMBDA i : DbcsStep(table, b, i).ch)

(* The same decoder as a recursion over positions, the reference         *)
(* DbcsDecode is checked against.                                          *)
RECURSIVE DbcsDecodeFrom(_, _, _)
DbcsDecodeFrom(table, b, i) ==
  IF i > Len(b) THEN <<>>
  ELSE IF b[i] < 128 THEN <<b[i]>> \o DbcsDecodeFrom(table, b, i + 1)
  ELSE IF i < Len(b) /\ table[<<b[i], b[i + 1]>>] # Unmapped
       THEN <<table[<<b[i], b[i + 1]>>]>> \o DbcsDecodeFrom(table, b, i + 2)
       ELSE <<Replacement>> \o DbcsDecodeFrom(table, b, i + 1)

(* bytes.decode('latin1'): byte n is code point n; it never fails.       *)
Latin1Decode(b) == [i \in DOMAIN b |-> b[i]]

Decode(enc, b) ==
  CASE enc = Utf8     -> Utf8Decode(b)
    [] enc = "latin1" -> Latin1Decode(b)
    [] OTHER          -> DbcsDecode(DbcsTables[enc], b)

(* bytes.decode(enc) with errors='strict' succeeds exactly when the       *)
(* replacing decoder inserts no U+FFFD (no message holds U+FFFD itself).  *)
DecodesStrictly(enc, b) == \A i \in DOMAIN Decode(enc, b) : Decode(enc, b)[i] # Replacement

(* str.encode(enc) for a double-byte codec, used only to build the bytes *)
(* a commit stored in that codec holds.                                    *)
LegacyEncode(enc, t) ==
  ConcatPieces([i \in DOMAIN t |-> IF t[i] < 128 THEN <<t[i]>>
                                   ELSE EncodeTables[enc][t[i]]])

Encode(enc, t) == IF enc = Utf8 THEN Utf8Encode(t) ELSE LegacyEncode(enc, t)

(* sum(1 for c in decoded if '\u4e00' <= c <= '\u9fff')               *)
ChineseCount(t) == Len(SelectSeq(t, LAMBDA c : InRange(c, 19968, 40959)))

(* bytes.find(pat): 0-based index of the first occurrence, or -1.         *)
Find(b, pat) ==
  LET at == {i \in 1..(Len(b) - Len(pat) + 1) :
               SubSeq(b, i, i + Len(pat) - 1) = pat}
  IN IF at = {} THEN -1 ELSE Min(at) - 1

=============================================================================
