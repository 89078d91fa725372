------------------------ MODULE MC_ViewCommitCorrect ------------------------
(***************************************************************************)
(* view_commit_correct.py over every message of up to three characters    *)
(* drawn from 'A', U+66F4 and U+65B0, and two of 101 characters, where   *)
(* the preview cut of 100 applies; stored as GBK or UTF-8, behind three   *)
(* one-character metadata lines.                                          *)
(***************************************************************************)
EXTENDS ViewCommitCorrect, CodecTables

\* U+66F4 U+65B0 'A' repeated, and U+65B0 repeated, each to 101 characters.
LongMessages   == {[i \in 1..101 |-> <<\h66F4, \h65B0, \h41>>[(i % 3) + 1]],
                   [i \in 1..101 |-> \h65B0]}
MCMessages     == SeqOf(MsgChars, 3) \cup LongMessages
MCSourceCodecs == {"gbk", "utf-8"}
MCMetadata     == <<\h68, 10, \h61, 10, \h64, 10>>   \* "h\na\nd\n"

(* The decoders by doubled jumps agree with their recursive references on *)
(* the bytes of every short message in every stored codec, and the UTF-8 *)
(* encoder agrees with FlattenSeq of its pieces.                          *)
ShortBytes == {Encode(c, m) : c \in MCSourceCodecs, m \in SeqOf(MsgChars, 3)}
ASSUME \A b \in ShortBytes :
         /\ Utf8Decode(b) = Utf8DecodeFrom(b, 1)
         /\ \A m \in SeqOf(MsgChars, 3) :
              Utf8Encode(m) = FlattenSeq([i \in DOMAIN m |-> Utf8EncodeChar(m[i])])
         /\ \A c \in {"gbk", "gb2312", "gb18030"} :
              DbcsDecode(MCDbcsTables[c], b) = DbcsDecodeFrom(MCDbcsTables[c], b, 1)

=============================================================================
