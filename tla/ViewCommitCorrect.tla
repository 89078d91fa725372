--------------------------- MODULE ViewCommitCorrect ---------------------------
(***************************************************************************)
(* src/py/view_commit_correct.py: split git log's raw output after its   *)
(* three metadata lines (hash, author, date) and report, for each codec  *)
(* of a list, the ideograph count of the message decoded with            *)
(* errors='replace' and, when it is positive, a preview of the first 100 *)
(* characters.  The printed metadata and the explanations are left out.  *)
(***************************************************************************)
EXTENDS Codecs

CONSTANTS
  Messages,      \* commit messages the author may have written
  SourceCodecs,  \* codecs a commit message may have been stored in
  Metadata,      \* the three metadata lines, each ending in \n (ASCII)
  None

VARIABLES
  pc,            \* "fetch", "split", "loop", "done"
  src,           \* ghost: [codec, text] the author wrote
  raw_bytes,
  commit_msg_bytes,
  idx,           \* position of the for loop in encodings
  report         \* one [codec, count, preview] per candidate tried

vars == <<pc, src, raw_bytes, commit_msg_bytes, idx, report>>

Newline == 10
PreviewLength == 100

(* Lines 51-56; the display names only label the report.                  *)
encodings == <<Utf8, "gbk", "gb2312", "gb18030">>

(* bytes.split(b'\n', n): at most n cuts, at the first n newlines.        *)
RECURSIVE SplitBytes(_, _)
SplitBytes(b, n) ==
  LET at == Find(b, <<Newline>>)
  IN IF n = 0 \/ at < 0 THEN <<b>>
     ELSE <<SubSeq(b, 1, at)>> \o SplitBytes(SubSeq(b, at + 2, Len(b)), n - 1)

(* Lines 22-27.                                                            *)
Fetch ==
  /\ pc = "fetch"
  /\ \E codec \in SourceCodecs, text \in Messages :
       /\ src' = [codec |-> codec, text |-> text]
       /\ raw_bytes' = Metadata \o Encode(codec, text)
  /\ pc' = "split"
  /\ UNCHANGED <<commit_msg_bytes, idx, report>>

(* Mutant: the split keeps one cut too few (maxsplit 2).                  *)
SplitTwo ==
  LET lines == SplitBytes(raw_bytes, 2)
  IN /\ pc = "split"
     /\ commit_msg_bytes' = IF Len(lines) >= 4 THEN lines[4] ELSE <<>>
     /\ pc' = "loop"
     /\ UNCHANGED <<src, raw_bytes, idx, report>>

(* Lines 30-36: the message is whatever follows the third newline, or    *)
(* empty when there are fewer lines.                                       *)
Split ==
  LET lines == SplitBytes(raw_bytes, 3)
  IN /\ pc = "split"
     /\ commit_msg_bytes' = IF Len(lines) >= 4 THEN lines[4] ELSE <<>>
     /\ pc' = "loop"
     /\ UNCHANGED <<src, raw_bytes, idx, report>>

(* Mutant: the report records the display name, not the codec.          *)
ReportEncodingDisplayName ==
  LET decoded       == Decode(encodings[idx], commit_msg_bytes)
      chinese_count == ChineseCount(decoded)
  IN /\ pc = "loop"
     /\ idx <= Len(encodings)
     /\ report' = Append(report,
                    [codec   |-> "GB2312",
                     count   |-> chinese_count,
                     preview |-> IF chinese_count > 0
                                 THEN SubSeq(decoded, 1, Min({PreviewLength, Len(decoded)}))
                                 ELSE None])
     /\ idx' = idx + 1
     /\ UNCHANGED <<pc, src, raw_bytes, commit_msg_bytes>>

(* Mutant: the preview is cut one character late, decoded[:101].         *)
ReportEncodingLongPreview ==
  LET decoded       == Decode(encodings[idx], commit_msg_bytes)
      chinese_count == ChineseCount(decoded)
  IN /\ pc = "loop"
     /\ idx <= Len(encodings)
     /\ report' = Append(report,
                    [codec   |-> encodings[idx],
                     count   |-> chinese_count,
                     preview |-> IF chinese_count > 0
                                 THEN SubSeq(decoded, 1, Min({PreviewLength + 1, Len(decoded)}))
                                 ELSE None])
     /\ idx' = idx + 1
     /\ UNCHANGED <<pc, src, raw_bytes, commit_msg_bytes>>

(* Lines 58-67: one iteration; the except branch is unreachable since    *)
(* errors='replace' never raises.                                          *)
ReportEncoding ==
  LET decoded       == Decode(encodings[idx], commit_msg_bytes)
      chinese_count == ChineseCount(decoded)
  IN /\ pc = "loop"
     /\ idx <= Len(encodings)
     /\ report' = Append(report,
                    [codec   |-> encodings[idx],
                     count   |-> chinese_count,
                     preview |-> IF chinese_count > 0
                                 THEN SubSeq(decoded, 1, Min({PreviewLength, Len(decoded)}))
                                 ELSE None])
     /\ idx' = idx + 1
     /\ UNCHANGED <<pc, src, raw_bytes, commit_msg_bytes>>

(* The loop runs out; the closing explanation is printed.                 *)
LoopEnd ==
  /\ pc = "loop"
  /\ idx > Len(encodings)
  /\ pc' = "done"
  /\ UNCHANGED <<src, raw_bytes, commit_msg_bytes, idx, report>>

Init ==
  /\ pc = "fetch"
  /\ src = [codec |-> None, text |-> <<>>]
  /\ raw_bytes = <<>>
  /\ commit_msg_bytes = <<>>
  /\ idx = 1
  /\ report = <<>>

Next == Fetch \/ Split \/ ReportEncoding \/ LoopEnd

Spec == Init /\ [][Next]_vars

-----------------------------------------------------------------------------
TypeOK ==
  /\ pc \in {"fetch", "split", "loop", "done"}
  /\ raw_bytes \in Seq(0..255) /\ commit_msg_bytes \in Seq(0..255)
  /\ idx \in 1..(Len(encodings) + 1)
  /\ report \in Seq([codec : Range(encodings), count : Nat,
                     preview : Seq(Nat) \cup {None}])

(* The first PreviewLength characters of a text (decoded[:100]).         *)
Preview(text) == SubSeq(text, 1, Min({PreviewLength, Len(text)}))

(* Docstring, line 5 ("find the display most likely to be right"): for a *)
(* message with ideographs stored as GBK or UTF-8, one of the previews   *)
(* the report shows is exactly the message's first 100 characters, the   *)
(* whole message when it is shorter.  A message longer than the preview  *)
(* is never shown whole.                                                  *)
PreviewShowsMessageStart ==
  (pc = "done" /\ src.codec \in {"gbk", Utf8} /\ ChineseCount(src.text) > 0)
     => \E k \in DOMAIN report : report[k].preview = Preview(src.text)

=============================================================================
