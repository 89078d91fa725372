----------------------------- MODULE ReadGitRawGbk -----------------------------
(***************************************************************************)
(* src/read_git_raw_gbk.py: decode the raw commit object with each codec *)
(* of a list (errors='replace'); print a block for a decoding holding an *)
(* ideograph, and for UTF-8 in any case; stop at the first ideographic   *)
(* one.  The ASCII header of the object adds no ideograph and is left    *)
(* out.                                                                    *)
(***************************************************************************)
EXTENDS Codecs

CONSTANTS
  Messages,      \* commit messages the author may have written
  SourceCodecs,  \* codecs a commit message may have been stored in
  None

VARIABLES
  pc,            \* "fetch", "loop", "done"
  src,           \* ghost: [codec, text] the author wrote
  raw_bytes,
  idx,           \* position of the for loop in encodings_to_try
  printed        \* the blocks printed: sequence of [codec, text]

vars == <<pc, src, raw_bytes, idx, printed>>

(* Mutant of the list: UTF-8 tried first.                                  *)
EncodingsUtf8First == <<Utf8, "gbk", "gb2312", "gb18030">>

(* Lines 29-34; the display names only label the printed block.           *)
encodings_to_try == <<"gbk", "gb2312", "gb18030", Utf8>>

(* Lines 15-20: git cat-file -p HEAD, binary.                             *)
Fetch ==
  /\ pc = "fetch"
  /\ \E codec \in SourceCodecs, text \in Messages :
       /\ src' = [codec |-> codec, text |-> text]
       /\ raw_bytes' = Encode(codec, text)
  /\ pc' = "loop"
  /\ UNCHANGED <<idx, printed>>

(* Mutant: the block is labelled with the upper-case display name.       *)
TryEncodingDisplayName ==
  LET encoding     == encodings_to_try[idx]
      decoded_text == Decode(encoding, raw_bytes)
      has_chinese  == ChineseCount(decoded_text) > 0
  IN /\ pc = "loop"
     /\ idx <= Len(encodings_to_try)
     /\ printed' = IF has_chinese \/ encoding = Utf8
                   THEN Append(printed, [codec |-> "UTF-8", text |-> decoded_text])
                   ELSE printed
     /\ idx' = idx + 1
     /\ pc' = IF has_chinese THEN "done" ELSE pc
     /\ UNCHANGED <<src, raw_bytes>>

(* Lines 36-50: one iteration.  The except branch is unreachable since  *)
(* errors='replace' never raises.                                          *)
TryEncoding ==
  LET encoding     == encodings_to_try[idx]
      decoded_text == Decode(encoding, raw_bytes)
      has_chinese  == ChineseCount(decoded_text) > 0
  IN /\ pc = "loop"
     /\ idx <= Len(encodings_to_try)
     /\ printed' = IF has_chinese \/ encoding = Utf8
                   THEN Append(printed, [codec |-> encoding, text |-> decoded_text])
                   ELSE printed
     /\ idx' = idx + 1
     /\ pc' = IF has_chinese THEN "done" ELSE pc
     /\ UNCHANGED <<src, raw_bytes>>

(* The for loop runs out.                                                  *)
LoopEnd ==
  /\ pc = "loop"
  /\ idx > Len(encodings_to_try)
  /\ pc' = "done"
  /\ UNCHANGED <<src, raw_bytes, idx, printed>>

Init ==
  /\ pc = "fetch"
  /\ src = [codec |-> None, text |-> <<>>]
  /\ raw_bytes = <<>>
  /\ idx = 1
  /\ printed = <<>>

Next == Fetch \/ TryEncoding \/ LoopEnd

Spec == Init /\ [][Next]_vars

-----------------------------------------------------------------------------
TypeOK ==
  /\ pc \in {"fetch", "loop", "done"}
  /\ raw_bytes \in Seq(0..255)
  /\ idx \in 1..(Len(encodings_to_try) + 1)
  /\ printed \in Seq([codec : Range(encodings_to_try), text : Seq(Nat)])

(* The loop prints a block for UTF-8 "in any case" and breaks on the     *)
(* first ideographic one, yet the reader always gets exactly one block,  *)
(* and it is either ideographic or the UTF-8 decoding: UTF-8 comes last, *)
(* so its unconditional block and a GBK-family block never both appear. *)
ExactlyOneBlock ==
  pc = "done" =>
    /\ Len(printed) = 1
    /\ ChineseCount(printed[1].text) > 0 \/ printed[1].codec = Utf8

=============================================================================
