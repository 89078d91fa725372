---------------------------- MODULE DecodeCommitGbk ----------------------------
(***************************************************************************)
(* src/py/decode_commit_gbk.py.  Method 1: decode git log's raw bytes     *)
(* strictly with each codec of a fixed list and print the first result    *)
(* that succeeds and holds an ideograph.  Method 2, the for-else branch   *)
(* taken when no codec qualifies: read git log again as UTF-8 with        *)
(* errors='replace', re-encode it to UTF-8 and decode that as GBK.        *)
(* The ASCII header lines of the log format and git's trailing newline    *)
(* are left out: they are valid in every candidate and add no ideograph.  *)
(***************************************************************************)
EXTENDS Codecs

CONSTANTS
  Messages,      \* commit messages the author may have written
  SourceCodecs,  \* codecs a commit message may have been stored in
  None

VARIABLES
  pc,            \* "fetch", "method1", "method2", "done"
  src,           \* ghost: [codec, text] the author wrote
  stdout,        \* result.stdout, the raw bytes of git log
  idx,           \* position of the for loop in encodings
  shown,         \* [codec, text] printed as the decoded message, or None
  used_method2

vars == <<pc, src, stdout, idx, shown, used_method2>>

(* Line 20, in the program's order.                                        *)
encodings == <<"gbk", "gb2312", "gb18030", Utf8, "latin1">>

(* Lines 14-17: git log with capture_output and no text decoding.         *)
Fetch ==
  /\ pc = "fetch"
  /\ \E codec \in SourceCodecs, text \in Messages :
       /\ src' = [codec |-> codec, text |-> text]
       /\ stdout' = Encode(codec, text)
  /\ pc' = "method1"
  /\ UNCHANGED <<idx, shown, used_method2>>

(* Mutants of one iteration: the break is missing; the codec is recorded  *)
(* under another name than the one decoded with.                          *)
TryStrictNoBreak ==
  LET text == Decode(encodings[idx], stdout)
  IN /\ pc = "method1"
     /\ idx <= Len(encodings)
     /\ IF DecodesStrictly(encodings[idx], stdout) /\ ChineseCount(text) > 0
        THEN shown' = [codec |-> encodings[idx], text |-> text]
        ELSE UNCHANGED shown
     /\ idx' = idx + 1
     /\ UNCHANGED <<src, stdout, pc, used_method2>>

TryStrictOtherName ==
  LET text == Decode(encodings[idx], stdout)
  IN /\ pc = "method1"
     /\ idx <= Len(encodings)
     /\ IF DecodesStrictly(encodings[idx], stdout) /\ ChineseCount(text) > 0
        THEN /\ shown' = [codec |-> "GBK", text |-> text]
             /\ pc' = "done"
             /\ UNCHANGED idx
        ELSE /\ idx' = idx + 1
             /\ UNCHANGED <<shown, pc>>
     /\ UNCHANGED <<src, stdout, used_method2>>

(* Mutant: the decode is lenient (errors='replace'), so it never raises. *)
TryLenient ==
  LET text == Decode(encodings[idx], stdout)
  IN /\ pc = "method1"
     /\ idx <= Len(encodings)
     /\ IF ChineseCount(text) > 0
        THEN /\ shown' = [codec |-> encodings[idx], text |-> text]
             /\ pc' = "done"
             /\ UNCHANGED idx
        ELSE /\ idx' = idx + 1
             /\ UNCHANGED <<shown, pc>>
     /\ UNCHANGED <<src, stdout, used_method2>>

(* Lines 22-31: one iteration.  A UnicodeDecodeError is caught and the    *)
(* loop continues; a strict decode holding an ideograph is printed and    *)
(* the loop is left by break.                                              *)
TryStrict ==
  LET text == Decode(encodings[idx], stdout)
  IN /\ pc = "method1"
     /\ idx <= Len(encodings)
     /\ IF DecodesStrictly(encodings[idx], stdout) /\ ChineseCount(text) > 0
        THEN /\ shown' = [codec |-> encodings[idx], text |-> text]
             /\ pc' = "done"
             /\ UNCHANGED idx
        ELSE /\ idx' = idx + 1
             /\ UNCHANGED <<shown, pc>>
     /\ UNCHANGED <<src, stdout, used_method2>>

(* Lines 32-33: the for loop ran out without break; the else branch runs. *)
LoopExhausted ==
  /\ pc = "method1"
  /\ idx > Len(encodings)
  /\ pc' = "method2"
  /\ UNCHANGED <<src, stdout, idx, shown, used_method2>>

(* Lines 41-56: git log read as UTF-8 with errors='replace' (the same     *)
(* bytes), re-encoded to UTF-8 and decoded as GBK; the except branch is   *)
(* unreachable since both calls use errors='replace'.                     *)
Method2 ==
  LET garbled_text == Utf8Decode(stdout)
      bytes_data   == Utf8Encode(garbled_text)
  IN /\ pc = "method2"
     /\ shown' = [codec |-> "gbk", text |-> Decode("gbk", bytes_data)]
     /\ used_method2' = TRUE
     /\ pc' = "done"
     /\ UNCHANGED <<src, stdout, idx>>

Init ==
  /\ pc = "fetch"
  /\ src = [codec |-> None, text |-> <<>>]
  /\ stdout = <<>>
  /\ idx = 1
  /\ shown = None
  /\ used_method2 = FALSE

Next == Fetch \/ TryStrict \/ LoopExhausted \/ Method2

Spec == Init /\ [][Next]_vars

-----------------------------------------------------------------------------
TypeOK ==
  /\ pc \in {"fetch", "method1", "method2", "done"}
  /\ stdout \in Seq(0..255)
  /\ idx \in 1..(Len(encodings) + 1)
  /\ shown \in [codec : Range(encodings), text : Seq(Nat)] \cup {None}
  /\ used_method2 \in BOOLEAN

(* The round trip of method 2, what the script is named for, only ever    *)
(* runs for a message with no ideograph: whatever codec stored a message  *)
(* with one, some candidate of method 1 decodes it strictly to a text     *)
(* with an ideograph and the loop breaks.                                  *)
Method2OnlyWithoutChinese ==
  used_method2 => ChineseCount(src.text) = 0

(* The codecs method 1 tries before UTF-8.                                *)
LegacyBeforeUtf8 == {encodings[k] : k \in 1..3}

(* Method 1 prints a UTF-8 message as the author wrote it, except exactly *)
(* when one of the Chinese codecs tried before UTF-8 decodes its bytes    *)
(* strictly to a text with an ideograph: then it prints that mojibake.    *)
(* The strict decode of line 24 is what keeps the others out.             *)
Utf8MisreadExactlyWhenLegacyValid ==
  (pc = "done" /\ ~used_method2 /\ src.codec = Utf8)
    => (shown.text # src.text
          <=> \E c \in LegacyBeforeUtf8 :
                DecodesStrictly(c, stdout) /\ ChineseCount(Decode(c, stdout)) > 0)

=============================================================================
