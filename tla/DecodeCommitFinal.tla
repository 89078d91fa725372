--------------------------- MODULE DecodeCommitFinal ---------------------------
(***************************************************************************)
(* src/py/decode_commit_final.py: read the raw HEAD commit object, cut    *)
(* the message after the first blank line, decode it with every codec of  *)
(* the fixed candidate list (errors='replace'), keep the candidate with   *)
(* the most CJK ideographs (strict >, so the first-listed wins a tie and  *)
(* nothing is kept while every count is 0) and print it.                 *)
(*                                                                         *)
(* The object git prints is Header, a blank line and the message bytes.  *)
(* Which codec the author's tools used to store the message, and the      *)
(* message, are recorded in the ghost variable src; the program never     *)
(* reads it.                                                               *)
(***************************************************************************)
EXTENDS Codecs

CONSTANTS
  Messages,      \* commit messages the author may have written (texts)
  SourceCodecs,  \* codecs a commit message may have been stored in
  Header,        \* header lines of the commit object, each ending in \n
  None,          \* Python's None
  NoConfidentRecovery  \* the engine's answer in the refinement mapping below

VARIABLES
  pc,                \* "fetch", "extract", "loop", "done"
  src,               \* ghost: [codec, text] the commit was written with
  raw_bytes,         \* stdout of git cat-file -p HEAD
  commit_msg_bytes,
  idx,               \* position of the for loop in encodings
  best_result,
  best_encoding,
  max_chinese_chars

vars == <<pc, src, raw_bytes, commit_msg_bytes, idx, best_result,
          best_encoding, max_chinese_chars>>

(* The candidate list, in the program's order: <<codec, display name>>.   *)
encodings == << <<"gbk", "GBK">>, <<"gb2312", "GB2312">>,
                <<"gb18030", "GB18030">>, <<"utf-8", "UTF-8">>,
                <<"big5", "Big5">> >>

(* Bytes and text the program can hold.                                   *)
Bytes == Seq(0..255)

(* subprocess.run(['git', 'cat-file', '-p', 'HEAD']).stdout               *)
Fetch ==
  /\ pc = "fetch"
  /\ \E codec \in SourceCodecs, text \in Messages :
       /\ src' = [codec |-> codec, text |-> text]
       /\ raw_bytes' = Header \o <<10>> \o Encode(codec, text)
  /\ pc' = "extract"
  /\ UNCHANGED <<commit_msg_bytes, idx, best_result, best_encoding,
                 max_chinese_chars>>

(* Mutant: the slice starts one byte early (+1 instead of +2).            *)
ExtractMessageOffByOne ==
  LET commit_msg_start == Find(raw_bytes, <<10, 10>>) + 1
  IN /\ pc = "extract"
     /\ commit_msg_bytes' = IF commit_msg_start > 1
                            THEN SubSeq(raw_bytes, commit_msg_start + 1, Len(raw_bytes))
                            ELSE raw_bytes
     /\ pc' = "loop"
     /\ UNCHANGED <<src, raw_bytes, idx, best_result, best_encoding,
                    max_chinese_chars>>

(* commit_msg_start = raw_bytes.find(b'\n\n') + 2; slice if > 1.          *)
ExtractMessage ==
  LET commit_msg_start == Find(raw_bytes, <<10, 10>>) + 2
  IN /\ pc = "extract"
     /\ commit_msg_bytes' = IF commit_msg_start > 1
                            THEN SubSeq(raw_bytes, commit_msg_start + 1, Len(raw_bytes))
                            ELSE raw_bytes
     /\ pc' = "loop"
     /\ UNCHANGED <<src, raw_bytes, idx, best_result, best_encoding,
                    max_chinese_chars>>

(* Mutants of one loop iteration: a tie replaces the best (>=), the new  *)
(* maximum is not recorded, the codec id is stored instead of its name,  *)
(* the display threshold of line 66 (> 10) also gates the selection.     *)
TryEncodingMutant(keep(_, _), record_max, name_field) ==
  LET decoded       == Decode(encodings[idx][1], commit_msg_bytes)
      chinese_count == ChineseCount(decoded)
  IN /\ pc = "loop"
     /\ idx <= Len(encodings)
     /\ IF keep(chinese_count, max_chinese_chars)
        THEN /\ max_chinese_chars' = IF record_max THEN chinese_count
                                                  ELSE max_chinese_chars
             /\ best_result' = decoded
             /\ best_encoding' = encodings[idx][name_field]
        ELSE UNCHANGED <<max_chinese_chars, best_result, best_encoding>>
     /\ idx' = idx + 1
     /\ UNCHANGED <<pc, src, raw_bytes, commit_msg_bytes>>

TryEncodingTieReplaces == TryEncodingMutant(LAMBDA c, m : c >= m /\ c > 0, TRUE, 2)
TryEncodingMaxNotKept  == TryEncodingMutant(LAMBDA c, m : c > m, FALSE, 2)
TryEncodingCodecId     == TryEncodingMutant(LAMBDA c, m : c > m, TRUE, 1)
TryEncodingThreshold   == TryEncodingMutant(LAMBDA c, m : c > m /\ c > 10, TRUE, 2)

(* One iteration of the for loop: decode, count, keep if strictly more.   *)
(* The except branch is unreachable: every listed codec exists and        *)
(* errors='replace' never raises.                                          *)
TryEncoding ==
  LET decoded       == Decode(encodings[idx][1], commit_msg_bytes)
      chinese_count == ChineseCount(decoded)
  IN /\ pc = "loop"
     /\ idx <= Len(encodings)
     /\ IF chinese_count > max_chinese_chars
        THEN /\ max_chinese_chars' = chinese_count
             /\ best_result' = decoded
             /\ best_encoding' = encodings[idx][2]
        ELSE UNCHANGED <<max_chinese_chars, best_result, best_encoding>>
     /\ idx' = idx + 1
     /\ UNCHANGED <<pc, src, raw_bytes, commit_msg_bytes>>

(* Loop exhausted: print best_result, or the not-found message when it is *)
(* None.  Printing changes no state.                                       *)
Report ==
  /\ pc = "loop"
  /\ idx > Len(encodings)
  /\ pc' = "done"
  /\ UNCHANGED <<src, raw_bytes, commit_msg_bytes, idx, best_result,
                 best_encoding, max_chinese_chars>>

Init ==
  /\ pc = "fetch"
  /\ src = [codec |-> None, text |-> <<>>]
  /\ raw_bytes = <<>>
  /\ commit_msg_bytes = <<>>
  /\ idx = 1
  /\ best_result = None
  /\ best_encoding = None
  /\ max_chinese_chars = 0

Next == Fetch \/ ExtractMessage \/ TryEncoding \/ Report

Spec == Init /\ [][Next]_vars /\ WF_vars(Next)

-----------------------------------------------------------------------------
(* Derived views used by the properties.                                  *)

Score(k) == ChineseCount(Decode(encodings[k][1], commit_msg_bytes))

Tried == IF pc \in {"loop", "done"} THEN 1..(idx - 1) ELSE {}

DisplayName(codec) == encodings[SelectInSeq(encodings, LAMBDA e : e[1] = codec)][2]

TypeOK ==
  /\ pc \in {"fetch", "extract", "loop", "done"}
  /\ raw_bytes \in Bytes /\ commit_msg_bytes \in Bytes
  /\ idx \in 1..(Len(encodings) + 1)
  /\ best_result \in Seq(Nat) \cup {None}
  /\ best_encoding \in {e[2] : e \in Range(encodings)} \cup {None}
  /\ max_chinese_chars \in Nat

(* The message the loop decodes is exactly the message the author stored: *)
(* the find/+2/slice arithmetic of lines 23-27 drops the header and the   *)
(* blank line and nothing else.                                           *)
MessageExtracted ==
  pc \in {"loop", "done"} => commit_msg_bytes = Encode(src.codec, src.text)

(* Loop invariant of the selection: after trying a prefix of the list,    *)
(* max_chinese_chars is the largest count seen, and best_encoding /       *)
(* best_result belong to the FIRST candidate reaching it (None while the  *)
(* largest count is 0).                                                   *)
BestIsFirstMaximum ==
  LET top   == IF Tried = {} THEN 0 ELSE Max({Score(k) : k \in Tried})
      first == Min({k \in Tried : Score(k) = top} \cup {Len(encodings) + 1})
  IN /\ max_chinese_chars = top
     /\ top = 0 => best_encoding = None /\ best_result = None
     /\ top > 0 => /\ best_encoding = encodings[first][2]
                   /\ best_result = Decode(encodings[first][1], commit_msg_bytes)

(* Spec, section 8: a message stored in the legacy codec listed first     *)
(* (GBK) that contains ideographs is recovered: GBK is chosen and its     *)
(* text is the author's message.  No other candidate may out-count GBK on *)
(* GBK bytes.                                                              *)
LegacySourceRecovered ==
  (pc = "done" /\ src.codec = "gbk" /\ ChineseCount(src.text) > 0)
     => best_encoding = "GBK" /\ best_result = src.text

-----------------------------------------------------------------------------
(* Refinement.  The engine's input is the sliced message once extracted;  *)
(* its result is what the script prints at the end: the best candidate   *)
(* (the display name mapped back to the codec), or, when best_encoding   *)
(* is still None, the "not found" line, which is the caller-level        *)
(* NoConfidentRecovery.  Fetch is a stuttering step of the engine,       *)
(* ExtractMessage is Receive, the loop stutters, and Report is Recover.  *)
CodecOf(name) == encodings[SelectInSeq(encodings, LAMBDA e : e[2] = name)][1]

Engine == INSTANCE RecoveryEngine WITH
  Candidates          <- [k \in DOMAIN encodings |-> encodings[k][1]],
  Inputs              <- {Encode(c, t) : c \in SourceCodecs, t \in Messages},
  raw    <- IF pc \in {"loop", "done"} THEN commit_msg_bytes ELSE None,
  result <- CASE pc # "done"         -> None
              [] best_encoding = None -> NoConfidentRecovery
              [] OTHER -> [codec |-> CodecOf(best_encoding), text |-> best_result]

(* decode_commit_final.py implements the engine of spec.md section 4.1:  *)
(* every step of the script is a step of the engine or leaves its state  *)
(* alone, what it prints is the first candidate with the most ideographs *)
(* (or nothing found when no candidate has one), and, the script running *)
(* straight through, it always gets to print it.                         *)
(* Engine!Spec is checked as its safety part and Engine!Answers, which  *)
(* is equivalent to its fairness condition (see RecoveryEngine).         *)
RecoveryEngineImplemented ==
  Engine!Init /\ [][Engine!Next]_Engine!vars /\ Engine!Answers

=============================================================================
