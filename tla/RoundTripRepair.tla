---------------------------- MODULE RoundTripRepair ----------------------------
(***************************************************************************)
(* The "reverse one mis-decoding" repair four scripts share:              *)
(*   garbled text -> .encode('utf-8', errors='replace')                   *)
(*                -> .decode('gbk', errors='replace')                     *)
(* with the garbled text taken from one of two places:                    *)
(*  - git: git log output read with encoding='utf-8', errors='replace'    *)
(*    (src/py/fix_commit_encoding.py; the same steps are method 2 of      *)
(*    src/py/decode_commit_gbk.py);                                        *)
(*  - literal: a string pasted into the script (src/final_fix_commit.py,  *)
(*    src/py/fix_encoding_reverse.py).  The repository's literal is what  *)
(*    a UTF-8 message looks like through a GBK console: GBK-decoded UTF-8 *)
(*    bytes; the model produces it that way from the author's message.   *)
(* On the literal path the scripts then count the ideographs of the       *)
(* result.  Above 50, fix_encoding_reverse.py announces success (51-55);  *)
(* final_fix_commit.py instead warns that, should the text still look    *)
(* wrong, the message was damaged when stored (53-60).                    *)
(* The git log header lines are ASCII and are left out.                   *)
(***************************************************************************)
EXTENDS Codecs

CONSTANTS
  Messages,      \* commit messages the author may have written
  SourceCodecs,  \* codecs a commit message may have been stored in
  None

VARIABLES
  pc,            \* "start", "encode", "decode", "judge", "done"
  path,          \* where the garbled text came from: "git", or the literal
                 \* of "reverse" (fix_encoding_reverse) or "final"
                 \* (final_fix_commit)
  src,           \* ghost: [codec, text] the author wrote
  git_bytes,     \* the bytes git wrote, before subprocess decoded them
  garbled_text,
  utf8_bytes,
  fixed_text,
  verdict        \* "looks_fixed" once fix_encoding_reverse announces
                 \* success, "warned" once final_fix_commit warns

vars == <<pc, path, src, git_bytes, garbled_text, utf8_bytes, fixed_text, verdict>>

(* The threshold of fix_encoding_reverse.py:53 and final_fix_commit.py:56 *)
SuccessThreshold == 50

(* Mutant: git's output is read as latin-1, as other scripts do.         *)
FetchFromGitLatin1 ==
  /\ pc = "start"
  /\ \E codec \in SourceCodecs, text \in Messages :
       /\ src' = [codec |-> codec, text |-> text]
       /\ git_bytes' = Encode(codec, text)
       /\ garbled_text' = Encode(codec, text)
  /\ path' = "git"
  /\ pc' = "encode"
  /\ UNCHANGED <<utf8_bytes, fixed_text, verdict>>

(* fix_commit_encoding.py 17-24: subprocess.run(..., encoding='utf-8',    *)
(* errors='replace').stdout of git log for a commit stored in codec.      *)
FetchFromGit ==
  /\ pc = "start"
  /\ \E codec \in SourceCodecs, text \in Messages :
       /\ src' = [codec |-> codec, text |-> text]
       /\ git_bytes' = Encode(codec, text)
       /\ garbled_text' = Utf8Decode(Encode(codec, text))
  /\ path' = "git"
  /\ pc' = "encode"
  /\ UNCHANGED <<utf8_bytes, fixed_text, verdict>>

(* The pasted text: a UTF-8 message as a GBK console shows it.           *)
GarbledLiteral(text) == Decode("gbk", Utf8Encode(text))

(* fix_encoding_reverse.py 16-20 / final_fix_commit.py 14-18: the script  *)
(* starts from its literal.                                                *)
TakeGarbledLiteral ==
  /\ pc = "start"
  /\ \E text \in Messages, script \in {"reverse", "final"} :
       /\ src' = [codec |-> Utf8, text |-> text]
       /\ garbled_text' = GarbledLiteral(text)
       /\ path' = script
  /\ pc' = "encode"
  /\ UNCHANGED <<git_bytes, utf8_bytes, fixed_text, verdict>>

(* Mutant: the .encode call is forgotten and the text itself is passed on *)
ReencodeForgotten ==
  /\ pc = "encode"
  /\ utf8_bytes' = garbled_text
  /\ pc' = "decode"
  /\ UNCHANGED <<path, src, git_bytes, garbled_text, fixed_text, verdict>>

(* utf8_bytes = garbled_text.encode('utf-8', errors='replace')            *)
Reencode ==
  /\ pc = "encode"
  /\ utf8_bytes' = Utf8Encode(garbled_text)
  /\ pc' = "decode"
  /\ UNCHANGED <<path, src, git_bytes, garbled_text, fixed_text, verdict>>

(* Mutant: the bytes are decoded with the codec they were encoded with.  *)
DecodeAsUtf8 ==
  /\ pc = "decode"
  /\ fixed_text' = Decode(Utf8, utf8_bytes)
  /\ pc' = IF path = "git" THEN "done" ELSE "judge"
  /\ UNCHANGED <<path, src, git_bytes, garbled_text, utf8_bytes, verdict>>

(* fixed_text = utf8_bytes.decode('gbk', errors='replace'), then printed; *)
(* the git script ends here.  The except branches are unreachable.        *)
DecodeAsGbk ==
  /\ pc = "decode"
  /\ fixed_text' = Decode("gbk", utf8_bytes)
  /\ pc' = IF path = "git" THEN "done" ELSE "judge"
  /\ UNCHANGED <<path, src, git_bytes, garbled_text, utf8_bytes, verdict>>

(* fix_encoding_reverse.py 51-54: count the ideographs, claim success     *)
(* above the threshold.                                                    *)
Judge ==
  /\ pc = "judge"
  /\ path = "reverse"
  /\ verdict' = IF ChineseCount(fixed_text) > SuccessThreshold
                THEN "looks_fixed" ELSE None
  /\ pc' = "done"
  /\ UNCHANGED <<path, src, git_bytes, garbled_text, utf8_bytes, fixed_text>>

(* final_fix_commit.py 53-60: count the ideographs; above the threshold  *)
(* print the first 30 and the warning that the message may have been      *)
(* damaged when stored.                                                    *)
JudgeFinal ==
  /\ pc = "judge"
  /\ path = "final"
  /\ verdict' = IF ChineseCount(fixed_text) > SuccessThreshold
                THEN "warned" ELSE None
  /\ pc' = "done"
  /\ UNCHANGED <<path, src, git_bytes, garbled_text, utf8_bytes, fixed_text>>

Init ==
  /\ pc = "start"
  /\ path = None
  /\ src = [codec |-> None, text |-> <<>>]
  /\ git_bytes = <<>>
  /\ garbled_text = <<>>
  /\ utf8_bytes = <<>>
  /\ fixed_text = <<>>
  /\ verdict = None

Next ==
  \/ FetchFromGit \/ TakeGarbledLiteral
  \/ Reencode \/ DecodeAsGbk \/ Judge \/ JudgeFinal

Spec == Init /\ [][Next]_vars

-----------------------------------------------------------------------------
TypeOK ==
  /\ pc \in {"start", "encode", "decode", "judge", "done"}
  /\ path \in {"git", "reverse", "final", None}
  /\ garbled_text \in Seq(Nat) /\ fixed_text \in Seq(Nat)
  /\ git_bytes \in Seq(0..255) /\ utf8_bytes \in Seq(0..255)
  /\ verdict \in {"looks_fixed", "warned", None}

(* fix_commit_encoding.py 39-41 ("these bytes should be the original     *)
(* bytes"): re-encoding the decoded git output gives back exactly the     *)
(* bytes git wrote when those were UTF-8, and never when the message was  *)
(* stored as GBK with a non-ASCII character: errors='replace' at line 21  *)
(* has already thrown those bytes away.                                    *)
ReencodeRestoresGitBytes ==
  (path = "git" /\ pc \in {"decode", "judge", "done"})
     => (utf8_bytes = git_bytes
           <=> (src.codec = Utf8 \/ \A i \in DOMAIN src.text : src.text[i] < 128))

(* spec.md section 8, round-trip mode: on text produced by reading        *)
(* legacy (GBK) bytes as UTF-8, which is what fix_commit_encoding.py      *)
(* reads from git for a GBK-stored message with a non-ASCII character,    *)
(* re-encoding to UTF-8 and decoding as GBK strictly raises the count of  *)
(* ideographs over leaving the text as read.                               *)
RoundTripRaisesCount ==
  (/\ path = "git" /\ pc = "done"
   /\ src.codec = "gbk" /\ \E i \in DOMAIN src.text : src.text[i] >= 128)
     => ChineseCount(fixed_text) > ChineseCount(garbled_text)

(* fix_encoding_reverse.py:54 prints "looks like the repair succeeded"    *)
(* when the count passes 50: the text it then shows should be the         *)
(* author's message.                                                       *)
ClaimedFixIsMessage ==
  verdict = "looks_fixed" => fixed_text = src.text

=============================================================================
