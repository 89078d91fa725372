----------------------------- MODULE ViewCommitGbk -----------------------------
(***************************************************************************)
(* src/view_commit_gbk.py: get_commit_info decodes git log's bytes as GBK *)
(* (falling back to UTF-8, then latin-1, if that raises) and main, when   *)
(* the UTF-8 fallback was used and the text still holds the mojibake of   *)
(* the word U+66F4 U+65B0, repairs it by the round trip and keeps the     *)
(* repair if it has more ideographs.  The git log header lines are ASCII  *)
(* and are left out.                                                       *)
(***************************************************************************)
EXTENDS Codecs

CONSTANTS
  Messages,      \* commit messages the author may have written
  SourceCodecs,  \* codecs a commit message may have been stored in
  None

VARIABLES
  pc,            \* "get_info", "check", "repair", "done"
  src,           \* ghost: [codec, text] the author wrote
  text,
  encoding,
  outcome        \* None, "fixed" or "not_fixed" after the repair branch

vars == <<pc, src, text, encoding, outcome>>

(* '鏇存柊' (line 52): the UTF-8 bytes of U+66F4 U+65B0 read as GBK.     *)
Mojibake == <<\h93C7, \h5B58, \h67CA>>

(* get_commit_info, lines 17-27: raw_bytes.decode('gbk', errors='replace') *)
(* cannot raise, so the function always returns (text, 'GBK'); the       *)
(* UTF-8 and latin-1 fallbacks of lines 28-35 are unreachable.           *)
GetCommitInfo ==
  /\ pc = "get_info"
  /\ \E codec \in SourceCodecs, msg \in Messages :
       /\ src' = [codec |-> codec, text |-> msg]
       /\ text' = Decode("gbk", Encode(codec, msg))
  /\ encoding' = "GBK"
  /\ pc' = "check"
  /\ UNCHANGED outcome

(* main, line 52: attempt the repair only after the UTF-8 fallback and    *)
(* when the mojibake is present.                                           *)
CheckRepair ==
  /\ pc = "check"
  /\ pc' = IF encoding = "UTF-8" /\ Find(text, Mojibake) >= 0
           THEN "repair" ELSE "done"
  /\ UNCHANGED <<src, text, encoding, outcome>>

(* main, lines 57-69: round trip and keep it if it has more ideographs.   *)
Repair ==
  LET fixed_text == Decode("gbk", Utf8Encode(text))
  IN /\ pc = "repair"
     /\ outcome' = IF ChineseCount(fixed_text) > ChineseCount(text)
                   THEN "fixed" ELSE "not_fixed"
     /\ pc' = "done"
     /\ UNCHANGED <<src, text, encoding>>

Init ==
  /\ pc = "get_info"
  /\ src = [codec |-> None, text |-> <<>>]
  /\ text = <<>>
  /\ encoding = None
  /\ outcome = None

Next == GetCommitInfo \/ CheckRepair \/ Repair

Spec == Init /\ [][Next]_vars

-----------------------------------------------------------------------------
(* Comment of line 51, "if what is shown is still mojibake, try to repair *)
(* it": a displayed text holding the mojibake goes through the repair.    *)
MojibakeIsRepaired ==
  (pc = "done" /\ Find(text, Mojibake) >= 0) => outcome # None

=============================================================================
