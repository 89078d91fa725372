----------------------------- MODULE ReadCommitGbk -----------------------------
(***************************************************************************)
(* src/read_commit_gbk.py: decode git log's raw bytes strictly as GBK;   *)
(* on UnicodeDecodeError strictly as UTF-8; on a second error as latin-1 *)
(* with errors='replace'; print the text.  The ASCII header lines of the *)
(* log format are valid in every codec and are left out.                  *)
(***************************************************************************)
EXTENDS Codecs

CONSTANTS
  Messages,      \* commit messages the author may have written
  SourceCodecs,  \* codecs a commit message may have been stored in
  None

VARIABLES
  pc,            \* "fetch", "gbk", "utf8", "latin1", "done"
  src,           \* ghost: [codec, text] the author wrote
  stdout,
  text           \* what is printed, or None before it is

vars == <<pc, src, stdout, text>>

(* Lines 10-13.                                                            *)
Fetch ==
  /\ pc = "fetch"
  /\ \E codec \in SourceCodecs, msg \in Messages :
       /\ src' = [codec |-> codec, text |-> msg]
       /\ stdout' = Encode(codec, msg)
  /\ pc' = "gbk"
  /\ UNCHANGED text

(* Lines 16-20: strict GBK; an error falls to the UTF-8 branch.         *)
TryGbk ==
  /\ pc = "gbk"
  /\ IF DecodesStrictly("gbk", stdout)
     THEN /\ text' = Decode("gbk", stdout)
          /\ pc' = "done"
     ELSE /\ pc' = "utf8"
          /\ UNCHANGED text
  /\ UNCHANGED <<src, stdout>>

(* Mutant: the inner try decodes GBK again (a copy of the outer one).     *)
TryUtf8CopiedGbk ==
  /\ pc = "utf8"
  /\ IF DecodesStrictly("gbk", stdout)
     THEN /\ text' = Decode("gbk", stdout)
          /\ pc' = "done"
     ELSE /\ pc' = "latin1"
          /\ UNCHANGED text
  /\ UNCHANGED <<src, stdout>>

(* Lines 20-25: strict UTF-8; an error falls to latin-1.                *)
TryUtf8 ==
  /\ pc = "utf8"
  /\ IF DecodesStrictly(Utf8, stdout)
     THEN /\ text' = Decode(Utf8, stdout)
          /\ pc' = "done"
     ELSE /\ pc' = "latin1"
          /\ UNCHANGED text
  /\ UNCHANGED <<src, stdout>>

(* Mutant: the latin-1 branch prints without assigning text.              *)
UseLatin1Unassigned ==
  /\ pc = "latin1"
  /\ pc' = "done"
  /\ UNCHANGED <<src, stdout, text>>

(* Lines 25-28: latin-1 never fails.                                    *)
UseLatin1 ==
  /\ pc = "latin1"
  /\ text' = Decode("latin1", stdout)
  /\ pc' = "done"
  /\ UNCHANGED <<src, stdout>>

Init ==
  /\ pc = "fetch"
  /\ src = [codec |-> None, text |-> <<>>]
  /\ stdout = <<>>
  /\ text = None

Next == Fetch \/ TryGbk \/ TryUtf8 \/ UseLatin1

Spec == Init /\ [][Next]_vars

-----------------------------------------------------------------------------
TypeOK ==
  /\ pc \in {"fetch", "gbk", "utf8", "latin1", "done"}
  /\ stdout \in Seq(0..255)
  /\ text \in Seq(Nat) \cup {None}
  /\ (pc = "done") = (text # None)   \* print(text) has a text to print

(* The latin-1 fallback of lines 25-28 ("never fails, but may show      *)
(* wrongly") is reached only for a message stored in neither GBK nor      *)
(* UTF-8: strict GBK accepts GBK bytes and strict UTF-8 accepts UTF-8     *)
(* bytes, whichever characters the message holds.                         *)
Latin1OnlyForOtherCodecs ==
  pc = "latin1" => src.codec \notin {"gbk", Utf8}

=============================================================================
