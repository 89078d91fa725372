-------------------------- MODULE MC_ViewCommitGbk --------------------------
(***************************************************************************)
(* view_commit_gbk.py over every message of up to two characters drawn   *)
(* from 'A', U+66F4, U+65B0, stored as GBK or UTF-8; U+66F4 U+65B0 is    *)
(* the word whose mojibake the script looks for.                          *)
(***************************************************************************)
EXTENDS ViewCommitGbk, CodecTables

MCMessages     == SeqOf(MsgChars, 2)
MCSourceCodecs == {"gbk", "utf-8"}

=============================================================================
