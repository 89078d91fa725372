------------------------- MODULE MC_ReadGitRawGbk -------------------------
(***************************************************************************)
(* read_git_raw_gbk.py over every message of up to three characters    *)
(* drawn from 'A', U+66F4 and U+65B0, the empty message and pure ASCII     *)
(* included, stored as GBK or UTF-8.                                       *)
(***************************************************************************)
EXTENDS ReadGitRawGbk, CodecTables

MCMessages     == SeqOf(MsgChars, 3)
MCSourceCodecs == {"gbk", "utf-8"}

=============================================================================
