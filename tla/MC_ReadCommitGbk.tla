------------------------- MODULE MC_ReadCommitGbk -------------------------
(***************************************************************************)
(* read_commit_gbk.py over every message of up to three characters    *)
(* drawn from 'A', U+66F4 and U+65B0, the empty message and pure ASCII     *)
(* included, stored as GBK, UTF-8 or Big5 (Big5 bytes are the ones that    *)
(* reach the latin-1 branch).                                              *)
(***************************************************************************)
EXTENDS ReadCommitGbk, CodecTables

MCMessages     == SeqOf(MsgChars, 3)
MCSourceCodecs == {"gbk", "utf-8", "big5"}

=============================================================================
