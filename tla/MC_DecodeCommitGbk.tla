------------------------- MODULE MC_DecodeCommitGbk -------------------------
(***************************************************************************)
(* decode_commit_gbk.py over every message of up to three characters     *)
(* drawn from 'A', U+66F4, U+65B0 (the empty message and pure ASCII     *)
(* included: the inputs that reach method 2), stored as GBK or UTF-8.    *)
(***************************************************************************)
EXTENDS DecodeCommitGbk, CodecTables

MCMessages     == SeqOf(MsgChars, 3)
MCSourceCodecs == {"gbk", "utf-8"}

=============================================================================
