------------------------ MODULE MC_DecodeCommitFinal ------------------------
(***************************************************************************)
(* decode_commit_final.py over every message of up to three characters  *)
(* drawn from 'A', U+66F4, U+65B0, stored as GBK or as UTF-8, behind a   *)
(* one-line header.  Three characters give every tie, every misaligned   *)
(* pair and the all-zero case the candidate list meets.                   *)
(***************************************************************************)
EXTENDS DecodeCommitFinal, CodecTables

MCMessages     == SeqOf(MsgChars, 3)
MCSourceCodecs == {"gbk", "utf-8"}
MCHeader       == <<\h74, 10>>   \* "t\n": a header line

=============================================================================
