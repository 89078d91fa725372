------------------------- MODULE MC_RoundTripRepair -------------------------
(***************************************************************************)
(* The round-trip repair over every message of up to two characters and  *)
(* one 24-character message whose twice-garbled form has more than 50    *)
(* ideographs, so the success announcement is reached with the scripts'  *)
(* own threshold.                                                          *)
(***************************************************************************)
EXTENDS RoundTripRepair, CodecTables

MCMessages     == SeqOf(MsgChars, 2) \cup {LongMessage}
MCSourceCodecs == {"gbk", "utf-8"}

=============================================================================
