----------------------------- MODULE CodecTables -----------------------------
(***************************************************************************)
(* Model data for Codecs: the commit-message characters the models use,   *)
(* their GBK and Big5 bytes, and, for every double-byte codec the scripts *)
(* try, the byte pairs reachable from those characters with what CPython  *)
(* 3 decodes each pair to (Unmapped: the lead byte becomes U+FFFD).  The  *)
(* characters are 'A', U+66F4 and U+65B0 (the first word of the           *)
(* repository's garbled commit message); every entry was read off         *)
(* CPython's own codecs.  No reachable byte is an ASCII digit, so gb18030 *)
(* never meets one of its four-byte sequences and decodes like the other  *)
(* double-byte codecs.                                                     *)
(***************************************************************************)
EXTENDS Integers, TLC

LOCAL Unmapped == -1

MsgChars == {\h41, \h66F4, \h65B0}

(* U+66F4 U+65B0 repeated: 24 characters, long enough for the count of a  *)
(* twice-garbled text to pass the scripts' threshold of 50.               *)
LongMessage == [i \in 1..24 |-> IF i % 2 = 1 THEN \h66F4 ELSE \h65B0]

MCEncodeTables ==
  ("gbk" :> ((\h66F4 :> <<\hB8, \hFC>>) @@ (\h65B0 :> <<\hD0, \hC2>>))) @@
  ("big5" :> ((\h66F4 :> <<\hA7, \hF3>>) @@ (\h65B0 :> <<\hB7, \h73>>)))

GbkTable ==
  (<<\h82, \hE7>> :> \h509C) @@ (<<\h82, \hEF>> :> \h50A6) @@ (<<\h85, \h41>> :> \h5312) @@
  (<<\h85, \hE9>> :> \h5474) @@ (<<\h87, \hE5>> :> \h56E7) @@ (<<\h87, \hE7>> :> \h56E9) @@
  (<<\h87, \hEF>> :> \h56F7) @@ (<<\h89, \h88>> :> \h5897) @@ (<<\h8A, \h41>> :> \h593E) @@
  (<<\h8A, \hE9>> :> \h5A47) @@ (<<\h8F, \h82>> :> \h5F2C) @@ (<<\h8F, \h87>> :> \h5F34) @@
  (<<\h93, \h73>> :> \h6412) @@ (<<\h96, \hB0>> :> \h67CA) @@ (<<\h98, \hE6>> :> \h6A3B) @@
  (<<\h99, \h86>> :> \h6AB0) @@ (<<\h9B, \h41>> :> \h6C5A) @@ (<<\h9B, \hB4>> :> \h6D3F) @@
  (<<\h9B, \hE7>> :> \h6D9A) @@ (<<\h9B, \hEF>> :> \h6DB3) @@ (<<\h9D, \h41>> :> \h6EF1) @@
  (<<\h9D, \hE7>> :> \h6FC8) @@ (<<\h9D, \hEF>> :> \h6FD3) @@ (<<\h9E, \hAB>> :> \h705A) @@
  (<<\h9F, \h8A>> :> \h7140) @@ (<<\hA0, \h93>> :> \h7234) @@ (<<\hA2, \h85>> :> Unmapped) @@
  (<<\hA7, \hF3>> :> Unmapped) @@ (<<\hA9, \h9B>> :> Unmapped) @@ (<<\hA9, \h9D>> :> Unmapped) @@
  (<<\hAB, \hEF>> :> Unmapped) @@ (<<\hAD, \h98>> :> \h74E8) @@ (<<\hB0, \h41>> :> \h7646) @@
  (<<\hB0, \hE6>> :> \h7248) @@ (<<\hB4, \h41>> :> \h7885) @@ (<<\hB4, \hE6>> :> \h5B58) @@
  (<<\hB7, \h73>> :> \h7A5D) @@ (<<\hB8, \hEF>> :> \h9769) @@ (<<\hB8, \hFC>> :> \h66F4) @@
  (<<\hBD, \h41>> :> \h7D38) @@ (<<\hBD, \h73>> :> \h7D6A) @@ (<<\hBD, \hC2>> :> \h94F0) @@
  (<<\hBD, \hE8>> :> \h501F) @@ (<<\hBD, \hE9>> :> \h4ECB) @@ (<<\hBD, \hEF>> :> \h65A4) @@
  (<<\hBF, \h41>> :> \h7DFC) @@ (<<\hBF, \hBD>> :> \h62F7) @@ (<<\hBF, \hE9>> :> \h5757) @@
  (<<\hD0, \hC2>> :> \h65B0) @@ (<<\hE5, \hAD>> :> \h701B) @@ (<<\hE6, \h96>> :> \h93C2) @@
  (<<\hE6, \h9B>> :> \h93C7) @@ (<<\hE6, \h9F>> :> \h93CC) @@ (<<\hE6, \hB4>> :> \h5A32) @@
  (<<\hE7, \hA9>> :> \h7ECC) @@ (<<\hE8, \h9E>> :> \h94FB) @@ (<<\hE8, \hA0>> :> \h9520) @@
  (<<\hE9, \h8F>> :> \h95BA) @@ (<<\hE9, \hA9>> :> \h6939) @@ (<<\hEF, \hBF>> :> \h951F) @@
  (<<\hF3, \h41>> :> \h9A5B) @@ (<<\hF3, \hA7>> :> \h87AB) @@ (<<\hF3, \hB7>> :> \h8813)

Gb2312Table ==
  (<<\h96, \hB0>> :> Unmapped) @@ (<<\h9B, \hB4>> :> Unmapped) @@ (<<\hA7, \hF3>> :> Unmapped) @@
  (<<\hB0, \h41>> :> Unmapped) @@ (<<\hB0, \hE6>> :> \h7248) @@ (<<\hB4, \h41>> :> Unmapped) @@
  (<<\hB4, \hE6>> :> \h5B58) @@ (<<\hB7, \h73>> :> Unmapped) @@ (<<\hB8, \hFC>> :> \h66F4) @@
  (<<\hD0, \hC2>> :> \h65B0) @@ (<<\hE6, \h96>> :> Unmapped) @@ (<<\hE6, \h9B>> :> Unmapped) @@
  (<<\hF3, \h41>> :> Unmapped) @@ (<<\hF3, \hA7>> :> \h87AB) @@ (<<\hF3, \hB7>> :> \h8813)

Gb18030Table ==
  (<<\h96, \hB0>> :> \h67CA) @@ (<<\h9B, \hB4>> :> \h6D3F) @@ (<<\hA7, \hF3>> :> \hE7B0) @@
  (<<\hB0, \h41>> :> \h7646) @@ (<<\hB0, \hE6>> :> \h7248) @@ (<<\hB4, \h41>> :> \h7885) @@
  (<<\hB4, \hE6>> :> \h5B58) @@ (<<\hB7, \h73>> :> \h7A5D) @@ (<<\hB8, \hFC>> :> \h66F4) @@
  (<<\hD0, \hC2>> :> \h65B0) @@ (<<\hE6, \h96>> :> \h93C2) @@ (<<\hE6, \h9B>> :> \h93C7)

Big5Table ==
  (<<\h96, \hB0>> :> Unmapped) @@ (<<\h9B, \hB4>> :> Unmapped) @@ (<<\hA7, \hF3>> :> \h66F4) @@
  (<<\hB0, \h41>> :> \h868A) @@ (<<\hB0, \hE6>> :> \h5533) @@ (<<\hB4, \h41>> :> \h5A9A) @@
  (<<\hB4, \hE6>> :> \h6E54) @@ (<<\hB7, \h73>> :> \h65B0) @@ (<<\hB8, \hFC>> :> \h8F09) @@
  (<<\hD0, \hC2>> :> \h9654) @@ (<<\hE6, \h96>> :> Unmapped) @@ (<<\hE6, \h9B>> :> Unmapped)

MCDbcsTables ==
  ("gbk" :> GbkTable) @@ ("gb2312" :> Gb2312Table) @@
  ("gb18030" :> Gb18030Table) @@ ("big5" :> Big5Table)

=============================================================================
