---------------------------- MODULE MC_CrawlDrugData ----------------------------
(***************************************************************************)
(* crawl_drug_data.py with the crawl returning 0, 49, 50 or 101 drugs:  *)
(* a failed request, the fallback, both sides of the threshold        *)
(* of 50, and the cut at 100.                                             *)
(* Table rows: one of four cells whose texts hold a quote and a trailing *)
(* backslash, one of three cells (no manufacturer), and the two a table  *)
(* drops (an empty name, two cells).                                       *)
(* Pages: every JSON object with a "data" member, alone or after a       *)
(* "name" member, whose value is a string, null, an object of at most    *)
(* one member, or an array of at most two of these; an object holding    *)
(* such an object under "name"; and two small such objects in a row.     *)
(* Of the fallback's random fields only the spec's unit and the form     *)
(* decide anything (the unit chain), so one amount, one count and one    *)
(* manufacturer are drawn and all four units and eight forms are.        *)
(***************************************************************************)
EXTENDS CrawlDrugData

\* 'a', the quote, the backslash and U+7247 U+5242 (tablet, 片剂).
MCTableRows ==
  { <<<<97, 92>>, <<39>>, <<>>, <<39, 97>>>>,
    <<<<39>>, <<29255, 21058>>, <<97>>>>,
    <<<<>>, <<97>>, <<97>>>>,
    <<<<97>>, <<97>>>> }

(* page.text from a JSON value.                                           *)
RECURSIVE Serialize(_)
Serialize(v) ==
  LET Join(parts) == FlattenSeq([k \in DOMAIN parts |->
                                   IF k = 1 THEN parts[k] ELSE <<TokComma>> \o parts[k]])
  IN CASE v.kind \in {"str", "null"} -> <<v.tok>>
       [] v.kind = "array"  -> <<TokLBrack>> \o Join([k \in DOMAIN v.items |-> Serialize(v.items[k])])
                                 \o <<TokRBrack>>
       [] v.kind = "object" -> <<TokLBrace>> \o Join([k \in DOMAIN v.items |->
                                   <<v.keys[k], TokColon>> \o Serialize(v.items[k])]) \o <<TokRBrace>>

Scalars      == {StrV(s) : s \in StringTokens} \cup {NullV}
SmallObjects == {ObjV(<<>>, <<>>)} \cup {ObjV(<<k>>, <<s>>) : k \in {StrName, StrData}, s \in Scalars}
Elements     == Scalars \cup SmallObjects
Arrays       == {ArrV(s) : s \in SeqOf(Elements, 2)}
Members      == Elements \cup Arrays

Docs ==
  {ObjV(<<StrData>>, <<v>>) : v \in Members}
  \cup {ObjV(<<StrName, StrData>>, <<e, v>>) : e \in Elements, v \in Members}
  \cup {ObjV(<<StrData, StrName>>, <<v, e>>) : e \in Elements, v \in Members}
  \cup {ObjV(<<StrName>>, <<ObjV(<<StrData>>, <<a>>)>>) : a \in Arrays}

SmallDocs == {ObjV(<<StrData>>, <<v>>) : v \in Elements \cup {ArrV(<<e>>) : e \in Elements}}

MCPages == {Serialize(d) : d \in Docs} \cup {Serialize(d1) \o Serialize(d2) : d1, d2 \in SmallDocs}

MCCrawlSizes == {0, 49, 50, 101}

MCRandomSpecs == {SpecAmounts[1] \o <<42>> \o Digits(SpecCounts[1]) \o u : u \in Range(SpecUnits)}

MCFallbackManufacturers == {manufacturers[1]}

\* Both crawl paths yield items, so both reach the loop.
ASSUME TableItems # {} /\ JsonItems # {}

=============================================================================
