--------------------------- MODULE CrawlPharnexcloud ---------------------------
(***************************************************************************)
(* What crawl_pharnexcloud (src/crawl_drug_data.py, lines 63-114) makes  *)
(* of a page: the drugs of its HTML tables, or, when the tables give      *)
(* none, the items of every "data" list the JSON regex of line 97 finds   *)
(* and json.loads accepts.                                                 *)
(*                                                                         *)
(* A table row is the sequence of its cells' stripped texts.  The page    *)
(* text the regex and json.loads read is a sequence of JSON tokens; a     *)
(* string token stands for its characters, so a regex `"data"` is the     *)
(* token StrData and a `}` is TokRBrace or the closing brace inside the   *)
(* string StrBrace.  No string token holds a `{`.  Whitespace, which both *)
(* the regex (re.DOTALL) and json.loads skip, is left out.                *)
(***************************************************************************)
EXTENDS Integers, Sequences, SequencesExt

CONSTANTS
  TableRows,   \* rows a table of the page may hold, as sequences of texts
  Pages,       \* page texts, as sequences of tokens
  None, Missing, NotADict

TokLBrace == "{"
TokRBrace == "}"
TokLBrack == "["
TokRBrack == "]"
TokComma  == ","
TokColon  == ":"
TokNull   == "null"
StrData   == "\"data\""
StrName   == "\"name\""
StrA      == "\"a\""
StrBrace  == "\"}\""
StringTokens == {StrData, StrName, StrA, StrBrace}

(* The characters a `}` of the regex matches, and a string's text.        *)
CloseTokens == {TokRBrace, StrBrace}
TokText(s) ==
  CASE s = StrData -> <<100, 97, 116, 97>>
    [] s = StrName -> <<110, 97, 109, 101>>
    [] s = StrA    -> <<97>>
    [] s = StrBrace -> <<125>>

(* Lines 83-92: a row with at least three cells and a non-empty name      *)
(* becomes a drug; the fourth cell, if any, is the manufacturer.          *)
TableDrug(cells) ==
  [name |-> cells[1], form |-> cells[2], spec |-> cells[3],
   manufacturer |-> IF Len(cells) > 3 THEN cells[4] ELSE <<>>]
TableItems == {TableDrug(c) : c \in {c \in TableRows : Len(c) >= 3 /\ c[1] # <<>>}}

(* A parsed JSON value.  Strings keep their token; an array's elements   *)
(* and an object's values are in items, an object's keys in keys.        *)
StrV(s)     == [kind |-> "str", tok |-> s, items |-> <<>>, keys |-> <<>>]
NullV       == [kind |-> "null", tok |-> TokNull, items |-> <<>>, keys |-> <<>>]
ArrV(s)     == [kind |-> "array", tok |-> "", items |-> s, keys |-> <<>>]
ObjV(ks, s) == [kind |-> "object", tok |-> "", items |-> s, keys |-> ks]

FirstAt(t, p, S) ==
  LET ix == {i \in p..Len(t) : t[i] \in S} IN IF ix = {} THEN 0 ELSE Min(ix)

(* Mutant: the regex is greedy, \{.*"data".*\}.                           *)
RECURSIVE FindAllGreedy(_, _)
FindAllGreedy(t, p) ==
  LET i  == FirstAt(t, p, {TokLBrace})
      ks == {k \in (i + 1)..Len(t) : t[k] \in CloseTokens /\ \E j \in (i + 1)..(k - 1) : t[j] = StrData}
  IN IF i = 0 \/ ks = {} THEN <<>>
     ELSE <<SubSeq(t, i, Max(ks))>> \o FindAllGreedy(t, Max(ks) + 1)

(* Line 98, findall of \{.*?"data".*?\} from position p: a match starts   *)
(* at the first `{`, runs to the first "data" after it and ends at the    *)
(* first `}` after that; the search goes on after the match.  If no match *)
(* starts at the first `{`, none starts at a later one.                    *)
RECURSIVE FindAll(_, _)
FindAll(t, p) ==
  LET i == FirstAt(t, p, {TokLBrace})
      j == IF i = 0 THEN 0 ELSE FirstAt(t, i + 1, {StrData})
      k == IF j = 0 THEN 0 ELSE FirstAt(t, j + 1, CloseTokens)
  IN IF k = 0 THEN <<>> ELSE <<SubSeq(t, i, k)>> \o FindAll(t, k + 1)

(* json.loads as a parser of one value from position i: [ok, val, next]. *)
Fail == [ok |-> FALSE, val |-> NullV, next |-> 0]

RECURSIVE ParseValue(_, _), ParseElems(_, _, _), ParseMembers(_, _, _, _)
ParseValue(t, i) ==
  CASE i > Len(t) -> Fail
    [] t[i] \in StringTokens -> [ok |-> TRUE, val |-> StrV(t[i]), next |-> i + 1]
    [] t[i] = TokNull -> [ok |-> TRUE, val |-> NullV, next |-> i + 1]
    [] t[i] = TokLBrack /\ i < Len(t) /\ t[i + 1] = TokRBrack ->
         [ok |-> TRUE, val |-> ArrV(<<>>), next |-> i + 2]
    [] t[i] = TokLBrack -> ParseElems(t, i + 1, <<>>)
    [] t[i] = TokLBrace /\ i < Len(t) /\ t[i + 1] = TokRBrace ->
         [ok |-> TRUE, val |-> ObjV(<<>>, <<>>), next |-> i + 2]
    [] t[i] = TokLBrace -> ParseMembers(t, i + 1, <<>>, <<>>)
    [] OTHER -> Fail

ParseElems(t, i, acc) ==
  LET v == ParseValue(t, i) IN
  CASE ~v.ok \/ v.next > Len(t) -> Fail
    [] t[v.next] = TokComma -> ParseElems(t, v.next + 1, Append(acc, v.val))
    [] t[v.next] = TokRBrack ->
         [ok |-> TRUE, val |-> ArrV(Append(acc, v.val)), next |-> v.next + 1]
    [] OTHER -> Fail

ParseMembers(t, i, ks, acc) ==
  IF i + 2 > Len(t) \/ t[i] \notin StringTokens \/ t[i + 1] # TokColon THEN Fail
  ELSE LET v == ParseValue(t, i + 2) IN
       CASE ~v.ok \/ v.next > Len(t) -> Fail
         [] t[v.next] = TokComma ->
              ParseMembers(t, v.next + 1, Append(ks, t[i]), Append(acc, v.val))
         [] t[v.next] = TokRBrace ->
              [ok |-> TRUE, val |-> ObjV(Append(ks, t[i]), Append(acc, v.val)),
               next |-> v.next + 1]
         [] OTHER -> Fail

(* json.loads(match): the whole match is one value.                        *)
Loads(m) == LET r == ParseValue(m, 1) IN IF r.ok /\ r.next = Len(m) + 1 THEN r ELSE Fail

(* obj[key] for a key obj has: the last value given for it.               *)
HasKey(obj, key) == \E k \in DOMAIN obj.keys : obj.keys[k] = key
ValueAt(obj, key) == obj.items[Max({k \in DOMAIN obj.keys : obj.keys[k] = key})]

(* Lines 101-105: what one match adds to drugs; a match json.loads       *)
(* rejects raises and is passed over.  A match starts with `{`, so what  *)
(* loads accepts is an object.                                             *)
DataItems(m) ==
  LET r == Loads(m)
  IN IF r.ok /\ HasKey(r.val, StrData) /\ ValueAt(r.val, StrData).kind = "array"
     THEN ValueAt(r.val, StrData).items ELSE <<>>

(* The Python value of a loaded item as the loop of generate_sql_insert  *)
(* sees it: a dict keeps its "name" (a string or None; the items of the  *)
(* pages have no other keys), anything else is NotADict.                   *)
ItemOf(v) ==
  IF v.kind # "object" THEN NotADict
  ELSE [name |-> IF ~HasKey(v, StrName) THEN Missing
                 ELSE IF ValueAt(v, StrName).kind = "null" THEN None
                 ELSE TokText(ValueAt(v, StrName).tok),
        form |-> Missing, spec |-> Missing, manufacturer |-> Missing]

(* Lines 95-105 on a page: every item of the matches' "data" lists.      *)
JsonDrugs(page) == LET ms == FindAll(page, 1) IN FlattenSeq([k \in DOMAIN ms |-> DataItems(ms[k])])
JsonItems == {ItemOf(v) : v \in UNION {Range(JsonDrugs(p)) : p \in Pages}}

=============================================================================
