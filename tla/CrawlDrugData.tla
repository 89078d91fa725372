----------------------------- MODULE CrawlDrugData -----------------------------
(***************************************************************************)
(* src/crawl_drug_data.py, main: get_common_drugs (the crawl, or the      *)
(* built-in fallback when the crawl yields fewer than 50 drugs), then     *)
(* generate_sql_insert, one INSERT per drug, then the file is written.    *)
(* A row that raises (a crawled item that is not an object, a null name   *)
(* or spec) ends the script with a traceback before anything is written;  *)
(* of these only the first can come out of crawl_pharnexcloud.            *)
(*                                                                         *)
(* Text is a sequence of code points; `kw in s` is a substring test.      *)
(* What the crawl returns is abstracted to its length (CrawlSizes), the   *)
(* path that produced it (table or JSON) and, per item, what that path   *)
(* makes of a page (CrawlPharnexcloud).  Each item, and each random field *)
(* of a fallback drug, is read exactly once, so it is drawn where the     *)
(* loop reads it.  Of a row only its text columns are kept; the codes,    *)
(* approval number and expiry date are quote-free and left out.           *)
(***************************************************************************)
EXTENDS Integers, Sequences, SequencesExt, FiniteSets, DrugData, CrawlPharnexcloud

CONSTANTS
  CrawlSizes,    \* lengths of the list crawl_pharnexcloud may return
  TableItem,     \* an entry of drugs holding an item of the page's tables
  JsonItem,      \* an entry of drugs holding an item of its JSON
  Random         \* a fallback field filled by random.choice

VARIABLES
  pc,        \* "get", "generate", "done", "aborted"
  crawled,   \* len(crawl_pharnexcloud())
  drugs,     \* what get_common_drugs returns
  index,     \* position of the loop of generate_sql_insert (from 1)
  row,       \* text columns of the row last generated, or None
  stmt       \* the characters written for those columns

vars == <<pc, crawled, drugs, index, row, stmt>>

Quote == 39
Backslash == 92
Comma == 44
NullWord == <<78, 85, 76, 76>>

(* Python's `kw in s` on two strings, and s[:k].                          *)
In(kw, s) == \E i \in 0..(Len(s) - Len(kw)) : SubSeq(s, i + 1, i + Len(kw)) = kw
AnyIn(kws, s) == \E k \in DOMAIN kws : In(kws[k], s)
Prefix(s, k) == SubSeq(s, 1, IF k < Len(s) THEN k ELSE Len(s))

(* str(n) for n >= 0.                                                      *)
RECURSIVE Digits(_)
Digits(n) == IF n < 10 THEN <<48 + n>> ELSE Digits(n \div 10) \o <<48 + (n % 10)>>

(* The spec f-string of line 169, and the manufacturers of line 170.     *)
RandomSpecs == {a \o <<42>> \o Digits(c) \o u :
                  a \in Range(SpecAmounts), c \in Range(SpecCounts), u \in Range(SpecUnits)}
FallbackManufacturers == Range(manufacturers)

(* crawl_pharnexcloud, lines 63-114, returning n drugs of one path: the  *)
(* table rows (lines 77-92), or, only when those give none, the JSON      *)
(* items (lines 95-105).  A failed request (lines 73, 108-112) returns    *)
(* nothing, which the fallback treats as any crawl short of 50.          *)
crawl_pharnexcloud(n, path) == [i \in 1..n |-> path]

(* get_common_drugs, lines 117-173: below 50 crawled drugs the crawl is  *)
(* discarded for COMMON_DRUGS extended by common_drug_names[:100 - 10];  *)
(* the result is cut to its first 100.                                    *)
NamedDrug(name) == [name |-> name, form |-> Random, spec |-> Random, manufacturer |-> Random]

FallbackDrugs ==
  COMMON_DRUGS \o
    [i \in 1..Len(Prefix(common_drug_names, 100 - Len(COMMON_DRUGS))) |->
       NamedDrug(common_drug_names[i])]

(* Mutant: the final cut drugs[:100] of line 173 is missing.            *)
GetCommonDrugsNoCut ==
  /\ pc = "get"
  /\ \E n \in CrawlSizes, path \in {TableItem, JsonItem} :
       /\ crawled' = n
       /\ drugs' = IF n < 50 THEN FallbackDrugs ELSE crawl_pharnexcloud(n, path)
  /\ pc' = "generate"
  /\ UNCHANGED <<index, row, stmt>>

(* Mutant: drugs = COMMON_DRUGS.copy() of line 125 is lost, so the names  *)
(* extend the short crawl instead of replacing it.                        *)
GetCommonDrugsKeepsCrawl ==
  /\ pc = "get"
  /\ \E n \in CrawlSizes, path \in {TableItem, JsonItem} :
       /\ crawled' = n
       /\ drugs' = Prefix(IF n >= 50 THEN crawl_pharnexcloud(n, path)
                          ELSE crawl_pharnexcloud(n, path) \o
                                 [i \in 1..(100 - n) |-> NamedDrug(common_drug_names[i])], 100)
  /\ pc' = "generate"
  /\ UNCHANGED <<index, row, stmt>>

GetCommonDrugs ==
  /\ pc = "get"
  /\ \E n \in CrawlSizes, path \in {TableItem, JsonItem} :
       /\ crawled' = n
       /\ drugs' = Prefix(IF n < 50 THEN FallbackDrugs ELSE crawl_pharnexcloud(n, path), 100)
  /\ pc' = "generate"
  /\ UNCHANGED <<index, row, stmt>>

(* The values entry e of drugs may hold when the loop reads it.           *)
Resolve(e) ==
  CASE e = TableItem   -> TableItems
    [] e = JsonItem    -> JsonItems
    [] e.form = Random -> {[e EXCEPT !.form = f, !.spec = s, !.manufacturer = m] :
                             f \in Range(forms), s \in RandomSpecs, m \in FallbackManufacturers}
    [] OTHER           -> {e}

(* drug.get(key, default)                                                  *)
Get(drug, key, default) == IF drug[key] = Missing THEN default ELSE drug[key]

(* Mutant: the else branch of line 186 is lost; the function returns None. *)
StorageNoElse(drug_name) ==
  CASE AnyIn(ColdKeywords, drug_name)    -> ColdChain
    [] AnyIn(CapsuleKeywords, drug_name) -> CoolDry
    [] OTHER                              -> None

(* determine_storage_requirement and determine_is_special, lines 180-192. *)
determine_storage_requirement(drug_name) ==
  CASE AnyIn(ColdKeywords, drug_name)    -> ColdChain
    [] AnyIn(CapsuleKeywords, drug_name) -> CoolDry
    [] OTHER                              -> Dry

determine_is_special(drug_name) == IF AnyIn(special_keywords, drug_name) THEN 1 ELSE 0

(* The unit chain of lines 226-235 from rule k on: the spec test, then    *)
(* the form test (`or` short-circuits); `in` on None raises TypeError.    *)
RECURSIVE UnitFrom(_, _, _)
UnitFrom(spec, form, k) ==
  CASE k > Len(UnitRules)           -> DefaultUnit
    [] spec = None                  -> None
    [] In(UnitRules[k][1], spec)    -> UnitRules[k][3]
    [] form = None                  -> None
    [] In(UnitRules[k][2], form)    -> UnitRules[k][3]
    [] OTHER                        -> UnitFrom(spec, form, k + 1)

(* Lines 213-235 for drug number i: the columns, or None if a line raises *)
(* (drug.get on a non-object, `in` on a null name or spec).               *)
RowOf(drug, i) ==
  IF drug = NotADict THEN None
  ELSE LET drug_name     == Get(drug, "name", DefaultNamePrefix \o Digits(i))
           dosage_form   == Get(drug, "form", DefaultForm)
           specification == Get(drug, "spec", <<>>)
           unit          == UnitFrom(specification, dosage_form, 1)
       IN IF drug_name = None \/ unit = None THEN None
          ELSE [drug_name |-> drug_name, dosage_form |-> dosage_form,
                specification |-> specification,
                manufacturer |-> Get(drug, "manufacturer", <<>>),
                storage_requirement |-> determine_storage_requirement(drug_name),
                is_special |-> determine_is_special(drug_name),
                unit |-> unit]

(* str.replace(c, r) for a one-character c.                               *)
ReplaceChar(value, c, r) ==
  FlattenSeq([i \in DOMAIN value |-> IF value[i] = c THEN r ELSE <<value[i]>>])

(* Mutant: the quote is escaped with a backslash instead of doubled.      *)
EscapeQuoteBackslash(value) ==
  IF value = None THEN NullWord
  ELSE <<Quote>> \o ReplaceChar(value, Quote, <<Backslash, Quote>>) \o <<Quote>>

(* escape_sql_string, lines 53-61: None -> NULL, text -> quoted with each *)
(* quote doubled; the backslash is left as it is.  Only text and None    *)
(* reach it from the text columns.                                        *)
escape_sql_string(value) ==
  IF value = None THEN NullWord
  ELSE <<Quote>> \o ReplaceChar(value, Quote, <<Quote, Quote>>) \o <<Quote>>

(* The text columns of the INSERT, in the order of lines 260-271.         *)
TextColumns(r) ==
  <<r.drug_name, r.dosage_form, r.specification, r.manufacturer,
    r.storage_requirement, r.unit>>

(* The row formatted into its INSERT: each text column escaped and        *)
(* followed by a comma.                                                    *)
InsertText(r) ==
  FlattenSeq([k \in 1..6 |-> escape_sql_string(TextColumns(r)[k]) \o <<Comma>>])

(* What iteration i of the loop of lines 209-277 gives for entry e of     *)
(* drugs: None when a line raises, else the row and its INSERT.  Only a   *)
(* crawled item's row depends on i (the default name), so the rows are    *)
(* tabulated per index for crawled items and per drug for the fallback;   *)
(* both are constants, computed once.                                      *)
Outcomes(e, i) ==
  {IF RowOf(d, i) = None THEN None
   ELSE [row |-> RowOf(d, i), stmt |-> InsertText(RowOf(d, i))] : d \in Resolve(e)}
CrawledChoices  == [p \in {TableItem, JsonItem} |-> [i \in 1..Max(CrawlSizes \cup {100}) |-> Outcomes(p, i)]]
FallbackChoices == [e \in Range(COMMON_DRUGS) \cup {NamedDrug(n) : n \in Range(common_drug_names)} |->
                      Outcomes(e, 1)]
RowChoices(e, i) == IF e \in {TableItem, JsonItem} THEN CrawledChoices[e][i] ELSE FallbackChoices[e]

(* One iteration of the loop that gets through.                           *)
GenerateRow ==
  /\ pc = "generate"
  /\ index <= Len(drugs)
  /\ \E c \in RowChoices(drugs[index], index) :
       /\ c # None
       /\ row' = c.row
       /\ stmt' = c.stmt
  /\ index' = index + 1
  /\ UNCHANGED <<pc, crawled, drugs>>

(* The same iteration when a line of it raises: the exception leaves      *)
(* generate_sql_insert and main, and the script ends before open().       *)
GenerateRowRaises ==
  /\ pc = "generate"
  /\ index <= Len(drugs)
  /\ None \in RowChoices(drugs[index], index)
  /\ pc' = "aborted"
  /\ UNCHANGED <<crawled, drugs, index, row, stmt>>

(* Lines 279-284 and 301-306: the loop is done, the statements are      *)
(* joined and written to drug_info_insert.sql.                             *)
WriteFile ==
  /\ pc = "generate"
  /\ index > Len(drugs)
  /\ pc' = "done"
  /\ UNCHANGED <<crawled, drugs, index, row, stmt>>

Init ==
  /\ pc = "get"
  /\ crawled = 0
  /\ drugs = <<>>
  /\ index = 1
  /\ row = None
  /\ stmt = <<>>

Next == GetCommonDrugs \/ GenerateRow \/ GenerateRowRaises \/ WriteFile

(* The script is one thread running straight through: a step it can take *)
(* is taken.                                                               *)
Spec == Init /\ [][Next]_vars /\ WF_vars(Next)

-----------------------------------------------------------------------------
(* Reference: the SQL lexer that reads the file back.  ReadLiteral(s, i,  *)
(* bs) reads the value at position i (NULL or a quoted literal; bs means  *)
(* backslash escapes are on) and returns [ok, value, next].               *)
RECURSIVE QuotedBody(_, _, _, _)
QuotedBody(s, i, bs, acc) ==
  CASE i > Len(s) -> [ok |-> FALSE, value |-> acc, next |-> i]
    [] s[i] = Quote /\ i < Len(s) /\ s[i + 1] = Quote ->
         QuotedBody(s, i + 2, bs, Append(acc, Quote))
    [] s[i] = Quote -> [ok |-> TRUE, value |-> acc, next |-> i + 1]
    [] bs /\ s[i] = Backslash /\ i < Len(s) ->
         QuotedBody(s, i + 2, bs, Append(acc, s[i + 1]))
    [] bs /\ s[i] = Backslash -> [ok |-> FALSE, value |-> acc, next |-> i + 1]
    [] OTHER -> QuotedBody(s, i + 1, bs, Append(acc, s[i]))

ReadLiteral(s, i, bs) ==
  CASE i + 3 <= Len(s) /\ SubSeq(s, i, i + 3) = NullWord
         -> [ok |-> TRUE, value |-> None, next |-> i + 4]
    [] i <= Len(s) /\ s[i] = Quote -> QuotedBody(s, i + 1, bs, <<>>)
    [] OTHER -> [ok |-> FALSE, value |-> None, next |-> i]

(* The comma-terminated values read from s at i on; ok is FALSE when the *)
(* text is not such a list.                                               *)
RECURSIVE ReadValues(_, _, _)
ReadValues(s, i, bs) ==
  IF i > Len(s) THEN [ok |-> TRUE, vals |-> <<>>]
  ELSE LET v    == ReadLiteral(s, i, bs)
           rest == ReadValues(s, v.next + 1, bs)
       IN IF v.ok /\ v.next <= Len(s) /\ s[v.next] = Comma /\ rest.ok
          THEN [ok |-> TRUE, vals |-> <<v.value>> \o rest.vals]
          ELSE [ok |-> FALSE, vals |-> <<>>]

Units == {DefaultUnit} \cup {r[3] : r \in Range(UnitRules)}

TypeOK ==
  /\ pc \in {"get", "generate", "done", "aborted"}
  /\ crawled \in CrawlSizes \cup {0}
  /\ index \in 1..101
  /\ row = None \/ /\ row.storage_requirement \in {ColdChain, CoolDry, Dry}
                   /\ row.is_special \in {0, 1}
                   /\ row.unit \in Units
  /\ stmt \in Seq(Nat)

(* Read back with standard SQL quoting, the text columns of every INSERT *)
(* are exactly the values the script computed for the row: no quote of a *)
(* crawled table cell ends a literal early.                               *)
RowReadsBack ==
  row # None => ReadValues(stmt, 1, FALSE) = [ok |-> TRUE, vals |-> TextColumns(row)]

(* The same under MySQL's default sql_mode, where a backslash escapes the *)
(* next character; the script targets MySQL (USE cdiom_db).              *)
ReadsBackMySql ==
  row # None => ReadValues(stmt, 1, TRUE) = [ok |-> TRUE, vals |-> TextColumns(row)]

(* When the file is written it holds between 50 and 100 drugs: the       *)
(* fallback threshold of line 123 and the cuts of lines 165 and 173     *)
(* agree whatever the crawl returned.                                    *)
RowCountInRange == pc = "done" => index - 1 \in 50..100

(* A row that raises loses the whole import (hazard of line 218), but    *)
(* only crawled items can raise: once the crawl falls short of 50 and the *)
(* built-in list is taken, every row is generated and the file is         *)
(* eventually written.                                                     *)
FallbackWritesFile == (pc = "generate" /\ crawled < 50) ~> (pc = "done")

(* Line 94 turns to "the JSON data" of the page when its tables give no  *)
(* drug.  The lazy `.*?\}` of the regex at line 97 ends a match at the    *)
(* first `}` after "data", inside the first object of the list, so        *)
(* json.loads rejects every match whose list holds an object: the JSON   *)
(* path returns only non-objects, and drug.get raises on the first of    *)
(* them (line 213).  An import of drugs from the page's JSON is never     *)
(* written.                                                                *)
JsonCrawlNeverWritten == pc = "done" => \A i \in DOMAIN drugs : drugs[i] # JsonItem

(* Line 127, "extend the common drug list to 100 kinds": when the crawl *)
(* falls short, get_common_drugs returns 100 different drugs.            *)
FallbackHundredDistinct ==
  (pc # "get" /\ crawled < 50)
     => Cardinality({drugs[i].name : i \in DOMAIN drugs}) = 100

=============================================================================
