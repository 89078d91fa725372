# TLA+ models of the commit-message decoders and the drug SQL generator

This directory holds TLA+ models of the Python scripts under `src/`, checked
with TLC. The repository has two unrelated parts:

1. **Encoding recovery scripts.** Nine single-run scripts read the raw bytes
   of the HEAD commit through `git log` or `git cat-file`. They try to show its
   Chinese message correctly by decoding those bytes with candidate codecs
   (GBK, GB2312, GB18030, UTF-8, Big5, latin-1), or by repairing mojibake
   through a "re-encode as UTF-8, decode as GBK" round trip. `spec.md`
   describes the common idea as the Encoding Recovery Engine: pick the
   candidate with the most CJK ideographs, with ties going to the first
   listed.
2. **Drug data generator** (`src/crawl_drug_data.py`). It crawls a drug
   website, falls back to a built-in list when fewer than 50 drugs are found,
   and writes a MySQL script with one `INSERT` per drug. Each row gets
   defaults for missing fields, a storage requirement and a special-drug
   flag from keywords in the name, and a unit from the spec and form. Its
   text fields are quoted by `escape_sql_string`.

Every script is sequential and single-threaded. It runs once and exits, and
nothing is persisted between runs. The interesting behaviour is therefore
*which path a run takes, and which text it prints*, for the bytes git hands
it. There are no interleavings and no crash or restart hazards, and the
models do not invent any. Each model is a small state machine with:
- one action per step of the script, in the script's order;
- a ghost variable `src` recording how the author stored the message (codec
  and text), which the program never reads. Properties compare what the
  program prints against it.

## Inventory

| Part | Source | Module | Status |
|---|---|---|---|
| Codec semantics (CPython decode/encode, ideograph count, `find`) | used by all scripts | `Codecs`, data in `CodecTables` | modelled |
| Recovery engine of `spec.md` (abstract) | `spec.md` sections 3, 4.1, 7 | `RecoveryEngine` | abstract specification |
| Best-of-candidates decoder | `src/py/decode_commit_final.py` | `DecodeCommitFinal`, refines `RecoveryEngine` | modelled |
| Round trip from git | `src/py/fix_commit_encoding.py` | `RoundTripRepair` (git path) | modelled |
| Round trip of a pasted literal | `src/py/fix_encoding_reverse.py`, `src/final_fix_commit.py` | `RoundTripRepair` (literal path) | modelled |
| GBK view with conditional repair | `src/view_commit_gbk.py` | `ViewCommitGbk` | modelled |
| Strict first match, then for-else round trip | `src/py/decode_commit_gbk.py` | `DecodeCommitGbk` | modelled |
| First ideographic decoding | `src/read_git_raw_gbk.py` | `ReadGitRawGbk` | modelled |
| Strict GBK, UTF-8 and latin-1 fallbacks | `src/read_commit_gbk.py` | `ReadCommitGbk` | modelled |
| Per-codec report | `src/py/view_commit_correct.py` | `ViewCommitCorrect` | modelled |
| Drug data generator | `crawl_drug_data.py` `get_common_drugs`, `generate_sql_insert`, `escape_sql_string`, `determine_*`, `main` | `CrawlDrugData`, data in `DrugData` | modelled |
| Web crawl | `crawl_pharnexcloud` | `CrawlPharnexcloud` (table rows, JSON regex, `json.loads`), composed into `CrawlDrugData` | partly: HTTP, BeautifulSoup and the header skip are I/O or abstracted |
| stdout re-wrapping | `io.TextIOWrapper` on win32 | none | not modelled: display only |

## How the code maps to the models

**Codecs** gives TLA+ definitions of the library calls the scripts depend
on. Bytes are integers 0..255, and text is a sequence of code points.
- `Utf8Decode` implements CPython's UTF-8 decoder with `errors='replace'`
  from the bit layout of UTF-8. Each maximal invalid subpart becomes one
  U+FFFD.
- `Utf8Encode` implements `str.encode('utf-8', errors='replace')`; a
  surrogate becomes `?`.
- `DbcsDecode` implements CPython's multibyte decoders (gbk, gb2312,
  gb18030, big5). A byte below 0x80 is ASCII. A lead byte with a mapped
  trail byte is one character. Anything else becomes U+FFFD and decoding
  resumes at the next byte. I checked this rule against CPython for every
  byte pair.
- Both decoders are one step (`Utf8Step`, `DbcsStep`: the character at a
  position and the bytes it consumes), run over the byte string by
  `DecodeBySteps`. That operator finds the positions the decoder visits by
  doubling the jump, so a message of 101 characters needs only a few nested
  evaluations. A plain recursion over positions overflows TLC's stack at
  about 45 characters. The recursive forms, `Utf8DecodeFrom` and
  `DbcsDecodeFrom`, are kept as references. An `ASSUME` in
  `MC_ViewCommitCorrect` checks that both forms agree on the bytes of every
  short message. For the same reason the encoders join their per-character
  pieces with `ConcatPieces`, which places each piece by counting the
  lengths before it, rather than with the recursive `FlattenSeq`. The same
  `ASSUME` checks that the two agree.
- `DecodesStrictly` holds when a strict decode would not raise.
- `ChineseCount` is the scripts' `'一' <= c <= '鿿'` count.
- `Find` is `bytes.find`.

Which byte pairs a double-byte codec maps, and to what, comes from the
constant `DbcsTables`. `CodecTables` gives it a value: the pairs reachable
from the modelled characters, read off CPython's codecs. If a model reaches
a pair outside the table, TLC stops with an error rather than guessing. The
characters are:
- `A`;
- U+66F4 更 (GBK `B8 FC`, Big5 `A7 F3`, UTF-8 `E6 9B B4`);
- U+65B0 新 (GBK `D0 C2`, Big5 `B7 73`, UTF-8 `E6 96 B0`).

U+66F4 U+65B0 ("update") is the first word of the repository's garbled
commit message, and its UTF-8 bytes read as GBK are the `'鏇存柊'` that
`view_commit_gbk.py` looks for.

In each script module:
- `Fetch` is the `subprocess.run` call. It chooses a codec from
  `SourceCodecs` and a message from `Messages`, and produces the bytes git
  would print.
- The loop of candidate codecs is one action per iteration (`TryEncoding`,
  `TryStrict`, `ReportEncoding`), with an index variable for the loop
  position.
- `break`, `else` and the end of the loop are separate actions or `pc`
  updates, in the code's order.
- The `except` branches of calls that use `errors='replace'` cannot be
  taken. The models leave them out, and the comments say why.
- `print` changes no state. Only the values printed as results are kept
  (`best_result`, `shown`, `printed`, `report`).

**RoundTripRepair** covers two paths to the same round trip:
- The **git path** (`fix_commit_encoding.py`, also method 2 of
  `decode_commit_gbk.py`) decodes git's bytes as UTF-8 with
  `errors='replace'`.
- The **literal path** (`fix_encoding_reverse.py`, `final_fix_commit.py`)
  starts from the pasted mojibake. I checked in Python that the repository's
  literal is what a UTF-8 message looks like when its bytes are decoded as
  GBK, so the model builds the literal that way from a message instead of
  copying it.
- `path` records which script took the literal: `"reverse"` or `"final"`.
- `Judge` is the `> 50` test of `fix_encoding_reverse.py`, which prints
  "looks like the repair succeeded".
- `JudgeFinal` is the same test in `final_fix_commit.py`, which instead
  prints the first 30 ideographs and warns that the message may have been
  damaged when stored (verdict `"warned"`).

**RecoveryEngine** is the abstract specification of `spec.md`'s engine in
direct-bytes mode, together with the caller that shows the result. It has
two variables, `raw` (the bytes handed in) and `result`, and two actions:
- `Receive`: a caller hands the engine bytes;
- `Recover`: the engine answers with the first candidate reaching the
  maximum ideograph count. When that count is 0 the answer is the
  caller-level `NoConfidentRecovery` of sections 4 and 7.

`DecodeCommitFinal` instantiates it as `Engine` with a refinement mapping:
- `raw` is the sliced message once `ExtractMessage` has run;
- `result` is, after `Report`, the best candidate (its display name mapped
  back to the codec), or `NoConfidentRecovery` when `best_encoding` is
  None.

Under this mapping `ExtractMessage` is `Receive` and `Report` is `Recover`.
Every other step leaves the engine's state alone. The property
`RecoveryEngineImplemented` checks the engine's `Init`, its `[][Next]_vars`
and `Answers`. `Answers` (received bytes are eventually answered) is the
engine's `WF_vars(Recover)` in the form TLC can check through a mapping. It
is equivalent, because `Recover` is enabled exactly while `raw` is set and
`result` is not, and no other step sets `result`. Checking `WF` through the
mapping directly makes TLC evaluate `ENABLED` over mapped primed variables,
which does not finish.

**CrawlDrugData** models `main` of the generator:
- `GetCommonDrugs`: `get_common_drugs`, including the crawl, the fallback
  below 50 and the cut to 100.
- `GenerateRow`: one iteration of the loop in `generate_sql_insert`, which
  computes:
  - the `drug.get` defaults;
  - `determine_storage_requirement` and `determine_is_special` (substring
    tests on the name);
  - the unit chain, whose `or` short-circuits;
  - the `INSERT`'s text columns escaped by `escape_sql_string`.
- `GenerateRowRaises`: the same iteration when a line of it raises. This
  covers `drug.get` on a JSON value that is not an object, and `in` on a
  null name or spec. The traceback ends the script before the file is
  opened.
- `WriteFile`: the join and the write.

Text is a sequence of code points. `DrugData` holds the source's literals
(the 10 `COMMON_DRUGS`, the 104 fallback names, forms, manufacturers and
keywords) as code points. It is generated from the source file.

What the crawl returns is its length (`CrawlSizes`) and the path that
produced its items: `TableItem` (the HTML tables) or `JsonItem` (the JSON
regex, used only when the tables give nothing). `Resolve` turns a path
into the set of items `CrawlPharnexcloud` computes for it.

**CrawlPharnexcloud** models what `crawl_pharnexcloud` makes of a page:
- `TableItems`: a row of at least three cells with a non-empty name is a
  drug (lines 83-92), and the fourth cell, if any, is the manufacturer.
- `FindAll`: `re.findall(r'\{.*?"data".*?\}', text, re.DOTALL)` over a
  page written as a sequence of JSON tokens. A match starts at the first
  `{`, runs to the first `"data"` after it, and ends at the first `}` after
  that (a `}` inside a string counts).
- `ParseValue`, `ParseElems`, `ParseMembers` and `Loads`: `json.loads` of a
  match, which must be exactly one value.
- `DataItems` and `ItemOf`: the items of a `"data"` list, as the loop of
  `generate_sql_insert` sees them.

I cross-checked `JsonDrugs` against CPython's `re` and `json` on every one
of the model's pages, with no mismatch.

A crawled item, and a random field of a fallback drug, is read exactly
once, by the loop. The model therefore draws it where the loop reads it.
The codes, approval number and expiry date contain no quote and are left
out of a row.

The reference that reads an `INSERT` back is a lexer for SQL string
literals:
- with backslash escapes off, it is standard SQL (MySQL's
  `NO_BACKSLASH_ESCAPES`);
- with them on, it is MySQL's default `sql_mode`.

The script targets MySQL (`USE cdiom_db;`, "open MySQL Workbench").

## Runs

| Run | Result | What it shows |
|---|---|---|
| `decode_final` | pass | The `find + 2` slice is the message. The loop keeps the *first* candidate with the most ideographs (loop invariant `BestIsFirstMaximum`). A GBK message with ideographs is always recovered exactly. The script implements `RecoveryEngine` and always reaches its answer (`RecoveryEngineImplemented`). |
| `round_trip` | pass | Re-encoding git's UTF-8-decoded output restores git's bytes exactly when they were UTF-8 or ASCII, and never for a GBK message with a non-ASCII character. So the GBK repair the docstring promises is impossible. Even so, on the git path the round trip strictly raises the ideograph count of a GBK-stored non-ASCII message (`RoundTripRaisesCount`, spec section 8), by making fresh mojibake. |
| `round_trip_claimed_fix` | violation | On a long literal, the wrong-direction round trip produces more than 50 ideographs of a second garbling, and the script says the repair looks successful. |
| `view_gbk_repair` | violation | A GBK decode with `errors='replace'` never raises, so `encoding` is always `'GBK'` and the mojibake repair never runs. |
| `decode_gbk` | pass | Method 2, the round trip this script is named for, runs only for messages without ideographs. Method 1 prints a UTF-8 message as GBK mojibake exactly when a Chinese codec tried before UTF-8 decodes its bytes strictly to a text with an ideograph, as for 新`A` (`Utf8MisreadExactlyWhenLegacyValid`). |
| `read_raw` | pass | Exactly one block is printed, and it is ideographic or the UTF-8 one, because UTF-8 is listed last. |
| `read_commit` | pass | The latin-1 fallback is reached only by bytes stored in neither GBK nor UTF-8 (Big5 in the model). |
| `view_correct` | pass | After `split(b'\n', 3)`, one of the reported previews is exactly the first 100 characters of a GBK or UTF-8 message (`PreviewShowsMessageStart`). For the 101-character messages, that is the message cut by one character, so no preview shows the whole message. |
| `crawl` | pass | Over both crawl paths and the whole fallback list, each `INSERT`'s text columns read back as the row's values under standard quoting (`RowReadsBack`). A written file holds 50 to 100 drugs (`RowCountInRange`). A crawl below 50 always ends in a written file (`FallbackWritesFile`, liveness). No written file holds a drug of the JSON path (`JsonCrawlNeverWritten`): the lazy regex ends every match inside the `"data"` list, so `json.loads` rejects it, and the path yields nothing. |
| `crawl_mysql` | violation | Under MySQL's default mode, a crawled name ending in `\` escapes its closing quote and swallows the next column. |
| `crawl_fallback_distinct` | violation | The fallback meant to hold "100 kinds" (comment at line 127) holds 98 distinct drugs. 来氟米特片 is listed twice, and 蒙脱石散 is both in `COMMON_DRUGS` and in the list, all within the 90 names kept. |

Every property of a passing run has a mutant in `PROJECT.json`: a plausible
bug in the mapped code. Examples include:
- `+1` for `+2`, or `>=` for `>`;
- a missing `break`, or a lost `else`;
- UTF-8 listed first, or a maxsplit of 2;
- a backslash used to escape the quote;
- a selection gated by the display threshold `> 10`;
- a lost `[:100]`, or a crawl kept beside the fallback;
- a greedy JSON regex;
- a decode as UTF-8 instead of GBK;
- a lenient decode (`errors='replace'`) in method 1's loop;
- a preview cut one character late. TLC finds the property violated under each
mutant.

The refinement also records a gap in the spec. Sections 3 and 8 name the
first-listed candidate as best even at count 0, but the script has no best
then and prints "not found". The refinement holds only if that is read as
the caller-level `NoConfidentRecovery`, and the spec does not say which
reading is meant.

`JsonCrawlNeverWritten` records a bug in the code (`PROJECT.json`
findings): the JSON fallback at line 97 cannot produce a drug, whatever the
page holds.

Further disagreements came up while modelling but are not kept as runs.
`PROJECT.json` lists them as hazards:
- A randomly drawn form `注射液` gets dry storage and unit `片`.
- One malformed crawled item loses the whole import. Every item the JSON
  path yields is such an item: a string, null or array.

One more observation is a fixed fact of the data, not a hazard: the
fallback's narcotic names lie past the `[:90]` cut, so no fallback row is
special.

## Bounds

Messages are:
- every sequence of up to three characters over {`A`, U+66F4, U+65B0} (40
  messages), for all script modules except RoundTripRepair and ViewCommitGbk;
- up to two characters (13 messages), for RoundTripRepair and ViewCommitGbk.
  RoundTripRepair also gets a 24-ideograph message, because the success
  threshold of 50 can only be passed by a long text.
- ViewCommitCorrect also gets two messages of 101 characters (U+66F4
  U+65B0 `A` repeated, and U+65B0 repeated). They go past the preview cut
  `decoded[:100]` at line 65, which no short message reaches.

The messages are stored as GBK or UTF-8, plus Big5 for `read_commit_gbk`.

Three characters are enough to produce:
- every tie between candidates;
- a UTF-8 sequence cut short;
- a GBK lead byte followed by ASCII;
- a lead byte at the end;
- the empty and all-ASCII messages, which are what reach the scripts'
  "nothing found" branches.

A longer message only repeats these cases. The ASCII header lines git prints
are either modelled (a one-line header for `decode_commit_final`, three
metadata lines for `view_commit_correct`, where the slicing depends on
them) or left out where every candidate decodes them unchanged and they add
no ideograph.

`CrawlDrugData` bounds:
- **Crawl lengths** are 0, 49, 50 and 101:
  - 0 is a failed request: a timeout, an exception or a status other than
    200 returns the empty list, with no retry;
  - 49 is a short crawl, which the fallback drops whole;
  - 50 is the other side of the threshold;
  - 101 reaches the cut at 100.
- **Table rows** are four:
  - one of four cells whose texts hold `a`, a quote and a trailing
    backslash (the characters escaping concerns);
  - one of three cells, so with no manufacturer, holding 片剂;
  - the two a table drops: an empty name, and two cells.
- **Pages** are about 10,800 token sequences. They cover every object with a
  `"data"` member, alone or beside a `"name"` member. Its value is a string,
  null, an object of at most one member, or an array of at most two of
  these. A `"}"` string is included because the regex ends a match at it.
  There are also objects nesting `"data"` under `"name"`, and two small
  objects in a row, which give findall a second match.
- **Fallback rows** draw all eight forms and all four spec units, because
  these decide the unit chain. They draw one amount, one count and one
  manufacturer, which decide nothing.
- The run reaches 6,157 distinct states in under a minute. The rows each
  item can produce are tabulated once, as constants, so that the liveness
  check does not recompute them per transition.

## Fairness

`DecodeCommitFinal` assumes weak fairness of `Next`: the script is a
single thread that runs straight through, and every step it can take, it
takes. Under that assumption `RecoveryEngineImplemented` checks the
liveness half of the engine: bytes once received are answered.
`RecoveryEngine` itself puts weak fairness on `Recover` only. A caller need
not call the engine, but once called the engine answers, because it is
bounded by input length times list length (spec section 5). `CrawlDrugData` also assumes weak fairness of `Next`, on the same
grounds: `main` is a straight-line script with no waiting. Under it,
`FallbackWritesFile` checks that a short crawl always ends in a written
file. All the other specifications are safety-only. Final states have no
successor, and each cfg says so with `CHECK_DEADLOCK FALSE`, because each
script exits after printing (or, for the crawler, raises).

## Not modelled, and the plan

- HTTP requests and BeautifulSoup's HTML parsing are I/O. A table is given
  as its rows' stripped cell texts, and the page text as JSON tokens without
  whitespace. JSON numbers and `true`/`false` are not among the tokens: the
  JSON path yields no item whatever the tokens are, as the findall model
  shows. The header-row skip (`rows[1:]`) is absorbed into the choice of
  rows.
- Columns filled from `random` or fixed formats (codes, approval number,
  expiry date) are quote-free and left out.
- `recoverFromRoundTrip` of the spec has no implementation that computes a
  best-of-candidates result. The round-trip scripts decode with GBK alone,
  so only the direct-bytes engine has a refinement.
- The Windows `TextIOWrapper` re-wrapping of stdout only affects display.
- The remaining unmapped lines are `print` calls, imports, the code
  generators (`generate_national_code`, `generate_trace_code`,
  `generate_product_code`, `generate_approval_number`), and the date
  formatting. None of them changes a value a property tells apart. The
  codes are digits and ASCII letters, and each is fixed by the row index.
- The hazard at `crawl_drug_data.py:168` (a random form such as `注射液`
  next to a storage requirement and unit taken from the name and spec) has
  no property. Neither the spec nor a comment or test says that the form
  and the storage requirement must agree, so there is no claim for a
  violation run to check.
