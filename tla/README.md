# A TLA+ model of contapila

contapila is a beancount-like ledger in Go: a parser and loader, a booking
engine with average-cost lots, reports and charts over the booked ledger, a
language server, an importer that merges directives into journals and a web
view. This directory holds TLA+ modules that model its core, TLC configurations
that check them on small instances, and proofs for TLAPS. Line numbers and
quotations refer to the sources under `src/`; `PROJECT.json` maps every
definition to the lines it translates.

    tlc -workers 2 -config MCSession.cfg MCSession     # a run
    tlapm SessionProofs.tla                            # proofs

## 1. Inventory

| component | state | operations | what is hard |
|---|---|---|---|
| booking engine (`internal/booking/booking.go`) | lots and balances by account and commodity, account opens and closes, pending pads, booked journal, diagnostics | `Book` of every directive kind | a transaction is planned on the old state, then applied in phases that may refuse half way; residual legs move lots and balances; averages; same-day order |
| language server session (`internal/lsp/session.go`, `server.go`, `internal/filesys`) | overlay of editor buffers, open documents, parse diagnostics, snapshot, dirty flag, debounce timer, generation and cancel function, what the client shows | `didOpen/Change/Save/Close`, `markDirty`, `scheduleRebuild`, `rebuild`, `publishParse` | handler, timer callbacks and rebuild goroutines interleave; late timers; overtaken builds; buffers that change while they are read |
| stream expanders (`dated_cost.go`, `autointerest.go`, `pad.go`, `closing.go`) | none of their own; they rewrite the stream | `ExpandDatedCosts`, `ExpandAutoInterest`, `ExpandPads`, `ExpandClosing` | each decides from a probe or from file order what booking then does in date order; one runs twice |
| price database (`internal/prices`) | observations by pair and day | `Add`, `Rate` | last write wins; inverse and one-hop rates as old as their older leg |
| opening a ledger (`internal/engine/engine.go`) | stream, price database, tolerances, booked engine | `OpenLedgerFS` | the order of the expanders; stream journals |
| reports (`engine.go`, `series.go`, `account_tree.go`, `balances_tree.go`, `networth_tree.go`, `pnl.go`) | none | `BalancesAsOf`, `AccountActivity`, `NetWorth`, `NetWorthSeries`, `PnLBars`, the account trees | some rebook, some read the journal, some walk day by day: they must agree; an account may hold money and have accounts below it |
| interest projection (`autointerest.go`, `interest.go`) | none | `ProjectedUnits` | a second reading of the stream, beside the books |
| loader (`internal/loader`, `injectProjectStreamJournals`) | files seen, files on the call stack, stream so far | `LoadFileFS`, journals in front of main | cycles against diamonds, links, globs, journals that fail half way |
| ingest (`internal/ingest`, `ingestCmd`) | the pipe, what was decoded, the target and its temporary file | `DecodeJSONL`, `Apply`, `WriteFileAtomic` | spans that move, a producer that blocks, a kill or failing call between steps, an editor writing meanwhile, a text that must read back |
| periods (`internal/period`) and the time query of a page | the filter and the page shown | `Parse`, `Shift`, `SetInterval`, `ChartBin`, `IterateBins` | ISO weeks at the turn of a year, months of different lengths, clipped bins |
| parser (`internal/parser`) | none | `ParseFile` | reads what ingest writes |
| configuration, command line, documents, dumps, diagnostics | none between calls | | text and I/O |

How they interact: `OpenLedgerFS` calls the loader, hands the stream to the
expanders, which share the project's price database and probe the booking
engine, and keeps the engine that booked the result. The reports, the command
line, the web server (which reopens everything for each request) and the
language server read that opened ledger. The language server calls
`OpenLedgerFS` from its rebuild goroutines over the overlay of editor buffers,
so a build reads state that the handler writes. `contapila ingest` runs a
producer, decodes its lines while it writes them, and merges them into a journal
that the loader, an editor and the language server read.

What makes each correct:

- **booking**: lots never negative and without residue when empty; a lot is the
  balance of its account; every balance is the sum of the journal; a refused
  transaction leaves nothing; a booked one balances; every use outside an
  account's life is reported; an assertion settles its account and its pad.
- **session**: no edit is forgotten, only the newest build is live and may
  swap, the snapshot never goes back and is made from what the editor has,
  everything settles.
- **expanders**: running again changes nothing; assertions keep their verdicts;
  interest accounts and closings settle.
- **reports**: two of them never disagree about one ledger: as-of balances and
  the journal, chart and table, trees and totals, projection and assertions.
- **loader**: every line of every reachable file once and in its place; a load
  fails only for a missing file or a real cycle; a journal whole or not at all;
  every load ends.
- **ingest**: the file is always what it was, what an editor saved, or the whole
  merge; what is written reads back; one directive per id; every ingest ends.
- **periods**: the periods of a kind divide the calendar; moves through time
  neither skip nor repeat a day; bars hold every flow once.

`PROJECT.json` lists the hazards, each at its line and with the properties that
would notice it; those without a property carry the reason.

## 2. The modules

    Rationals ── Booking ─┬─ LedgerBook ── MCLedgerBook
                          └─ Expand ─┐
                  Prices ────────────┴─ Reports ── Views ── Pipeline ── MCPipeline
    BookingProofs ─┬─ LedgerBookProofs
                   └─ PipelineProofs
    Session ─┬─ MCSession
             └─ SessionProofs
    Loader ─┬─ MCLoader
            └─ LoaderProofs
    Orders ─┬─ Upsert
            └─ Directives ── Ingest (INSTANCE Upsert) ─┬─ MCIngest
                                                       └─ BlocksProofs ── IngestProofs
    Calendar ── Period ─┬─ MCPeriod
                        └─ PeriodProofs

**Rationals** stands for `big.Rat`: normalised pairs of integers. It is the one
arithmetic the other modules use, and external to the sources.

**Booking** is the engine as operators on an engine record: `BookDirective(e, d)`
is one iteration of the loop of `Book`. `Plan` is what `bookTxn` computes before
it touches anything (resolved costs, weights, the residual leg, inventory
operations); `ApplyPlan` is what its apply phases do with it (all buys, then the
sales at the average of before the transaction, then balances; the operations of
the residual leg come after the explicit ones, so a clash leaves them out); the diagnostics
that end a transaction are kept apart from those that do not. `BookBalance`
contains the pad it may trigger. Metadata, tags, links and narration are left
out.

**LedgerBook** makes a state machine of it: a behaviour is one stream in the
order of `sortedDirectives` (date, rank of the kind, source line), and every
action takes a directive of one kind from the behaviour's scenario.

**Session** has the lock regions of `session.go` and `server.go` as steps.
Variables are the fields of `Session` (`dirty`, `gen`, `snap`, `root`,
`parseDiags`, `openDocs`, the overlay), the disk, the timer (`timer` while
armed, `callbacks` once fired: `Stop` no longer reaches those), the handler's
program counter, `cancelBld` for the one cancel function on record, `builds[g]` for the goroutine of generation `g` with what it
has in its local variables, and `shown`, what the client displays. A document
notification runs `EnsureRoot`, `SetOverlay`, `Register`, `ParseBuffer`,
`PublishParse`, `MarkDirty` and so on one lock region at a time; a build runs
`ReadRoot` (and, when there is none, `FindDocument`, `FindRoot` and `RootFound`,
the three lock regions of the search), `OpenProject`, `Scope`, `LoadFile` once per file, `Swap`, and its
two publish loops. Cancellation is looked at exactly where the code calls
`ctx.Err()`. Which file belongs to which ledger, and what the disk holds, are
part of the initial state. A text either parses, has a syntax error, or makes
the check report an error on another file.

**Prices**, **Expand** and **Reports** are operators: the price database, the
four expanders on sequences of directives, and the reports of an opened ledger.

**Views** is what the pages make of the reports: the account trees, whose rows
are the prefixes of account names, the projected units of an interest account,
day by day from its opening to its close, and the chart of net worth, which days
of prices and of an index's returns revalue and which drops zeros at its ends.

**Pipeline** composes them: `Write` adds the lines of a small file in any order
of dates, then the phases of `OpenLedgerFS` follow: dated costs, interest, pads,
booking, and when a posting is marked `closing: TRUE`, the probe, the closing
directives with a second run of the interest expander, and the final booking.

**Loader** is `loadOne` as a stack machine: one frame per recursive call, one
step per directive, file entered or return. On top of it is the loop of
`injectProjectStreamJournals`, each journal loaded with a fresh `seen`. Globs
list the disk, everything else the overlay first; their matches are entered in
the order of names. A path's real file is a function, so that two paths may name
one file.

**Directives** has the three forms a directive takes on its way into a journal,
a JSONL line, an `ast` directive and lines of text, and the three translations:
`DecodeLine`, `FormatDirective` and the parser's tree walk `Parse`. A word keeps
count of how often it was written between quotes that had to be escaped, which
is how a text can differ from what it was written from. Fourteen kinds share one
table of positional arguments (`Shape`).

**Ingest** is `ingestCmd` with what it calls. A run starts a producer, a command
or standard input, that writes its lines into a pipe of bounded capacity and
succeeds or fails; `DecodeJSONL` reads them one by one and stops at one it cannot
decode; the command is waited for; the target is read, merged and written over
through a temporary file, one system call a step. Beside it an editor may save
the target, any call may fail, and the process may be killed between any two
steps.

**Upsert** is what all of that promises: an ingest looks at the file once, and
then either leaves it or replaces it by the merge of what it saw with the whole
stream, of which every line must be a directive. It knows no pipe, no spans, no
temporary file and no text offsets: the file is a sequence of blocks, and a block
with an id is replaced by the line that counts for the id. What a line, a
directive and a block look like are its operator constants; `Ingest` instantiates
it with those of Directives, with `file` the blocks of the target, `view` those of
the text read and `phase` from the program counter, and `Implements ==
Promise!Spec` is a property of its run and a theorem. Of a stream in which two
directives that count ask for one `ingest_id` (one by `id`, one by its metadata)
it promises nothing but that the file changes at once (`KeysApart`): see finding 4.

**Orders** has one operator, the places of a sequence at which something holds,
which both sides of that refinement count by.

**Calendar** is the proleptic Gregorian calendar of package `time`, days being
integers, with ISO weeks; **Period** is the period grammar on parsed tokens, the
navigation and the bins, `PnLBars`, and a page whose reader types a filter, moves
and changes the interval while days pass.

Simplifications, by module:

- Session: the project's layout does not change while the server runs; only
  texts do. Messages to the client are delivered in the order sent, except that
  one whose context is cancelled may be dropped.
- Booking: rates and amounts are small rationals. The engine's limit of digits
  in printing is not part of the model.
- Expand: the rate of an `open` is valid, invalid or absent; the name of the
  income counterpart is a constant function; a directive without a date and the
  options are left out.
- Reports: `NetWorthSeries` adds the last days of months as samples; days here
  are integers without months, and a sample more does not change the value of
  any day. `BalancesAsOf` uses the engine's default tolerance, as in the code.
- Views: all interest accounts have one rate and one index, and today is the end
  of a chart's range.
- Loader: parsing a file yields its items. Whether a file is readable does not
  change during a load.
- Ingest: names and accounts are valid ones, words that hold quotes themselves
  and numbers the grammar refuses belong to the grammar, amounts have their
  commodity; a line is the unit of a text. Nothing in the code syncs a file to
  disk, and the model lets a kill end the process but no power failure lose what
  was written. The directory exists.
- Period: years stay below 9999 and above the zero time; no range reaches the
  5,000 bins of `MaxBins`. `Shift` and `SetInterval` are the library's, which
  the page's buttons do not all use.

## 3. The runs

| run | instance | states | question |
|---|---|---|---|
| `ledger_book` | `MCLedgerBook.cfg` | 40,462 | does every stream leave a consistent engine? |
| `session` | `MCSession.cfg` | 4.98 million | is every edit built, and no stale build swapped in? |
| `session_live` | `MCSessionLive.cfg` | 106,716 | does everything settle? |
| `session_parse_gate` | `MCSessionParseGate.cfg` | | is a broken text kept out of the snapshot? (no) |
| `session_unopened` | `MCSessionUnopened.cfg` | | are files nobody has open kept current? (no) |
| `pipeline` | `MCPipeline.cfg` | 42,093 | do the expanders keep what the file says, and the reports agree? |
| `pipeline_tree` | `MCPipelineTree.cfg` | | does the tree of balances show all of them? (no) |
| `loader` | `MCLoader.cfg` | 10,739 | is everything read once, in place, and does loading end? |
| `loader_journals` | `MCLoaderJournals.cfg` | | is an included journal never loaded twice? (no) |
| `ingest` | `MCIngest.cfg` | 102,060 | does the file only ever hold what Upsert promises, and does every ingest end? |
| `ingest_spans` | `MCIngestSpans.cfg` | | are lines that ingest did not write kept? (no) |
| `period` | `MCPeriod.cfg` | 2,099 | do periods divide the calendar, and bars add up? |

**ledger_book.** Four scenarios. *Equity* draws up to four transactions from
twelve bodies: buys with `{}`, `{n}`, `@` and `@@`, sales with and without an
explicit cost, a buy and an oversale in one transaction, two cost commodities
in one transaction, a residual leg on the lot's own account, two residual legs.
*Forex* has a currency held at a cost in another one, spent at face and at cost,
explicitly and by residual, and spent together with the sale of a lot that cost
that currency. *RoundTrips* buys and sells within a transaction at
wrong costs. *Lifecycle* has opens, closes, pads, assertions and notes of two
days on one account. Four transactions suffice to build a lot, split it, empty
it and buy again; two dates suffice to have a pad, its assertion and a close in
each order. `LotsNonNegative`, `EmptyLotHasNoCost`, `BalanceIsJournal` and
`OutOfLifeReported` relate the lots, the balances, the journal and the
diagnostics; the action properties `BalancedAtCost`, `FxSpendBalancedAtFace`,
`LotTracksBalance`, `RejectedTxnInert` and `AssertionSettles` say what one
directive may do to them. Each is about a whole transaction; those on weights
use the plan only to say which transactions the cost rule speaks of. A currency
is held to balance at face only where every leg in it weighs at face and no leg
that weighs otherwise than at cost moves the cost of a lot in it: a transaction
may weigh one currency at face and another at cost, and then neither sum closes.

**session**. Two files spread over two ledgers in any way, three texts, three
notifications or external writes; files and ledgers are symmetric. Three events
give three generations, which is what it takes to have a cancelled build, its
successor and a late timer at once. `FreshSnapshot` is the property about the
build that reads buffers one by one: when nothing is pending and the newest
snapshot is in place, it holds exactly the editor's texts.

**session_live** assumes weak fairness of the handler, of an armed timer, of a
fired callback and of every build goroutine. The Go scheduler and runtime timers
provide that: none of these waits for anything but the session's mutex, which is
never held across a call that blocks. The editor owes nothing, so no fairness is
assumed of notifications. Two events suffice for a build to be cancelled.

**pipeline**. Seven vocabularies: *Pads* (pads and assertions of one account and
of the account pads are taken from, a tolerance of the commodity's own),
*Interest* (an interest account in two currencies, assertions, the user's own
pad, a close, opens that come later), *Withdrawals* (pads, transactions and sales
without a lot that take from an interest account, two of which share an Income
account), *Closings* (marked postings with and
without units, one with an unknown commodity, a close by hand, a pad),
*Market* (lots with dated costs, direct, inverse and one-hop prices), *Sources* (pads
out of an account that is padded itself) and *Lots* (a lot, a pad and sales). Files of
three to six lines in every order of dates and lines are enough for two pads to
meet two assertions and for each expander to see what another one inserted. One
asset account is below another one and one income account is the root of its
tree, so that rows have amounts of their own and below. The rate of the interest
accounts is high, so that a curve that does not return to the books shows.
`TreesAddUp` compares every row of the trees of net worth and income with its
account and the rows below it, and the first rows with the report;
`ProjectionAgrees` says that the projection and the books meet on the day of
every assertion. Each hypothesis of these properties is met and broken by some file of
the run: without it, TLC finds the property violated.

**loader**. 1,152 projects: six main files, four accounts files, four journals,
three files they include, four lists of journals; among them diamonds, direct
and indirect cycles, a link to the journal, globs with a match that only the
editor has, a missing file, journals that fail after their first line. Weak
fairness of the next step: the load is one goroutine that nothing blocks.

**ingest**. Two ingests in a row into one of three journals (empty; with own
lines, a note and a transaction of known ids and a price without one; one that
does not parse). The first takes every pair of four lines, among which two have
one id up to blanks and two kinds share an id, longer streams with a refused
line early, late and in between, and single lines of every kind with all they
may leave out; the second takes single lines and two short streams, so that a
stream is sent again, changes kind under its id and is cut short. Two lines fit
into the pipe, one fewer than the longest producers write. One save of an editor
and one failing call or kill, anywhere: one of each is enough to fall between any
two steps, and what a second one meets is the file and the strays, which the
second ingest meets too. Words include one that needs escaping and numbers one
that is rounded.

*Fairness*: `Work`, the ingest's own steps, which block on nothing but the pipe
and the command; and of the producer its writes, as long as the pipe has room,
and its exit. The editor, faults and kills owe nothing. `Ends` excludes the
producers that have more to write than the pipe holds when a line is refused:
there the code waits for a command that waits for a reader, and neither ends
(`main.go:611`).

**period**. Four days on which the reading begins, before ISO years of 53 and 52
weeks, at the end of February of a leap year and before a month that lacks the
31st; about thirty filters and sixteen ranges, seven offsets of relative ones,
two moves and two days that pass. `PeriodsPartition` is checked at the anchor of
every filter a reader gets to; two moves reach the filters that only navigation
writes, and the day after them; flows lie on both sides of every edge the filters
have. No range of the run is near the 106,751 days that a `time.Duration` holds: the
chart of so long a range is beyond TLC's stack. The model cuts longer ones as the code
does (`SpanOf`), and what is proved of `Walks` speaks of them.

`CHECK_DEADLOCK` is off in all of them because the systems stop: a stream has
been booked, a file has been opened, the editor has nothing more to say.

### What the code does otherwise than documented

Five runs end in a violation, each of one sentence of the documentation or of
a comment; the findings in `PROJECT.json` quote it.

1. *Swap only after parse passes* (`SPEC.md:178`, `session.go:242`): syntax errors
   are diagnostics and not an error of the parser, so a broken text is swapped in.
2. *Diagnostics for all files of open ledgers* (`SPEC.md:153`): the last error of
   a file that is not open is never taken back.
3. *A journal that a ledger includes is not loaded twice* (`SPEC.md:284`): it is
   if it only includes other files.
4. *Non-ingest regions are preserved* (`apply.go:18`): two lines of a stream with
   one `ingest_id`, one given by `id` and one in the metadata, both replace the
   old directive's span, and the second replacement uses offsets of a text that is
   gone.
5. *The tree has all non-zero balances* (`balances_tree.go:22`): an account that
   has accounts below it has a row without its own balances.

Others were met while modelling, and no run of their own shows them; the
properties that hold next to them say so.

- A use before the open date is a warning where `SPEC.md:503` asks for an error:
  booking by date, the open is still unknown. `OutOfLifeReported` asks for either.
- A sale at a wrong explicit cost is an error (`SPEC.md:525`) only if the lot was
  not empty before the transaction.
- Two assertions of an interest account within a day share one pending pad, and
  the second fails (`SPEC.md:512`). `InterestSettlesApart` excludes them.
- Pads made for `closing: TRUE` do not become transactions of their own day
  (`pad.go:11`). `AsOfIsJournal` excludes ledgers in which one is left.
- An id with a backslash or a quote is escaped when written and not unescaped when
  read: the same stream sent again appends its directive again (`SPEC.md:64`).
  `IdsUnique` is checked and proved for ids that need no escape.
- The projection reads a day's assertions before its transactions, where the
  comment at `autointerest.go:250` has it the other way round; counts a
  materialized pad in addition to the interest it stands for, until the assertion
  corrects it; and stops reading entries at one that is older than the opening.
- `NetWorthSeries` drops a last point that is zero, where its comment
  (`series.go:30`) has one at the end of the range always. `SeriesIsNetWorth`
  takes a chart that ended early to show zero from then on.
- The comment at `series.go:23` gives the chart the net worth after each event that
  changes positions, but the day of an assertion is looked at by the account asserted
  (`series.go:187`). An account outside of net worth that is padded from one inside,
  on the day of its assertion, changes net worth without a point. That takes a pad
  that did not become a transaction of its own day, as when another pad takes from the
  padded account. `SeriesIsNetWorth` excludes exactly these pads (`PadsOutOfSight`);
  without the exclusion TLC finds the disagreement.
- A pad of a commodity held at cost moves only the balance when the engine applies it,
  and moves the lot as well once `ExpandPads` has made a transaction of it: a later
  sale may then be an oversell and be skipped, and an assertion that fails in the file
  as written holds in the opened ledger. `PadsKeepVerdicts` excludes such pads.
- Balances as of a day are booked at the engine's own tolerances (`engine.go:377`), the
  ledger at those of its commodities: where the two post different amounts, the
  report and the journal differ. `AsOfIsJournal` is about the ledgers in which they
  post the same.
- The projection does not see a pad that the engine applies at an assertion, nor that
  a transaction was skipped as an oversell, which is a warning. `ProjectionAgrees` is
  about accounts that no pad is taken from and days on which what is written was booked.
- A range of more than 106,751 days is cut to that length when it is shifted
  (`nav.go:113`), where the comment at `nav.go:110` keeps the span. `Walks` is about
  the others.
- A lot that is sold out keeps the commodity of its cost (`booking.go:658`) and no cost;
  the next buy may name another commodity, since a clash needs units (`booking.go:633`).
- `ChartBin` gives an open range months, where the comment at `bins.go:39` speaks
  of years for several of them.
- The trees of net worth and income drop rows whose sum is zero while rows below
  them stay; bars convert a flow at its own day's price and the income table at
  the latest one.

## 4. Proofs

`SessionProofs` proves, for any files, ledgers, texts, layouts and number of
notifications, under `SessionAssumption` (layouts map files to ledgers or
none, disks map files to texts, broken and faulty texts are texts, `Blame` maps
files to files, `None` is none of these, `MaxEdits` is a natural number):

- `TypeCorrect`: `Spec => []TypeOK`;
- `Invariance`: `Spec => []IInv`;
- `NoEditForgotten`: `Spec => []NoLostWakeup`;
- `OlderBuildsCancelled`: `Spec => []OneLiveBuild`;
- `SnapshotFresh`: `Spec => []FreshSnapshot`;
- `NeverBack`: `Spec => SnapshotMonotonic`.

`FreshSnapshot` is not inductive: whether the snapshot is fresh depends on what
the newest build read while the handler went on. `IInv` adds what carries it.

- `CancelsNewest`: the cancel function on record is the newest build's. The code calls
  no other (`session.go:126`), so that *all* older builds are cancelled
  (`OneLiveBuild`) holds only because each was cancelled when its successor started.
- `OneLiveBuild` and `NoLostWakeup`: the newest build is the only one that may
  swap, and an edit not yet handed to a build has a timer, a callback or the save
  handler to do so.
- `OpenBuffered`: an open document has a buffer, except between two lock regions
  of the notification that closes it.
- `SwapAhead`: the snapshot's generation is at most the current one, and a build
  that still has to swap is not the one whose snapshot is in place. `NeverBack`
  follows.
- `NewestCurrent`: as long as no edit came after the newest build was scheduled,
  every file it has read has the text the editor has now. An edit sets `dirty`,
  and scheduling starts a new build, so the hypothesis breaks before the
  conclusion can.

Every action preserves each conjunct; the proof has one lemma per conjunct with a
step per action. `FreshSnapshot` then follows from the last part of
`NewestCurrent`.

`LoaderProofs` proves, for any paths, links, texts, globs and journals, under
`LoaderAssumption` (a project's parts have their types, following a link twice
is following it once, names are totally ordered, journals are files on disk):

- `TypeCorrect`: `Spec => []TypeOK`;
- `NoLineTwice`: `Spec => []ReadOnce`.

`ReadOnce` compares directives already produced, and nothing in it says which
may still come. The inductive `LoadInv` adds that no file is on the stack twice
(`Apart`), that whatever is on the stack or has been produced comes from a file
in `seen` (`AllSeen`), and that a file on the stack has produced no line from the
item its call has reached (`Behind`). Entering a file needs `AllSeen` (a file not
seen has produced nothing), producing a line needs `Behind`, and `Apart` says that
the call on top is the only one that the new line must be behind of. The frames
differ between steps in how far the top call has come only (`Progress`), which
carries the three conjuncts through every step that neither pushes nor pops.

`IngestProofs` proves, for any journals, streams, capacity of the pipe and number
of saves, failing calls and kills, under `IngestAssumption` (streams, journals and
the postings of a line are sequences, the bounds natural numbers) and
`WordsAssumption` (so are the metadata keys in their order):

- `TypeCorrect`: `Spec => []TypeOK`;
- `NothingLeftBehind`: `Spec => []NoTempLeft`;
- `AllOrNothing`: `Spec => OnlyMerges`, the journal changes only by an editor's save
  or, in one step, to the full merge of the text read with a stream of which every
  line was read and is a directive and whose producer succeeded;
- `Upserts`: `Spec => Implements`, the ingest implements `Upsert`;
- `ReadsBackAlways`: `Spec => []ReadsBack`;
- `IdsStayApart`: `Spec => []IdsUnique`, under `GivenApart`: every text an editor
  saves has each id once, no two directives of a stream ask for one id, and no id
  needs an escape. The code does not see to any of the three (see finding 4), so
  they are the theorem's hypothesis and not an assumption on the constants; the
  streams and texts of `MCIngest` satisfy it, and TLC checks that they do.

None of the first three follows from a step's guard: what `Rename` renames was made
several steps before. `IngestInv` carries it there: a producer that has succeeded
has written all it had (`ProducerHonest`), what was read is good unless `badLine`
(`GoodSoFar`), so that the decoder at the end of the pipe, or the wait behind it,
leads to the target only with a whole stream (`WholeBeforeRead`); and the text to
be written is the merge until it is in place (`FullText`).

The refinement maps `Start` to `Begin`, `ReadTarget` to `Look` (or to `Abandon`,
where the text has errors), `Rename` to `Commit` and `EditorSaves` to `Edit`;
errors and kills are `Abandon` or, as all other steps, stutter. What is hard is
`Commit`: that the text renamed into place is, as blocks, the merge of the blocks
that were read with the lines that count. It takes two more parts of the invariant
and a theory of texts. `Remembering` says that after `k` lines `incoming` lists,
for each line whose id is new, the last of the `k` lines with that id, and `byID`
where it stands (`Remembers`), which at the end is `Latest`; `Readable` that the
texts are sequences. `BlocksProofs` then has:

- a text and its blocks determine each other: a cut of a text at its opening lines
  is a way to write it as a concatenation of blocks, and the only one of that form
  (`BlocksAre`, `BlocksCut`, `CutsCat`), and what `FormatDirective` writes is a
  single block (`FormatIs`, `BlockCut`);
- the directives `Parse` finds are the blocks that begin with a head, and the span of
  one is its block (`NodeHasBlock`, `BlockHasNode`), so that the span kept for an id
  is the last block of that id (`SpanIs`, `LastCounts`);
- replacements sorted by `FromTheEnd` come in falling order of their places
  (`FromTheEndRanks`, `FromTheEndIs`), and apart if the keys of the stream are
  (`StartsApart`), so that each splice finds the cuts before its own where they were:
  it replaces one block and leaves the others (`SpliceCuts`), and all of them together
  replace the blocks that `Upsert` replaces (`SplicedCuts`, `ReplacementsCut`);
- the directives that replace nothing are the new blocks of `Upsert`, in the order
  of the stream (`NewBlocksAre`), and the blocks of the whole are `Merged`
  (`MergedIs`, `AppliedMerges`).

`ReadsBackAlways` is about what `FormatDirective` and `Parse` do to one another, and
`ParseBack` is the whole of it: for every directive of a known kind (`IsDirective`),
`Parse(FormatDirective(d))` is the one directive `Written(d)`, at the first line and up
to the last. A written directive is a head and a body (`FormatParts`). The body is the
lines of its own metadata, then for each posting its line and the lines of its metadata
(`IsBody`), so the postings are found where the lengths of those before say
(`PostingPlaces`), and a posting's metadata is what stands between it and the next
(`PostingsBack`, `OwnMetaBack`). In the head, the arguments of one sort stand in a row
(`RowPlaces`), so lists that follow positional arguments are told from them by place
(`ArgsBack`); a transaction has its flag, and of payee and narration one string or two
(`TxnArgsBack`). Numbers, costs and prices read back one by one (`CostBack`,
`PostingBack`), keys in the fixed order (`KeyValuesBack`). `DecodedDirective` has every
line that is taken from a stream decoded to such a directive, so the theorem needs no
more of the invariant than that `incoming` was decoded from lines of known types.

`IdsStayApart` puts the two together: what is written under an id has that id again
(`WrittenID`, from the read-back, for ids without escapes), a text has its ids once
exactly if its blocks have (`ApartBlocks`), and `Merged` keeps blocks apart: a replaced
block keeps its id, and a new one has an id that no block and no other new directive
has (`MergedApart`). `ApartInv` carries this from the text read to the rename, past
editors that save in between.

Both sides select from a sequence by `Places`; that a list of places is determined by
what it lists (`ListsUnique`) makes two selections equal without an induction for each.

`LoaderProofs` goes on with what a finished load holds, under the same assumption
and `OneText`, that a file has one text by whichever path it is
reached (relative includes are resolved from the path's own directory,
`loader.go:61`, and the overlay is by path, so the code does not make it so):

- `MainIsComplete`: `Spec => []MainComplete`, a load that succeeded has read
  exactly the closure of the main file under includes;
- `JournalsAreWhole`: `Spec => []JournalsWhole`;
- `IncludesComeFirst`: `Spec => []IncludedBefore`;
- `FlatOnce`: `Spec => []FlatJournalsOnce`.

The inductive `CompleteInv` is `LoadInv` with two parts. `GraphInv`: the calls on
the stack are nested as their includes are (`Chain`); whatever a call has gone past
is in the stream, in `seen` or being loaded above it (`Frames`, `Accounted`); and
the files that are finished are closed under includes, readable and on no cycle
(`Settled`). `StreamInv`: the stream so far is the journals loaded before and the
lines of this load. The closure is the least set closed under includes, and no
path is followed step by step: that `Settled` is closed gives one inclusion, and
that nothing is seen but what is included gives the other.

`LedgerBookProofs` proves the properties of the booking engine for every sorted
stream of directives, over any accounts, commodities, tolerances and scenarios,
under `ToleranceAssumption`, `ScenarioAssumption` (what the parser gives the
engine: accounts, commodities, dates, postings, numbers in lowest terms),
`CommoditiesAssumption` (no commodity has the empty name) and `FiniteAssumption`
(a ledger names finitely many accounts and commodities):

- `LedgerInvariant`: `Spec => []LedgerInv`;
- `LotsStayNonNegative`: `Spec => []LotsNonNegative`;
- `EmptyLotsAreFree`: `Spec => []EmptyLotHasNoCost`;
- `BalancesAreTheJournal`: `Spec => []BalanceIsJournal`;
- `OutOfLifeIsReported`: `Spec => []OutOfLifeReported`;
- `AssertionsSettle`: `Spec => AssertionSettles`;
- `RejectedTxnsAreInert`: `Spec => RejectedTxnInert`;
- `LotsTrackBalances`: `Spec => LotTracksBalance`;
- `TxnsBalanceAtCost`: `Spec => BalancedAtCost`;
- `FxSpendsBalanceAtFace`: `Spec => FxSpendBalancedAtFace`.

The last two assume `Tolerant`, that no tolerance is negative. The code takes any
tolerance the configuration gives; with a negative one nothing is within
tolerance, not even a sum of zero, so the hypothesis is stated in the theorems
and not assumed of the constants.

`LedgerInv` conjoins the invariants with what they need of each other. `Sound` has
lots that are never negative and empty lots without cost at once: a lot that is
empty after the buys was empty before them only because units are never negative. `Timely` has no journal entry later
than the last directive: a close that comes now must not make an entry of before
one that went unreported. `InCommodity` has every lot that is held in a cost
commodity: an elided posting buys more of a lot only if the lot has one.

The argument has three parts. `BookingProofs` has the laws of the
rationals: that sums, negations and products of lowest terms are in lowest terms,
that they form a group and are ordered as such, and that a sum of sums is the sum
over all; and what each operator of `Booking` makes of an engine, whose type
(`Engine`) every directive keeps, whatever order directives come in. In
`LedgerBookProofs`, `Outcomes` says that a transaction either stops before it is
applied, is skipped as an oversale, clashes at one of its buys, or is journaled whole,
and the properties follow case by case. That no lot goes negative is an argument
about nets: the oversell test compares, for each lot, what is held with all buys
and all sales of the transaction, so that each prefix of its buys only adds and
the sales together take no more than that. It goes on with the same for cost
commodities and shows, posting by posting, that the amount booked is what is
bought less what is sold (`PostingTracks`); summed over the postings this is
`LotTracks`.

Double entry is an argument about two tables. What a journaled transaction does to
the books is a table of its postings: the books move in account `a` by what the
postings on `a` book of balances and of the cost of lots (`Audited`, `BooksMove`),
so that over all accounts they move by the sum over the postings, the same sum
taken the other way (`OverExchange`). On the other side stand the weights, which
the code sums before anything is booked. That the two agree posting by posting is
`GivenAtCost` and `GivenAtFace`; that lots move by what the postings say is
`LotCostMoves`, and needs that a lot keeps one cost commodity through its buys
(`BuysAgree`), that every sale is at the average of before (`SoldAtAverage`, the
sum of products a product of the sum) and that no lot is bought and sold at once:
a sale is then at an average that the buys have moved, which is why round trips are
excepted. A residual books the sum with its sign turned, and without one a sum
out of tolerance is an error (`PartsBalance`). For the books at face the same
accounts are drawn up without the lots of the currency itself.

`PeriodProofs` proves, for any days, any filters the patterns of a token admit,
any offsets, any flows and any number of moves, under `FiltersAssumption` and
`FlowsAssumption` (flows are a sequence, with whole numbers for amounts):

- `PeriodsDivideTime`: `Spec => [](Legible => PeriodsPartition)`;
- `RelativeFiltersAgree`: `Spec => [](Legible => RelativeAgrees)`;
- `StepsComeBack`: `Spec /\ []Legible => []Walks`;
- `BarsHoldEveryFlow`: `Spec => [](Charted => BarsAddUp)`.

`Legible` says that today, the period of the page's filter and the periods that
relative filters name lie in the years 4 to 9997, so that what is next to them is a
date of the calendar whose year has four digits. Beyond, the code does not keep
the properties: a token of the year 10000 is not read back, and a period that
begins on 0001-01-01 counts as open. Every state of the run is legible.
`Charted` says that the range of a chart, its open sides clamped, lies after
0001-01-01 and that the chart has fewer than the 5001 bins at which `IterateBins`
stops: the flows past the last bin of a longer one are in no bar. That takes
months of more than 416 years, or years of half the calendar. Every state of the
run is charted. Of a range, `Walks` says that it keeps its length if that is at most
`LongestSpan`, 106,751 days: the code takes it through a `time.Duration`, which
saturates there.

The calendar comes first. Years follow one another without gap (`YearLength`,
`YearsApart`), so every day is in exactly one (`YearIs`) and the search of `Year`
finds it. Months are numbered through the years: `Date`, with months that run
over, is the start of a month of that numbering and some days (`DateIs`), and every
day is in one (`CivilIs`). Then the five units are one: unit `q` of a kind begins at
`StartOfUnit(u, q)`, for a year that of month `12 * q`, for a week day `7 * q`.
`FirstIs` has `First` find the unit a day is in, for ISO weeks by way of their
Thursday and of the fourth of January; `PlusUnits` has `AddDate` lead from unit `q`
to unit `q + n`, since a first day is in every month; `TokenIs` has a token read
back as the unit it names; `SameToken` and `OneToken` that two days have one token
exactly if they are in one unit. The properties are then facts about integers:
the unit before, the unit after, `q + n - n`. Of the state, `StepsComeBack` needs
that a filter is always of a form a reader could have typed (`FiltersKept`), by
whichever moves it came about.

`BarsAddUp` has two parts. The sum that `MapThenSumSet` folds over a set of places
is that of a sequence with zeros at the other places (`TotalIs`, by induction over
the size of the set), so sums over disjoint sets add (`OverApart`). And the bins
from a date on hold the flows from that date on, each once (`BinsHold`): the table
of bins is a recursive function, which exists because the next bin begins later
(`NextBinLater`, `BinsExist`), and by induction over the days left until the end
of the range one more bin takes the flows up to the next one (`MoreBins`). The
first bin reaches back to the beginning of its month or year but holds nothing
from before the range, since it begins at the later of the two (`FirstBinIs`);
trimmed bars sum to zero (`TrimIs`, `AddUp`), and a clamped side is the least or
the latest date of a flow (`LeastAndMost`, `ClampedHolds`). The invariant of the
states is that a page is the one drawn for its filter and range (`Drawn`).

`PipelineProofs` proves, for any file, journal of prices and vocabulary, under
`PathAssumption` (accounts are their names, which are not empty),
`AssetsAssumption`, `FlowAssumption` and `OpCurrencyAssumption` (assets and flows
are accounts, the operating currency is a commodity), `IncomeAssumption` (an
account's Income account is an account), `RankAssumption` (the names of commodities
can be put in order, and no two are the same), `JournalsAssumption` (directives have
what the parser gives those of their kind, `IsParsed`: what the engine reads of them,
`IsDirective`, which is also what `ScenarioAssumption` grants of postings, and what the
expanders read), `PolicyAssumption` and `DefaultToleranceAssumption` (tolerances are
numbers, of any sign) and `FiniteAssumption`:

- `AutoInterestSettles`: `Spec => []AutoInterestIdempotent`;
- `TreesAlwaysAddUp`: `Spec => []TreesAddUp`;
- `AsOfAlwaysJournal`: `Spec => []AsOfIsJournal`.

An expanded stream is characterised by what it has (`Expanded`): the `open` of the
Income account of every interest account; a pad that waits, unspent by another
assertion, before every assertion of an interest account, in the order in which
booking takes the directives; and for every close of one a zero assertion, of any date,
in each of its commodities. A stream that has all this is returned as it is
(`ExpandedStays`), and every expansion makes it so (`ExpandedIs`), by induction over
the directives that `PadDirective` goes through. The inductive invariant
(`IsExpanded`) says that file and stream are lists of directives and that the stream
is expanded from the first run of the expander on. The steps that follow have to keep
it: `ExpandPads` appends transactions, which are none of the three (`TxnsAfter`,
`PadsKeepExpanded`), and `ExpandClosing` appends assertions and closes, after which
the expander runs a second time. That the marks it works from are those of accounts
and commodities takes the probe: booking leaves an engine behind, whatever the stream
(`BookIsEngine`, `MarksAre`). `SortedDirectives` counts, for each
position, the directives before it: the order is total, so it is a permutation
(`SortedAre`).

`InNumbers` is the type of what an opened ledger is made of: the stream is a list of
directives with dates, what was posted, what is booked anew as of a day and what
prices were observed are rationals in lowest terms. Every opened ledger is of this
type (`OpenIsInNumbers`): what the expanders add is again what a parser could have
given (`PadTxnIs`, `ClosingsAre`, `PriceIs`), booking of any stream of directives is an
engine (`BookIsEngine`, from the laws of `BookingProofs` one directive at a time), and
price directives observe numbers (`PricesLoaded`). In such a
state `TreesAddUp` is about the operators alone, and nothing is assumed about which
accounts hold what, which are below one another or which prices are missing.

`SumOver` chooses its terms one by one and does not say in which order. A table of
the sums of all subsets of a finite set exists (`TotalsExist`) and is the only one
(`TotalsAre`), so any term may be taken first (`SumsAny`), sums over disjoint sets
add (`SumsApart`) and a sum of sums over the parts of a set is the sum over the set
(`SumsOfParts`). The accounts under a name are those at it and those under the
names one below it, each under exactly one of these (`KidsAre`), and a name that
has no row has a sum of zero, which may be left out (`SumsLess`): so a row is its
account and the rows one below it (`RowAddsUp`), and so is the whole, which is what
is under the empty name (`TreeAddsUp`). A leaf that is split has no account below it
and none of the same name (`RowsSplit`); what is worth nothing may be left out of the
net worth (`WorthIsValue`). That a converted amount is a number takes the price
database case by case, down to the first of the commodities in between
(`RateFound`).

`AsOfIsJournal` compares two bookings: that of the whole stream, whose entries up to a
day are added up, and that of the stream cut off after the day. Cutting off and
sorting commute: what is sorted from the shorter stream is the first directives of
what is sorted from the longer one, and what follows is of later days
(`SortedUpTo`, since what is left out stands behind what is kept). So the two
bookings agree for as long as the shorter one lasts. The hypothesis that at the
engine's own tolerances every pad became a transaction rules out that a later assertion
posts on an earlier day: the probe that `ExpandPads` runs saw no pad materialize, and the booking is that probe
(`SettledRun`). Then every entry has the day of its directive (`PostedOnDay`): up to
the day each moves the balance and the sum of the journal by the same, after it
neither (`ActivityStep`, `BookedAnew`). The
ledger itself was booked at its own tolerances; the other hypothesis says that for the
whole stream this made no difference to what was posted, and the theorem that then it
makes none up to any day.

What folds over sequences compute is shown by induction over their
length, carried out in each case on the set of lengths at which the claim fails,
so sums have any number of terms.

Only model-checked remain

- the liveness properties `EditsSettle`, `LoadEnds` and `Ends`: TLAPS has no
  `ENABLED`;
- the other properties of Pipeline: they compare two bookings of streams of which
  neither is the beginning of the other, or an expansion with the stream it was made
  from.

## 5. Not modelled

- The grammar: tree-sitter's, with its recovery from errors; only the tree walk
  over what ingest writes is modelled (Directives). The other models take texts
  and items as data.
- A cost without a commodity, as in `{5}`, which the parser lets pass
  (`parser.go:497`): costs in Booking have one.
- CUE unification and project discovery: their outcomes are inputs of Session,
  Pipeline and Loader.
- Interest rate expressions and the conversion of yearly to daily rates: decimal
  arithmetic in one function, the result of which is a constant here.
- The value series of one account: the walk of `NetWorthSeries` with projected
  units in place of booked ones.
- The web server but for its time query, the command line but for `ingest`,
  documents, dumps, formatting of diagnostics and positions: rendering and I/O
  without state between calls.
- Completion, hover and goto of the language server: they read the snapshot.

## 6. Plan

In the order of what matters most.

1. `SeriesIsNetWorth` of Pipeline by induction over the days of the walk: booking
   the days up to a date, one after the other, is booking the ledger up to it.
2. Two ledgers sharing one price database in Pipeline.
3. An abstract specification of the session, a snapshot that is always of one
   moment per file and never goes back, with Session shown to implement it.
