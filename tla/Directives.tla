----------------------------- MODULE Directives -----------------------------
(***************************************************************************)
(* The three forms of a directive that contapila ingest goes through: a    *)
(* JSONL line, the directive of internal/ast, and the lines of a journal.  *)
(* DecodeLine (internal/ingest/jsonl.go), FormatDirective (format.go) and  *)
(* Parse (internal/parser) translate between them.                         *)
(*                                                                         *)
(* Words carry the number of times they were written between quotes that   *)
(* had to be escaped; numbers, dates and names are words too.  What may be *)
(* absent is a sequence of at most one element.  The unit of a text is its *)
(* line, with its newline.                                                 *)
(***************************************************************************)
EXTENDS Orders, SequencesExt

CONSTANTS Plain,       \* words that %q leaves as they are
          Trim,          \* [words with blanks around -> words]
          LongNumbers,    \* [numbers of more than 18 decimals -> rounded]
          BadWords,         \* not a number and not a date
          KeyOrder           \* the metadata keys in the order of sort.Strings

Word(w) == [word |-> w, escapes |-> 0]
Nothing == Word("")
Epoch == Word("1970-01-01")
IngestIDMetaKey == "ingest_id"

ASSUME WordsAssumption ==
    /\ KeyOrder \in Seq(ToSet(KeyOrder)) /\ IngestIDMetaKey \in ToSet(KeyOrder)
    /\ "" \in Plain
    /\ \A w \in DOMAIN LongNumbers : LongNumbers[w] # ""
NoMeta == [k \in {} |-> Nothing]

(* The positional arguments of a directive, by what they are.  Lists (the  *)
(* currencies of open, the values of custom) follow them.                  *)
Shape == [option |-> <<"string", "string">>, include |-> <<"string">>,
          commodity |-> <<"name">>, open |-> <<"name">>, close |-> <<"name">>,
          price |-> <<"name", "number", "name">>, balance |-> <<"name", "number", "name">>,
          pad |-> <<"name", "name">>, note |-> <<"name", "string">>,
          event |-> <<"string", "string">>, custom |-> <<"string">>,
          document |-> <<"name", "string">>, transaction |-> <<"flag", "string", "string">>]

HasMetadata(kind) == kind \notin {"option", "include"}

Arg(as, value) == [as |-> as, value |-> value]

----------------------------------------------------------------------------
(* A JSONL line as a directive. *)

(* The fields of a line: as many arguments as its kind has, lists, tags    *)
(* and links after them, and postings.                                     *)
IsCost(c) ==
    /\ c = [empty |-> c.empty, number |-> c.number, commodity |-> c.commodity, date |-> c.date]
    /\ c.empty \in BOOLEAN

IsPosting(p) ==
    /\ p = [account |-> p.account, units |-> p.units, cost |-> p.cost, price |-> p.price, md |-> p.md]
    /\ p.cost # << >> => p.cost = <<p.cost[1]>> /\ IsCost(p.cost[1])
    /\ DOMAIN p.md \subseteq ToSet(KeyOrder)

IsLine(line) ==
    /\ line.postings \in Seq(ToSet(line.postings)) /\ \A p \in ToSet(line.postings) : IsPosting(p)
    /\ line.rest \in Seq(ToSet(line.rest))
    /\ \A a \in ToSet(line.rest) : a = [as |-> a.as, value |-> a.value]
    /\ line.type = "transaction" => \A a \in ToSet(line.rest) : a.as \in {"tag", "link"}
    /\ line.args \in Seq(ToSet(line.args))
    /\ line.type \in DOMAIN Shape => Len(line.args) = Len(Shape[line.type])
    /\ DOMAIN line.md \subseteq ToSet(KeyOrder)

ParseRat(w) == w.word \notin BadWords \cup {""}
ParseDate(w) == w.word \notin BadWords     \* the empty date is the zero time

JsonAmountOk(amount) == ParseRat(amount.number)

(* Units whose two fields are empty are a residual leg. *)
ToUnits(units) ==
    IF units # << >> /\ units[1].number = Nothing /\ units[1].commodity = Nothing
    THEN << >> ELSE units

PostingOk(p) ==
    /\ \A u \in ToSet(ToUnits(p.units)) : JsonAmountOk(u)
    /\ \A c \in ToSet(p.cost) : (c.number = Nothing \/ ParseRat(c.number)) /\ ParseDate(c.date)
    /\ \A r \in ToSet(p.price) : ParseRat(r.number)

ToPosting(p) == [p EXCEPT !.units = ToUnits(@)]

LineOk(line) ==
    /\ line.type \in DOMAIN Shape
    /\ ParseDate(line.date)
    /\ \A i \in DOMAIN line.args :
          Shape[line.type][i] = "number" => ParseRat(line.args[i])
    /\ line.type \in {"event", "custom"} => line.args[1] # Nothing
    /\ \A i \in DOMAIN line.rest : line.rest[i].as = "number" => ParseRat(line.rest[i].value)
    /\ \A i \in DOMAIN line.postings : PostingOk(line.postings[i])

Trimmed(w) == IF w.word \in DOMAIN Trim THEN Word(Trim[w.word]) ELSE w

(* The id a line is sent under. *)
LineID(line) == Trimmed(line.id)

MetaWith(md, key, value) ==
    [k \in DOMAIN md \cup {key} |-> IF k = key THEN value ELSE md[k]]

(* The id of the line becomes metadata, where the kind has any. *)
WithIngestID(d, id) ==
    IF id = Nothing \/ ~HasMetadata(d.kind) THEN d
    ELSE [d EXCEPT !.md = MetaWith(@, IngestIDMetaKey, id)]

DecodeLine(line) ==
    WithIngestID([kind |-> line.type, date |-> line.date, args |-> line.args, rest |-> line.rest,
                  md |-> IF HasMetadata(line.type) THEN line.md ELSE NoMeta,
                  postings |-> [i \in DOMAIN line.postings |-> ToPosting(line.postings[i])]],
                 LineID(line))

IngestID(d) ==
    IF IngestIDMetaKey \in DOMAIN d.md THEN d.md[IngestIDMetaKey] ELSE Nothing

----------------------------------------------------------------------------
(* A directive as the lines of a journal. *)

(* Between quotes: %q escapes what is not plain. *)
QuoteStr(w) == IF w.word \in Plain THEN w ELSE [w EXCEPT !.escapes = @ + 1]

FormatRat(w) == IF w.word \in DOMAIN LongNumbers THEN Word(LongNumbers[w.word]) ELSE w

FmtDate(w) == IF w = Nothing THEN Epoch ELSE w

WriteArg(a) ==
    [a EXCEPT !.value = CASE a.as = "string" -> QuoteStr(@)
                          [] a.as = "number" -> FormatRat(@)
                          [] OTHER -> @]

WriteMeta(md) ==
    LET at == Places([i \in DOMAIN KeyOrder |-> KeyOrder[i] \in DOMAIN md])
        written(key) == [line |-> "meta", key |-> key, value |-> QuoteStr(md[key])]
    IN  [n \in DOMAIN at |-> written(KeyOrder[at[n]])]

(* A cost that is neither empty nor has a number is not written. *)
WriteCost(cost) ==
    LET c == cost[1]
    IN  IF cost = << >> THEN << >>
        ELSE IF c.empty THEN <<[number |-> Nothing, commodity |-> Nothing, date |-> Nothing]>>
        ELSE IF c.number = Nothing THEN << >>
        ELSE <<[number |-> FormatRat(c.number), commodity |-> c.commodity,
                date |-> IF c.date = Nothing THEN Nothing ELSE FmtDate(c.date)]>>

WritePosting(p) ==
    <<[line |-> "posting", account |-> p.account,
       units |-> [i \in DOMAIN p.units |-> [p.units[i] EXCEPT !.number = FormatRat(@)]],
       cost |-> WriteCost(p.cost),
       price |-> [i \in DOMAIN p.price |-> [p.price[i] EXCEPT !.number = FormatRat(@)]]]>>
    \o WriteMeta(p.md)

(* The strings of a transaction: payee and narration, or the narration if  *)
(* there is one.                                                           *)
TxnArgs(args) ==
    LET flag == IF args[1] = Nothing THEN Word("*") ELSE args[1]
        strings == IF args[2] # Nothing THEN <<args[2], args[3]>>
                   ELSE IF args[3] # Nothing THEN <<args[3]>> ELSE << >>
    IN  <<Arg("flag", flag)>> \o [i \in DOMAIN strings |-> Arg("string", strings[i])]

HeadArgs(d) ==
    IF d.kind = "transaction" THEN TxnArgs(d.args)
    ELSE [i \in DOMAIN d.args |-> Arg(Shape[d.kind][i], d.args[i])]

FormatDirective(d) ==
    LET args == HeadArgs(d) \o d.rest
        head == [line |-> "head", kind |-> d.kind, date |-> FmtDate(d.date),
                 args |-> [i \in DOMAIN args |-> WriteArg(args[i])]]
        postings == [i \in DOMAIN d.postings |-> WritePosting(d.postings[i])]
    IN  <<head>> \o WriteMeta(d.md) \o FlattenSeq(postings)

----------------------------------------------------------------------------
(* The lines of a journal as directives.  What belongs to a node of the    *)
(* tree, and what is a syntax error, is the grammar's.                     *)

Continues(l) == l.line \in {"meta", "posting"}

HeadOk(l) ==
    /\ HasMetadata(l.kind)     \* options and includes have no date
    /\ \A i \in DOMAIN l.args : l.args[i].as # "string" => l.args[i].value # Nothing

(* Errors of the grammar, and amounts without a commodity. *)
LineBroken(text, i) ==
    LET l == text[i]
    IN  \/ l.line = "broken"
        \/ l.line = "head" /\ ~HeadOk(l)
        \/ Continues(l) /\ (i = 1 \/ text[i - 1].line = "own")
        \/ l.line = "posting" /\ \E u \in ToSet(l.units) : u.commodity = Nothing

HasErrors(text) == \E i \in DOMAIN text : LineBroken(text, i)

Heads(text) == Places([i \in DOMAIN text |-> text[i].line = "head"])

(* The last line of the node that starts at a head. *)
NodeEnd(text, i) ==
    CHOOSE e \in i..Len(text) :
        /\ \A j \in i + 1..e : Continues(text[j])
        /\ e = Len(text) \/ ~Continues(text[e + 1])

ParseKeyValues(lines) ==
    LET metas == {i \in DOMAIN lines : lines[i].line = "meta"}
        lastOf(key) == CHOOSE i \in metas : lines[i].key = key /\
                           \A j \in metas : lines[j].key = key => j <= i
    IN  [k \in {lines[i].key : i \in metas} |-> lines[lastOf(k)].value]

ParseCost(cost) ==
    [i \in DOMAIN cost |->
        [empty |-> cost[i].number = Nothing, number |-> cost[i].number,
         commodity |-> cost[i].commodity, date |-> cost[i].date]]

ConvertPosting(l, md) ==
    [account |-> l.account, units |-> l.units, cost |-> ParseCost(l.cost),
     price |-> l.price, md |-> md]

(* Metadata before the first posting is the transaction's, after it the    *)
(* posting's above.                                                        *)
ConvertPostings(body) ==
    LET at == Places([i \in DOMAIN body |-> body[i].line = "posting"])
        upTo(n) == IF n = Len(at) THEN Len(body) ELSE at[n + 1] - 1
    IN  [n \in DOMAIN at |->
            ConvertPosting(body[at[n]], ParseKeyValues(SubSeq(body, at[n], upTo(n))))]

(* Mutant: metadata below a posting is the transaction's. *)
MutOwnMeta(body) == ParseKeyValues(body)

OwnMeta(body) ==
    LET at == {i \in DOMAIN body : body[i].line = "posting"}
    IN  ParseKeyValues(IF at = {} THEN body
                       ELSE SubSeq(body, 1, (CHOOSE i \in at : \A j \in at : i <= j) - 1))

(* One string is a narration, two are payee and narration. *)
ConvertTxnArgs(args) ==
    LET at == Places([i \in DOMAIN args |-> args[i].as = "string"])
        string(n) == args[at[n]].value
    IN  <<args[1].value,
          IF Len(at) = 2 THEN string(1) ELSE Nothing,
          IF at = << >> THEN Nothing ELSE string(Len(at))>>

ConvertRest(head) ==
    LET at == Places([i \in DOMAIN head.args |-> head.args[i].as \in {"tag", "link"}])
    IN  IF head.kind = "transaction" THEN [n \in DOMAIN at |-> head.args[at[n]]]
        ELSE SubSeq(head.args, Len(Shape[head.kind]) + 1, Len(head.args))

Convert(node) ==
    LET head == node[1]
        body == Tail(node)
    IN  [kind |-> head.kind, date |-> head.date,
         args |-> IF head.kind = "transaction" THEN ConvertTxnArgs(head.args)
                  ELSE [i \in DOMAIN Shape[head.kind] |-> head.args[i].value],
         rest |-> ConvertRest(head),
         md |-> OwnMeta(body),
         postings |-> ConvertPostings(body)]

(* Directives with their spans: [start, end) in lines. *)
Parse(text) ==
    LET heads == Heads(text)
        node == [i \in DOMAIN text |->
                    [d |-> Convert(SubSeq(text, i, NodeEnd(text, i))),
                     start |-> i - 1, end |-> NodeEnd(text, i)]]
    IN  [n \in DOMAIN heads |-> node[heads[n]]]

----------------------------------------------------------------------------
(* A text as blocks: a directive with the lines that belong to it, or a    *)
(* line that is none.                                                      *)
Opens(text, i) == ~(Continues(text[i]) /\ i > 1 /\ text[i - 1].line # "own")

Blocks(text) ==
    LET opening == Places([i \in DOMAIN text |-> Opens(text, i)])
        lastOf(n) == IF n = Len(opening) THEN Len(text) ELSE opening[n + 1] - 1
    IN  [n \in DOMAIN opening |-> SubSeq(text, opening[n], lastOf(n))]

BlockID(block) == IF block[1].line = "head" THEN IngestID(Convert(block)) ELSE Nothing
=============================================================================
