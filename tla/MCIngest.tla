------------------------------ MODULE MCIngest ------------------------------
(***************************************************************************)
(* Small instances of Ingest.  Short lines drive the pipe, the merge and   *)
(* the file; Solos send one rich line each to an empty journal.            *)
(***************************************************************************)
EXTENDS Ingest

W(w) == Word(w)
Meta(key, value) == [k \in {key} |-> W(value)]

MCPlain == {"", "x", "y", "lunch", "cafe", "index", "CDI", "bank", "yes"}
MCTrim == [w \in {" x "} |-> "x"]
MCLongNumbers == [w \in {"1/3"} |-> "0.333333333333333333"]
MCBadWords == {"bad"}
MCKeyOrder == <<"ingest_id", "vat">>

Line(type, id, args) ==
    [type |-> type, id |-> W(id), date |-> W("2025-01-01"), args |-> args, rest |-> << >>,
     md |-> NoMeta, postings |-> << >>]

Units(n, c) == <<[number |-> W(n), commodity |-> W(c)]>>
Leg(account, units) ==
    [account |-> W(account), units |-> units, cost |-> << >>, price |-> << >>, md |-> NoMeta]

Note(id, comment) == Line("note", id, <<W("Cash"), W(comment)>>)
Txn(id, n) ==
    [Line("transaction", id, <<W("*"), W("cafe"), W("lunch")>>) EXCEPT
        !.postings = [i \in 1..n |-> Leg("Cash", Units("1", "BRL"))]]
PriceLine == Line("price", "", <<W("USD"), W("5"), W("BRL")>>)
BadLine == Line("price", "", <<W("USD"), W("bad"), W("BRL")>>)

Own(what) == <<[line |-> "own", what |-> what]>>
Text(line) == FormatDirective(DecodeLine(line))

MCTexts ==
    {<< >>,
     Own("comment") \o Text(Note("y", "lunch")) \o Own("blank") \o Text(Txn("x", 2))
        \o Text(PriceLine) \o Own("comment"),
     Own("comment") \o <<[line |-> "broken", what |-> "?"]>>}

Common == {Note("x", "lunch"), Txn(" x ", 1), Txn("y", 2), PriceLine, BadLine}

Pairs == {<<a, b>> : a, b \in Common \ {BadLine}}
Longer == {<<Txn("x", 1), Note("y", "lunch"), Note("x", "lunch")>>,
           <<PriceLine, BadLine, Txn("x", 1), PriceLine>>,
           <<BadLine, Note("y", "lunch"), PriceLine, Txn("x", 1)>>}

(* One line of every kind, with and without what it may leave out. *)
Amounts == {<< >>, Units("", ""), Units("1/3", "BRL"), Units("1", ""), Units("bad", "BRL")}
Cost(empty, n, date) ==
    <<[empty |-> empty, number |-> W(n), commodity |-> W("BRL"), date |-> W(date)]>>
Costs == << << >>, Cost(TRUE, "", ""), Cost(TRUE, "1/3", "2025-01-01"), Cost(FALSE, "", ""),
            Cost(FALSE, "1/3", ""), Cost(FALSE, "1", "2025-01-01")>>
Price(total) == <<[number |-> W("1/3"), commodity |-> W("BRL"), total |-> total]>>
Prices == << << >>, Price(TRUE), Price(FALSE)>>

(* Every cost and every price, half of the legs with metadata. *)
RichLegs(units) ==
    [i \in 1..6 |->
        [account |-> W("Cash"), units |-> units, cost |-> Costs[(i % 6) + 1],
         price |-> Prices[(i % 3) + 1], md |-> IF i > 3 THEN NoMeta ELSE Meta("vat", "yes")]]

RichTxn(units) == [Txn("", 0) EXCEPT !.postings = RichLegs(units) \o <<Leg("Bank", << >>)>>]

Headed(n, flag, payee, narration) ==
    [Txn("", n) EXCEPT !.args = <<W(flag), W(payee), W(narration)>>, !.md = Meta("vat", "yes"),
                       !.rest = <<Arg("tag", W("food")), Arg("link", W("bill"))>>]
Listed(type, list, date) ==
    [Line(type, "y", <<W("index")>>) EXCEPT !.rest = list, !.date = W(date)]
Values(n) == <<Arg("string", W("CDI")), Arg("number", W(n))>>
Currencies == <<Arg("name", W("BRL")), Arg("name", W("USD"))>>

Rich == {<<RichTxn(<< >>), RichTxn(Units("", "")), RichTxn(Units("1/3", "BRL"))>>,
         <<Headed(0, "", "", ""), Headed(1, "!", "", "a\\b"),
           Headed(1, "", "cafe", ""), Headed(0, "!", "cafe", "lunch")>>,
         <<Line("option", "y", <<W("title"), W("x")>>), Line("include", "", <<W("x")>>),
           Line("commodity", "y", <<W("BRL")>>), Line("close", "", <<W("Cash")>>),
           Line("balance", "", <<W("Cash"), W("1/3"), W("BRL")>>),
           Line("pad", "", <<W("Cash"), W("Equity")>>),
           Line("document", "", <<W("Cash"), W("a\\b")>>),
           Line("event", "", <<W("x"), W("y")>>),
           Listed("open", Currencies, ""), Listed("custom", Values("1/3"), "2025-01-01")>>}

(* Lines that are no directive, and one that is written but not read. *)
Wrong == {RichTxn(Units("bad", "BRL")), RichTxn(Units("1", "")), Line("query", "y", << >>),
          Listed("custom", Values("bad"), ""), Listed("open", Currencies, "bad"),
          Line("event", "y", <<W(""), W("y")>>)}

Singles == {<<a>> : a \in Common}
Again == Singles \cup {<<Txn("y", 2), Note("x", "lunch")>>, <<Txn(" x ", 1), Txn("y", 2), PriceLine>>}
MCStreams == <<{<< >>} \cup Pairs \cup Longer \cup Rich \cup {<<line>> : line \in Wrong}, Again>>

(* Two lines that ask for one ingest_id, only one of them by its id. *)
Twice == <<{<<Note("x", "lunch"), [Note("", "lunch") EXCEPT !.md = Meta("ingest_id", "x")]>>}>>

(* Only the stream above asks for one id twice. *)
ASSUME GivenAssumption == Streams = Twice \/ GivenApart
=============================================================================
