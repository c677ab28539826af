------------------------------- MODULE Ingest -------------------------------
(***************************************************************************)
(* contapila ingest: ingestCmd of cmd/contapila/main.go with DecodeJSONL,  *)
(* Apply and WriteFileAtomic of internal/ingest.  The lines of the stream  *)
(* come over a pipe from a command or from standard input; they are merged *)
(* into a journal by replacing spans of its text, and the journal is       *)
(* replaced through a temporary file.  Meanwhile an editor may save the    *)
(* journal, any system call may fail and the process may be killed.        *)
(***************************************************************************)
EXTENDS Directives

CONSTANTS
    Texts,             \* what the user may write into the journal
    Streams,           \* for each ingest, one after another, the streams its
                       \* producer may write: sequences of JSONL lines
    Capacity,          \* lines that fit into the pipe and the scanner's buffer
    MaxEdits,          \* bounds: saves of the editor,
    MaxFaults          \* failing calls and kills

Lines == UNION {ToSet(lines) : lines \in UNION ToSet(Streams)}

ASSUME IngestAssumption ==
    /\ Streams \in Seq(SUBSET Seq(Lines))
    /\ \A line \in Lines : IsLine(line)
    /\ \A text \in Texts : text \in Seq(ToSet(text))
    /\ Capacity \in Nat /\ MaxEdits \in Nat /\ MaxFaults \in Nat

VARIABLES
    stream,            \* what the producer has to write: [lines, command, exit]
    written,           \* how many of its lines it has written
    read,              \* and how many the decoder has taken out of the pipe
    producer,          \* "none", "running", "succeeded" or "failed"
    pc,                \* where the ingest is
    incoming, byID,    \* DecodeJSONL's out and byID
    badLine,           \* DecodeJSONL returned an error
    existing, out,     \* what was read from the target and what is to be written
    target, temp,      \* the two files, as lines; temp is << >> or one text
    strays,            \* temporary files of killed runs
    outcome,           \* of the last run: "none", "ok", "error" or "killed"
    runs, edits, faults

pipeVars == <<stream, written, read, producer>>
decodeVars == <<incoming, byID, badLine>>
fileVars == <<target, temp, strays>>
vars == <<pipeVars, pc, decodeVars, existing, out, fileVars, outcome, runs, edits, faults>>

Pipe == SubSeq(stream.lines, read + 1, written)

----------------------------------------------------------------------------
(* Apply: the new text of the journal, from spans of the old one. *)

(* The last directive of an ingest_id. *)
IdSpan(dirs) ==
    LET ids == {IngestID(dirs[n].d) : n \in DOMAIN dirs} \ {Nothing}
        lastOf(id) == dirs[Max({n \in DOMAIN dirs : IngestID(dirs[n].d) = id})]
    IN  [id \in ids |-> lastOf(id)]

(* The directives that replace one of the file, and those that are new. *)
Known(spans, ds) ==
    LET at == Places([i \in DOMAIN ds |-> IngestID(ds[i]) \in DOMAIN spans])
    IN  [n \in DOMAIN at |-> ds[at[n]]]

Added(spans, ds) ==
    LET at == Places([i \in DOMAIN ds |-> IngestID(ds[i]) \notin DOMAIN spans])
    IN  [n \in DOMAIN at |-> ds[at[n]]]

Replacements(spans, known) ==
    LET span(d) == spans[IngestID(d)]
    IN  [n \in DOMAIN known |->
            [start |-> span(known[n]).start, end |-> span(known[n]).end,
             text |-> FormatDirective(known[n])]]

(* Mutant: replacements from the start of the file to its end. *)
MutFromTheEnd(repls) ==
    LET before(i) == {j \in DOMAIN repls : \/ repls[j].start < repls[i].start
                                           \/ repls[j].start = repls[i].start /\ j < i}
        nth(n) == CHOOSE i \in DOMAIN repls : Cardinality(before(i)) = n - 1
    IN  [n \in DOMAIN repls |-> repls[nth(n)]]

(* From the end of the file to its start; those of one span in the order   *)
(* of the stream (sort.Slice is an insertion sort on short slices).        *)
FromTheEnd(repls) ==
    LET before(i) == {j \in DOMAIN repls : \/ repls[j].start > repls[i].start
                                           \/ repls[j].start = repls[i].start /\ j < i}
        nth(n) == CHOOSE i \in DOMAIN repls : Cardinality(before(i)) = n - 1
    IN  [n \in DOMAIN repls |-> repls[nth(n)]]

(* One replacement; a span beyond the text is an error. *)
Splice(acc, r) ==
    IF ~acc.ok \/ r.end > Len(acc.text) THEN [ok |-> FALSE, text |-> acc.text]
    ELSE [ok |-> TRUE,
          text |-> SubSeq(acc.text, 1, r.start) \o r.text
                   \o SubSeq(acc.text, r.end + 1, Len(acc.text))]

Spliced(text, repls) ==
    LET after[n \in 0..Len(repls)] ==
            IF n = 0 THEN [ok |-> TRUE, text |-> text] ELSE Splice(after[n - 1], repls[n])
    IN  after[Len(repls)]

(* The replaced text with the new directives after it. *)
Apply(text, repls, added) ==
    LET spliced == Spliced(text, repls)
    IN  [ok |-> spliced.ok,
         text |-> spliced.text \o FlattenSeq([n \in DOMAIN added |-> FormatDirective(added[n])])]

----------------------------------------------------------------------------
Init ==
    /\ stream = [lines |-> << >>, command |-> FALSE, exit |-> "succeeded"]
    /\ written = 0 /\ read = 0
    /\ producer = "none"
    /\ pc = "idle"
    /\ incoming = << >> /\ byID = << >> /\ badLine = FALSE
    /\ existing = << >> /\ out = << >>
    /\ target \in Texts
    /\ temp = << >>
    /\ strays = 0
    /\ outcome = "none"
    /\ runs = 0 /\ edits = 0 /\ faults = 0

(* The command is started, or standard input is opened by someone else.    *)
Start ==
    /\ pc = "idle"
    /\ runs < Len(Streams)
    /\ runs' = runs + 1
    /\ \E lines \in Streams[runs + 1], command \in BOOLEAN, exit \in {"succeeded", "failed"} :
          /\ ~command => exit = "succeeded"     \* nobody waits for the writer of stdin
          /\ stream' = [lines |-> lines, command |-> command, exit |-> exit]
    /\ producer' = "running"
    /\ pc' = "decode"
    /\ written' = 0 /\ read' = 0
    /\ incoming' = << >> /\ byID' = << >> /\ badLine' = FALSE
    /\ existing' = << >> /\ out' = << >>
    /\ UNCHANGED <<fileVars, outcome, edits, faults>>

(* Mutant: the pipe never blocks its writer. *)
MutProducerWrite ==
    /\ producer = "running"
    /\ written < Len(stream.lines)
    /\ written' = written + 1
    /\ UNCHANGED <<stream, read, producer, pc, decodeVars, existing, out, fileVars, outcome,
                   runs, edits, faults>>

(* The producer blocks while the pipe is full. *)
ProducerWrite ==
    /\ producer = "running"
    /\ written < Len(stream.lines)
    /\ Len(Pipe) < Capacity
    /\ written' = written + 1
    /\ UNCHANGED <<stream, read, producer, pc, decodeVars, existing, out, fileVars, outcome,
                   runs, edits, faults>>

(* It ends when it has written everything; one that fails may do so early. *)
ProducerExit ==
    /\ producer = "running"
    /\ written = Len(stream.lines) \/ stream.exit = "failed"
    /\ producer' = stream.exit
    /\ UNCHANGED <<stream, written, read, pc, decodeVars, existing, out, fileVars, outcome,
                   runs, edits, faults>>

Return(how) ==
    /\ pc' = "idle"
    /\ outcome' = how

(* Mutant: ids are not remembered. *)
MutRemember(line) ==
    /\ incoming' = Append(incoming, DecodeLine(line))
    /\ UNCHANGED byID

(* Of the lines with one id the last counts, in the place of the first.    *)
Remember(line) ==
    LET id == LineID(line)
        d == DecodeLine(line)
    IN  IF id # Nothing /\ id \in DOMAIN byID
        THEN incoming' = [incoming EXCEPT ![byID[id]] = d] /\ UNCHANGED byID
        ELSE /\ incoming' = Append(incoming, d)
             /\ byID' = IF id = Nothing THEN byID
                        ELSE [i \in DOMAIN byID \cup {id} |->
                                 IF i = id THEN Len(incoming) + 1 ELSE byID[i]]

DecodeLineStep ==
    LET line == Head(Pipe)
    IN  /\ pc = "decode"
        /\ Pipe # << >>
        /\ LineOk(line)
        /\ read' = read + 1
        /\ Remember(line)
        /\ UNCHANGED <<stream, written, producer, pc, badLine, existing, out, fileVars, outcome,
                       runs, edits, faults>>

(* Mutant: a line that is no directive is tried again.                     *)
MutDecodeFails ==
    /\ pc = "decode"
    /\ Pipe # << >>
    /\ ~LineOk(Head(Pipe))
    /\ badLine' = TRUE
    /\ UNCHANGED <<pipeVars, pc, incoming, byID, existing, out, fileVars, outcome,
                   runs, edits, faults>>

(* A line that is no directive ends the decoding.  A command is waited     *)
(* for, and nothing reads its output any more.                             *)
DecodeFails ==
    /\ pc = "decode"
    /\ Pipe # << >>
    /\ ~LineOk(Head(Pipe))
    /\ read' = read + 1
    /\ badLine' = TRUE
    /\ IF stream.command THEN pc' = "wait" /\ UNCHANGED outcome ELSE Return("error")
    /\ UNCHANGED <<stream, written, producer, incoming, byID, existing, out, fileVars,
                   runs, edits, faults>>

DecodeEnds ==
    /\ pc = "decode"
    /\ Pipe = << >>
    /\ producer # "running"
    /\ pc' = IF stream.command THEN "wait" ELSE "read"
    /\ UNCHANGED <<pipeVars, decodeVars, existing, out, fileVars, outcome, runs, edits, faults>>

Wait ==
    /\ pc = "wait"
    /\ producer # "running"
    /\ IF badLine \/ producer = "failed" THEN Return("error")
       ELSE pc' = "read" /\ UNCHANGED outcome
    /\ UNCHANGED <<pipeVars, decodeVars, existing, out, fileVars, runs, edits, faults>>

(* The target is read and the merge computed; a text that does not parse,  *)
(* or a span that moved, is an error.                                      *)
ReadTarget ==
    /\ pc = "read"
    /\ \/ /\ HasErrors(target)
          /\ Return("error") /\ UNCHANGED <<existing, out>>
       \/ /\ ~HasErrors(target)
          /\ \E dirs \in {Parse(target)} : \E spans \in {IdSpan(dirs)} :
             \E repls \in {Replacements(spans, Known(spans, incoming))} :
             \E applied \in {Apply(target, FromTheEnd(repls), Added(spans, incoming))} :
                IF applied.ok
                THEN existing' = target /\ out' = applied.text /\ pc' = "create" /\ UNCHANGED outcome
                ELSE Return("error") /\ UNCHANGED <<existing, out>>
    /\ UNCHANGED <<pipeVars, decodeVars, fileVars, runs, edits, faults>>

CreateTemp ==
    /\ pc = "create"
    /\ temp' = <<(<< >>)>>
    /\ pc' = "write"
    /\ UNCHANGED <<pipeVars, decodeVars, existing, out, target, strays, outcome,
                   runs, edits, faults>>

(* Written and closed. *)
WriteTemp ==
    /\ pc = "write"
    /\ temp' = <<out>>
    /\ pc' = "rename"
    /\ UNCHANGED <<pipeVars, decodeVars, existing, out, target, strays, outcome,
                   runs, edits, faults>>

Rename ==
    /\ pc = "rename"
    /\ target' = temp[1]
    /\ temp' = << >>
    /\ pc' = "remove"
    /\ outcome' = "ok"
    /\ UNCHANGED <<pipeVars, decodeVars, existing, out, strays, runs, edits, faults>>

(* Mutant: the temporary file is not removed. *)
MutRemoveTemp ==
    /\ pc = "remove"
    /\ pc' = "idle"
    /\ UNCHANGED <<pipeVars, decodeVars, existing, out, fileVars, outcome, runs, edits, faults>>

(* The deferred os.Remove; after a rename there is nothing to remove. *)
RemoveTemp ==
    /\ pc = "remove"
    /\ temp' = << >>
    /\ pc' = "idle"
    /\ UNCHANGED <<pipeVars, decodeVars, existing, out, target, strays, outcome,
                   runs, edits, faults>>

(* A call fails: reading the target and creating the file return at once,  *)
(* a write may have written a part, and the deferred removal follows.      *)
CallFails ==
    /\ faults < MaxFaults
    /\ faults' = faults + 1
    /\ \/ /\ pc \in {"read", "create"}
          /\ Return("error")
          /\ UNCHANGED temp
       \/ /\ pc = "write"
          /\ \E n \in 0..Len(out) : temp' = <<SubSeq(out, 1, n)>>
          /\ pc' = "remove" /\ outcome' = "error"
       \/ /\ pc = "rename"
          /\ pc' = "remove" /\ outcome' = "error"
          /\ UNCHANGED temp
    /\ UNCHANGED <<pipeVars, decodeVars, existing, out, target, strays, runs, edits>>

(* The process ends between two steps; what it had open is gone, the       *)
(* temporary file stays.  Its producer meets a closed pipe and ends.       *)
Kill ==
    /\ pc # "idle"
    /\ faults < MaxFaults
    /\ faults' = faults + 1
    /\ strays' = strays + Len(temp)
    /\ temp' = << >>
    /\ Return("killed")
    /\ producer' = "failed"
    /\ UNCHANGED <<stream, written, read, decodeVars, existing, out, target, runs, edits>>

EditorSaves ==
    /\ edits < MaxEdits
    /\ edits' = edits + 1
    /\ target' \in Texts \ {target}
    /\ UNCHANGED <<pipeVars, pc, decodeVars, existing, out, temp, strays, outcome, runs, faults>>

Decode == DecodeLineStep \/ DecodeFails \/ DecodeEnds
WriteFileAtomic == CreateTemp \/ WriteTemp \/ Rename \/ RemoveTemp
Work == Decode \/ Wait \/ ReadTarget \/ WriteFileAtomic

Next ==
    \/ Start \/ ProducerWrite \/ ProducerExit
    \/ Work \/ CallFails \/ Kill
    \/ EditorSaves

(* The process is never blocked but by its pipe and its command, and the   *)
(* producer goes on as long as it can write.  Nobody owes an edit, a fault *)
(* or a kill.                                                              *)
Fairness == WF_vars(Work) /\ WF_vars(ProducerWrite) /\ WF_vars(ProducerExit)

Spec == Init /\ [][Next]_vars /\ Fairness

----------------------------------------------------------------------------
TypeOK ==
    /\ pc \in {"idle", "decode", "wait", "read", "create", "write", "rename", "remove"}
    /\ producer \in {"none", "running", "succeeded", "failed"}
    /\ outcome \in {"none", "ok", "error", "killed"}
    /\ read \in 0..written /\ written \in 0..Len(stream.lines)
    /\ Len(Pipe) <= Capacity
    /\ Len(incoming) <= read
    /\ badLine \in BOOLEAN
    /\ Len(temp) <= 1
    /\ strays \in 0..MaxFaults

(* What Upsert promises of the file, whatever the pipe, the spans, the     *)
(* temporary file, failures and kills do: the journal is the one that was  *)
(* there, what an editor saved, or the merge of the whole stream of a      *)
(* producer that succeeded with the text read (main.go:587).               *)
Promise == INSTANCE Upsert WITH
    Files <- {Blocks(text) : text \in Texts},
    Streams <- UNION ToSet(Streams),
    file <- Blocks(target),
    view <- Blocks(existing),
    request <- [lines |-> stream.lines, sound |-> stream.exit = "succeeded"],
    phase <- CASE pc \in {"decode", "wait", "read"} -> "begun"
               [] pc \in {"create", "write", "rename"} -> "looked"
               [] OTHER -> "idle"

Implements == Promise!Spec

(* The directive that a written one stands for: without a date it is of    *)
(* 1970, a transaction has a flag, numbers are rounded to 18 decimals,     *)
(* what needs an escape keeps it, and a cost is empty, has a number or is  *)
(* none.                                                                   *)
Quoted(md) == [k \in DOMAIN md |-> QuoteStr(md[k])]

Rounded(amounts) == [n \in DOMAIN amounts |-> [amounts[n] EXCEPT !.number = FormatRat(@)]]

WrittenCost(cost) ==
    IF cost = << >> THEN << >>
    ELSE IF cost[1].empty
    THEN <<[empty |-> TRUE, number |-> Nothing, commodity |-> Nothing, date |-> Nothing]>>
    ELSE IF cost[1].number = Nothing THEN << >>
    ELSE Rounded(cost)

WrittenPosting(p) ==
    [p EXCEPT !.units = Rounded(@), !.price = Rounded(@), !.cost = WrittenCost(@), !.md = Quoted(@)]

WrittenArg(d, n) ==
    IF Shape[d.kind][n] = "flag" /\ d.args[n] = Nothing THEN Word("*")
    ELSE WriteArg(Arg(Shape[d.kind][n], d.args[n])).value

Written(d) ==
    [d EXCEPT !.date = FmtDate(@), !.md = Quoted(@),
              !.args = [n \in DOMAIN d.args |-> WrittenArg(d, n)],
              !.rest = [n \in DOMAIN d.rest |-> WriteArg(d.rest[n])],
              !.postings = [n \in DOMAIN d.postings |-> WrittenPosting(d.postings[n])]]

(* What is written reads back as the directive it stands for, all of it    *)
(* and nothing else, with each posting's metadata at its posting, where    *)
(* the text has no syntax error (roundtrip_test.go).                       *)
ReadsBack ==
    \A d \in ToSet(incoming) :
        LET text == FormatDirective(d)
        IN  ~HasErrors(text) =>
                Parse(text) = <<[d |-> Written(d), start |-> 0, end |-> Len(text)]>>

(* The journal never has two directives of one ingest_id, however often a  *)
(* stream is sent: it is an upsert (SPEC.md:64).                           *)
IdsApart(text) ==
    LET dirs == Parse(text)
    IN  \A m, n \in DOMAIN dirs : m # n =>
            IngestID(dirs[m].d) = Nothing \/ IngestID(dirs[m].d) # IngestID(dirs[n].d)

IdsUnique == IdsApart(target)

(* Which it owes to what it is given: no user writes an id twice, no two   *)
(* directives of a stream ask for one, and no id needs an escape.          *)
GivenApart ==
    /\ \A text \in Texts : IdsApart(text)
    /\ \A lines \in UNION ToSet(Streams) : Promise!KeysApart(Promise!Latest(lines))
    /\ \A line \in Lines : IngestID(DecodeLine(line)).word \in Plain

OwnBlocks(text) == SelectSeq(Blocks(text), LAMBDA b : BlockID(b) = Nothing)

(* Lines that belong to no ingested directive stay, in their order, unless *)
(* an editor changes them (apply.go:18).                                   *)
OwnLinesKept ==
    [][pc = "rename" /\ outcome' = "ok" /\ outcome' # outcome =>
          IsPrefix(OwnBlocks(existing), OwnBlocks(target'))]_vars

(* A run that was not killed leaves no temporary file behind.              *)
NoTempLeft == pc = "idle" => temp = << >>

(* Unless a command still has more to write than the pipe holds when one   *)
(* of its lines is refused, every ingest comes to an end.                  *)
Draining ==
    stream.command => \A i \in DOMAIN stream.lines :
        LineOk(stream.lines[i]) \/ Len(stream.lines) - i <= Capacity

Ends == (pc # "idle" /\ Draining) ~> pc = "idle"
=============================================================================
