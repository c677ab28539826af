------------------------------- MODULE Upsert -------------------------------
(***************************************************************************)
(* What contapila ingest promises of its target file, without pipe, spans, *)
(* temporary file or exit codes: an ingest looks at the file once and      *)
(* either leaves it alone or replaces it by the merge of what it saw and   *)
(* of the whole stream it was asked to merge (SPEC.md:64, main.go:585).    *)
(*                                                                         *)
(* The file is a sequence of blocks.  What a block, a line of the stream   *)
(* and a directive look like does not matter here, only which ids they     *)
(* have.                                                                   *)
(***************************************************************************)
EXTENDS Orders

CONSTANTS Files,       \* what the user may write into the file
          Streams,       \* the streams an ingest may be asked to merge
          Nothing,         \* no id
          LineOk(_),         \* the line is a directive,
          LineID(_),           \* the id it is sent under,
          DecodeLine(_),         \* and the directive it is
          IngestID(_),         \* the id of a directive
          FormatDirective(_),    \* and the block it is written as
          BlockID(_)         \* the id of a block

VARIABLES file,            \* the blocks of the target
          request,          \* [lines, sound]: the stream, and whether its producer succeeds
          phase,             \* "idle", "begun" or "looked"
          view                 \* the blocks the ingest has seen

vars == <<file, request, phase, view>>

(* The lines that are sent under the id of line i. *)
Alike(lines, i) ==
    IF LineID(lines[i]) = Nothing THEN {i}
    ELSE {j \in DOMAIN lines : LineID(lines[j]) = LineID(lines[i])}

IsFirst(lines, i) == \A j \in Alike(lines, i) : i <= j

LastAlike(lines, i) == CHOOSE j \in Alike(lines, i) : \A k \in Alike(lines, i) : k <= j

(* The line that counts of those with one id: the last, in the place of    *)
(* the first.                                                              *)
Latest(lines) ==
    LET places == Places([i \in DOMAIN lines |-> IsFirst(lines, i)])
    IN  [n \in DOMAIN places |-> DecodeLine(lines[LastAlike(lines, places[n])])]

(* No two directives of the stream ask for one ingest_id. *)
KeysApart(ds) ==
    \A i, j \in DOMAIN ds : i # j => IngestID(ds[i]) = Nothing \/ IngestID(ds[i]) # IngestID(ds[j])

(* The last block of its id counts. *)
Counts(blocks, n) ==
    /\ BlockID(blocks[n]) # Nothing
    /\ \A m \in n + 1..Len(blocks) : BlockID(blocks[m]) # BlockID(blocks[n])

(* The directives that replace a block. *)
Replacing(blocks, ds, n) ==
    {i \in DOMAIN ds : Counts(blocks, n) /\ IngestID(ds[i]) = BlockID(blocks[n])}

IsNew(blocks, d) ==
    \A n \in DOMAIN blocks : IngestID(d) = Nothing \/ BlockID(blocks[n]) # IngestID(d)

Merged(blocks, ds) ==
    LET added == Places([i \in DOMAIN ds |-> IsNew(blocks, ds[i])])
    IN  [n \in DOMAIN blocks |->
            IF Replacing(blocks, ds, n) = {} THEN blocks[n]
            ELSE FormatDirective(ds[CHOOSE i \in Replacing(blocks, ds, n) : TRUE])]
        \o [n \in DOMAIN added |-> FormatDirective(ds[added[n]])]

----------------------------------------------------------------------------
Init ==
    /\ file \in Files
    /\ request = [lines |-> << >>, sound |-> TRUE]
    /\ phase = "idle"
    /\ view = << >>

Edit == /\ UNCHANGED <<request, phase, view>>
        /\ file' \in Files

Begin == /\ phase = "idle" /\ phase' = "begun"
         /\ request' \in [lines : Streams, sound : BOOLEAN]
         /\ view' = << >>
         /\ UNCHANGED file

Look == /\ phase = "begun" /\ phase' = "looked"
        /\ view' = file
        /\ UNCHANGED <<file, request>>

(* Only a stream of which every line is a directive and whose producer     *)
(* succeeded is merged, and it is merged into what was seen.               *)
Commit ==
    /\ phase = "looked" /\ phase' = "idle"
    /\ request.sound
    /\ \A i \in DOMAIN request.lines : LineOk(request.lines[i])
    /\ \E seen \in {view}, ds \in {Latest(request.lines)} :
          KeysApart(ds) => file' = Merged(seen, ds)
    /\ UNCHANGED <<request, view>>

Abandon == phase # "idle" /\ phase' = "idle" /\ UNCHANGED <<file, request, view>>

Next == Edit \/ Begin \/ Look \/ Commit \/ Abandon

Spec == Init /\ [][Next]_vars
=============================================================================
