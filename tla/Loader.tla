------------------------------- MODULE Loader -------------------------------
(***************************************************************************)
(* How a ledger's stream is loaded: loader.LoadFileFS expands the include  *)
(* graph of main.beancount depth first, and injectProjectStreamJournals of *)
(* the engine then loads the project's stream journals in front of it,     *)
(* each in a load of its own.  A recursive call of loadOne is a frame of   *)
(* the stack; a step is one directive, one file entered or one return.     *)
(*                                                                         *)
(* A project is a record: text[p] the items of the file at path p (own     *)
(* directives, includes of a path, globs with the paths they match),       *)
(* disk and buffers the paths on disk and in the editor, real[p] the file  *)
(* p names once symbolic links are followed, main and journals the entry   *)
(* points.                                                                 *)
(***************************************************************************)
EXTENDS Integers, SequencesExt

CONSTANTS Paths,
          Rank,      \* [Paths -> Nat], the order of path names
          Projects

FileItem == [kind : {"own"}] \cup [kind : {"include"}, path : Paths]
            \cup [kind : {"glob"}, paths : SUBSET Paths]

ASSUME LoaderAssumption ==
    /\ Rank \in [Paths -> Nat]
    /\ \A p, q \in Paths : Rank[p] = Rank[q] => p = q
    /\ \A p \in Projects :
        /\ p.text \in [Paths -> Seq(FileItem)]
        /\ p.real \in [Paths -> Paths]
        /\ \A q \in Paths : p.real[p.real[q]] = p.real[q]
        /\ p.disk \subseteq Paths /\ p.buffers \subseteq Paths
        /\ p.main \in p.disk \cup p.buffers
        /\ p.journals \in Seq(p.disk)

VARIABLES project,
          entry,     \* journals loaded so far; 0 while main is loaded
          stack,     \* the calls of loadOne: path, item reached, glob matches left
          seen,      \* the files this load has read
          out,       \* the directives this load has produced
          stream,    \* main's directives, once it is loaded
          prefix,    \* the journals' directives
          present,   \* paths that count as loaded for the journals
          diags,     \* diagnostics, as <<what, path>>
          phase

vars == <<project, entry, stack, seen, out, stream, prefix, present, diags, phase>>
load == <<entry, stream, prefix, present, phase>>

Real(p)     == project.real[p]
Readable(p) == p \in project.disk \cup project.buffers
Frame(p)    == [path |-> p, item |-> 1, matches |-> {}]

Init ==
    /\ project \in Projects
    /\ entry = 0
    /\ stack = <<Frame(project.main)>>
    /\ seen = {Real(project.main)}
    /\ out = << >> /\ stream = << >> /\ prefix = << >>
    /\ present = {} /\ diags = {}
    /\ phase = "load"

----------------------------------------------------------------------------
(* loadOne *)

Top       == Last(stack)
Items     == project.text[Top.path]
Expanding == phase = "load" /\ stack # << >>
AtItem    == Expanding /\ Top.matches = {} /\ Top.item <= Len(Items)
Item      == Items[Top.item]

(* The stack when the call on top has come to an item, with matches left. *)
Reached(item, matches) ==
    ReplaceAt(stack, Len(stack), [path |-> Top.path, item |-> item, matches |-> matches])

(* Mutant: the loop over the items counts twice. *)
MutAdvanced == Reached(Top.item + 2, {})

Advanced == Reached(Top.item + 1, {})

(* Mutant: a call that has returned stays on the stack's list. *)
MutOnStack(p) == Real(p) \in seen

OnStack(p) == \E i \in DOMAIN stack : Real(stack[i].path) = Real(p)

(* The load ends with an error: a ledger without main, or a journal less. *)
Abort(what, p) ==
    /\ diags' = diags \cup {<<what, p>>}
    /\ phase' = "aborted"
    /\ UNCHANGED <<project, entry, stack, seen, out, stream, prefix, present>>

(* Mutant: a file that has been read is skipped, on the stack or not. *)
MutSkipFirst(p, frames) ==
    IF Real(p) \in seen THEN stack' = frames /\ UNCHANGED <<project, seen, out, diags, load>>
    ELSE /\ stack' = Append(frames, Frame(p))
         /\ seen' = seen \cup {Real(p)}
         /\ UNCHANGED <<project, out, diags, load>>

(* Mutant: only cycles are looked for. *)
MutEnterAgain(p, frames) ==
    IF OnStack(p) THEN Abort("cycle", p)
    ELSE /\ stack' = Append(frames, Frame(p))
         /\ seen' = seen \cup {Real(p)}
         /\ UNCHANGED <<project, out, diags, load>>

(* Mutant: an included file waits for the file that includes it. *)
MutEnterLater(p, frames) ==
    IF OnStack(p) THEN Abort("cycle", p)
    ELSE /\ stack' = IF Real(p) \in seen THEN frames ELSE <<Frame(p)>> \o frames
         /\ seen' = seen \cup {Real(p)}
         /\ UNCHANGED <<project, out, diags, load>>

(* The stack is looked at first: a file that is still being loaded is a    *)
(* cycle, one that has been loaded is skipped.                             *)
Enter(p, frames) ==
    \/ OnStack(p) /\ Abort("cycle", p)
    \/ /\ ~OnStack(p) /\ Real(p) \in seen
       /\ stack' = frames
       /\ UNCHANGED <<project, seen, out, diags, load>>
    \/ /\ ~OnStack(p) /\ Real(p) \notin seen
       /\ stack' = Append(frames, Frame(p))
       /\ seen' = seen \cup {Real(p)}
       /\ UNCHANGED <<project, out, diags, load>>

TakeDirective ==
    /\ AtItem /\ Item.kind = "own"
    /\ out' = Append(out, [path |-> Top.path, item |-> Top.item])
    /\ stack' = Advanced
    /\ UNCHANGED <<project, seen, diags, load>>

TakeInclude ==
    /\ AtItem /\ Item.kind = "include"
    /\ IF Readable(Item.path) THEN Enter(Item.path, Advanced) ELSE Abort("missing", Item.path)

(* Globs list the disk. *)
TakeGlob ==
    /\ AtItem /\ Item.kind = "glob"
    /\ LET matches == Item.paths \cap project.disk
       IN  /\ stack' = Reached(Top.item + 1, matches)
           /\ diags' = IF matches = {} THEN diags \cup {<<"zero matches", Top.path>>} ELSE diags
    /\ UNCHANGED <<project, seen, out, load>>

(* In the order of their names. *)
TakeMatch ==
    /\ Expanding
    /\ \E p \in Top.matches :
        /\ \A q \in Top.matches : Rank[p] <= Rank[q]
        /\ Enter(p, Reached(Top.item, Top.matches \ {p}))

Return ==
    /\ Expanding /\ Top.matches = {} /\ Top.item > Len(Items)
    /\ stack' = Front(stack)
    /\ UNCHANGED <<project, seen, out, diags, load>>

----------------------------------------------------------------------------
(* OpenLedgerFS and injectProjectStreamJournals *)

PathsOf(s) == {s[i].path : i \in DOMAIN s}

(* Mutant: the journals do not know what main includes. *)
MutMainLoaded ==
    /\ phase = "load" /\ stack = << >> /\ entry = 0
    /\ stream' = out /\ present' = {}
    /\ phase' = "journals"
    /\ UNCHANGED <<project, entry, stack, seen, out, prefix, diags>>

(* Main is loaded: the paths of its directives count as present. *)
MainLoaded ==
    /\ phase = "load" /\ stack = << >> /\ entry = 0
    /\ stream' = out /\ present' = PathsOf(out)
    /\ phase' = "journals"
    /\ UNCHANGED <<project, entry, stack, seen, out, prefix, diags>>

MainFailed ==
    /\ phase = "aborted" /\ entry = 0
    /\ phase' = "failed"
    /\ UNCHANGED <<project, entry, stack, seen, out, stream, prefix, present, diags>>

Journal == project.journals[entry']

SkipJournal ==
    /\ phase = "journals" /\ entry < Len(project.journals)
    /\ entry' = entry + 1
    /\ Journal \in present
    /\ UNCHANGED <<project, stack, seen, out, stream, prefix, present, diags, phase>>

LoadJournal ==
    /\ phase = "journals" /\ entry < Len(project.journals)
    /\ entry' = entry + 1
    /\ Journal \notin present
    /\ phase' = "load"
    /\ stack' = <<Frame(Journal)>> /\ seen' = {Real(Journal)} /\ out' = << >>
    /\ UNCHANGED <<project, stream, prefix, present, diags>>

JournalLoaded ==
    /\ phase = "load" /\ stack = << >> /\ entry > 0
    /\ prefix' = prefix \o out
    /\ present' = present \cup {project.journals[entry]}
    /\ phase' = "journals"
    /\ UNCHANGED <<project, entry, stack, seen, out, stream, diags>>

(* Mutant: what a journal produced before it failed is kept. *)
MutKeepHalf ==
    /\ phase = "aborted" /\ entry > 0
    /\ phase' = "journals" /\ prefix' = prefix \o out
    /\ diags' = diags \cup {<<"journal not loaded", project.journals[entry]>>}
    /\ UNCHANGED <<project, entry, stack, seen, out, stream, present>>

(* Mutant: a journal that cannot be loaded is tried again. *)
MutJournalFailed ==
    /\ phase = "aborted" /\ entry > 0
    /\ phase' = "journals" /\ entry' = entry - 1
    /\ UNCHANGED <<project, stack, seen, out, stream, prefix, present, diags>>

JournalFailed ==
    /\ phase = "aborted" /\ entry > 0
    /\ phase' = "journals"
    /\ diags' = diags \cup {<<"journal not loaded", project.journals[entry]>>}
    /\ UNCHANGED <<project, entry, stack, seen, out, stream, prefix, present>>

Inject ==
    /\ phase = "journals" /\ entry = Len(project.journals)
    /\ stream' = prefix \o stream
    /\ phase' = "loaded"
    /\ UNCHANGED <<project, entry, stack, seen, out, prefix, present, diags>>

Next ==
    \/ TakeDirective \/ TakeInclude \/ TakeGlob \/ TakeMatch \/ Return
    \/ MainLoaded \/ MainFailed
    \/ SkipJournal \/ LoadJournal \/ JournalLoaded \/ JournalFailed \/ Inject

Spec == Init /\ [][Next]_vars

(* One goroutine runs the load. *)
FairSpec == Spec /\ WF_vars(Next)

----------------------------------------------------------------------------
(* The include graph, as the files on disk and in the editor have it *)

Own(p) == {i \in DOMAIN project.text[p] : project.text[p][i].kind = "own"}

(* The files that item i of the file at p names, and those any item names. *)
Named(p, i) ==
    LET item == project.text[p][i]
    IN  CASE item.kind = "include" -> {item.path}
          [] item.kind = "glob"    -> item.paths \cap project.disk
          [] OTHER                 -> {}

Successors(p) == UNION {Named(p, i) : i \in DOMAIN project.text[p]}

(* Files that include no other than those among them. *)
Closed(S) == \A q \in S : Successors(q) \subseteq S

(* The files that loading p comes to after one include or more: the least  *)
(* such set with what p includes.                                          *)
Includes(p) ==
    {q \in Paths : \A S \in SUBSET Paths : Successors(p) \subseteq S /\ Closed(S) => q \in S}

Files(p) == {p} \cup Includes(p)

Reals(S) == {Real(p) : p \in S}

LinesOf(S) == UNION {{Real(p)} \X Own(p) : p \in S}

LinesIn(s) == {<<Real(s[i].path), s[i].item>> : i \in DOMAIN s}

Cyclic(p) == Real(p) \in Reals(Includes(p))

(* Directive i of a sequence is the same line of the same file as j. *)
SameLine(s, i, j) == Real(s[i].path) = Real(s[j].path) /\ s[i].item = s[j].item

NoneTwice(s) == \A i \in DOMAIN s : \A j \in 1..(i - 1) : ~SameLine(s, i, j)

----------------------------------------------------------------------------
(* Properties *)

Phases == {"load", "aborted", "journals", "loaded", "failed"}
Causes == {"cycle", "missing", "zero matches", "journal not loaded"}

TypeOK ==
    /\ project \in Projects
    /\ phase \in Phases
    /\ entry \in 0..Len(project.journals)
    /\ stack \in Seq([path : Paths, item : Nat \ {0}, matches : SUBSET Paths])
    /\ \A i \in DOMAIN stack : stack[i].item <= Len(project.text[stack[i].path]) + 1
    /\ seen \subseteq Paths /\ present \subseteq Paths
    /\ {out, stream, prefix} \subseteq Seq([path : Paths, item : Nat \ {0}])
    /\ \A i \in DOMAIN out : out[i].item \in Own(out[i].path)
    /\ diags \subseteq Causes \X Paths

(* No load reads a line twice, whichever ways lead to its file. *)
ReadOnce == NoneTwice(out)

(* A file that a load cannot take in: missing, or leading back to itself;  *)
(* that two others include it is no reason.                                *)
Unloadable(p) == ~Readable(p) \/ Cyclic(p)

(* Main loads whole, every line of every file it leads to, unless one of   *)
(* them cannot be loaded, and then it does not load.                       *)
MainComplete ==
    /\ phase = "failed" => \E p \in Files(project.main) : Unloadable(p)
    /\ phase = "journals" /\ entry = 0 =>
        /\ ~\E p \in Files(project.main) : Unloadable(p)
        /\ LinesIn(stream) = LinesOf(Files(project.main))

(* A journal is in the stream whole or, if it or a file it includes cannot *)
(* be loaded, not at all; its failure costs neither main nor the other     *)
(* journals a line.                                                        *)
JournalsWhole ==
    LET failed(j) == <<"journal not loaded", j>> \in diags
        loaded    == {j \in ToSet(project.journals) : ~failed(j)}
    IN  /\ \A j \in ToSet(project.journals) : failed(j) => \E p \in Files(j) : Unloadable(p)
        /\ phase = "loaded" =>
            LinesIn(stream) = LinesOf(UNION {Files(p) : p \in {project.main} \cup loaded})

(* What a file includes stands where the include does: before the lines    *)
(* that follow it.                                                         *)
IncludedBefore ==
    \A k \in DOMAIN out :
        \A i \in 1..(out[k].item - 1) : \A p \in Named(out[k].path, i) :
            LinesOf({p}) \subseteq LinesIn(SubSeq(out, 1, k - 1))

(* Journals without includes of their own, known by one path, are loaded   *)
(* once, be they listed twice or included by main as well.                 *)
FlatJournalsOnce ==
    LET flat(p) == Successors(p) = {}
        plain(p) == Real(p) = p
    IN  /\ phase = "loaded"
        /\ \A i \in DOMAIN project.journals : flat(project.journals[i])
        /\ \A p \in PathsOf(stream) : plain(p)
        => NoneTwice(stream)

(* Every load ends: cycles, missing files and journals that fail included. *)
LoadEnds == <>(phase \in {"loaded", "failed"})

----------------------------------------------------------------------------
(* SPEC.md 4.2: a stream journal that a ledger includes explicitly is not  *)
(* loaded twice.  (It counts as included when directives of its own are in *)
(* the stream: one that only includes other files is loaded again.)        *)
JournalNotDoubled ==
    phase = "loaded" => \A j \in DOMAIN project.journals :
        Real(project.journals[j]) \in Reals(Includes(project.main)) => NoneTwice(stream)
=============================================================================
