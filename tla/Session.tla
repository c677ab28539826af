------------------------------ MODULE Session ------------------------------
(***************************************************************************)
(* The language server's session (internal/lsp/session.go and the document *)
(* handlers of server.go): editor buffers in an overlay, a debounce timer, *)
(* background rebuilds of the project, and the diagnostics the client      *)
(* shows.  Three kinds of threads interleave: the handler, one document    *)
(* notification at a time; timer callbacks; and rebuild goroutines, each   *)
(* with its generation number.  One step is one critical section or one    *)
(* access to shared state between two of them.                             *)
(*                                                                         *)
(* A file's text is a member of Texts.  Texts in Broken have syntax        *)
(* errors, reported on the file itself; texts in Faulty make the check     *)
(* report an error on Blame[f], another place of the project.              *)
(***************************************************************************)
EXTENDS Integers, Sequences, FiniteSets

CONSTANTS Files,     \* journal files an editor may open
          Ledgers,
          Layouts,   \* possible maps from a file to the ledger that loads it
          Texts, Broken, Faulty,
          Disks,     \* possible contents of the files on disk at the start
          Blame,     \* [Files -> Files]
          None,
          MaxEdits   \* bound on the notifications of a behaviour

ASSUME SessionAssumption ==
    /\ Layouts \subseteq [Files -> Ledgers \cup {None}]
    /\ Disks \subseteq [Files -> Texts]
    /\ Broken \subseteq Texts /\ Faulty \subseteq Texts
    /\ Blame \in [Files -> Files]
    /\ None \notin Files \cup Ledgers \cup Texts
    /\ MaxEdits \in Nat

VARIABLES ledgerOf,    \* the project's layout
          disk,        \* text of each file on disk
          overlay,     \* overlay.files: buffer text, or None
          openDocs,    \* s.openDocs
          parseDiags,  \* files with parse errors in s.parseDiags
          snap,        \* s.snap: [gen, texts], what it was built from
          root,        \* s.root # ""
          dirty, timer, gen,
          cancelBld,   \* s.cancelBld: the generation it cancels, 0 for nil
          callbacks,   \* timer callbacks fired, not yet in scheduleRebuild
          builds,      \* builds[g]: the rebuild goroutine of generation g
          handler,     \* the document notification being handled
          shown,       \* what the client displays for each file
          edits        \* notifications received

editor == <<disk, overlay, openDocs>>
sched  == <<dirty, timer, gen, cancelBld, callbacks>>
vars   == <<ledgerOf, disk, overlay, openDocs, parseDiags, snap, root, dirty, timer, gen,
            cancelBld, callbacks, builds, handler, shown, edits>>

Nothing == [f \in Files |-> None]
Clear   == [parse |-> FALSE, check |-> FALSE]
Idle    == [kind |-> "none", pc |-> "idle", file |-> None, text |-> None, check |-> FALSE]

NewBuild == [pc |-> "root", cancelled |-> FALSE, scope |-> {}, texts |-> Nothing,
             todo |-> {}, rest |-> {}, parse |-> {}]
DoneBuild == [NewBuild EXCEPT !.pc = "done"]

(* What a reader of the overlay file system sees. *)
ReadFile(f) == IF overlay[f] # None THEN overlay[f] ELSE disk[f]

(* The files a snapshot built from these texts has diagnostics for. *)
CheckDiags(texts) ==
    {f \in Files : texts[f] \in Broken \/ \E g \in Files : texts[g] \in Faulty /\ Blame[g] = f}

BuildState ==
    [pc : {"root", "find", "ensure", "found", "open", "scope", "ledger", "swap",
           "check", "publish", "rest", "done"},
     cancelled : BOOLEAN, scope : SUBSET Files, texts : [Files -> Texts \cup {None}],
     todo : SUBSET Files, rest : SUBSET Files, parse : SUBSET Files]

HandlerState ==
    [kind : {"none", "open", "change", "save", "close"},
     pc : {"idle", "root", "set", "register", "parse", "publish", "mark", "flag", "schedule",
           "delete", "forget"},
     file : Files \cup {None}, text : Texts \cup {None}, check : BOOLEAN]

TypeOK ==
    /\ ledgerOf \in Layouts
    /\ disk \in [Files -> Texts]
    /\ overlay \in [Files -> Texts \cup {None}]
    /\ openDocs \subseteq Files
    /\ parseDiags \subseteq Files
    /\ snap \in [gen : Nat, texts : [Files -> Texts \cup {None}]]
    /\ root \in BOOLEAN /\ dirty \in BOOLEAN /\ timer \in BOOLEAN
    /\ gen \in Nat /\ cancelBld \in 0..gen /\ callbacks \in Nat /\ edits \in Nat
    /\ builds \in [1..gen -> BuildState]
    /\ handler \in HandlerState
    /\ handler.pc \in {"root", "set", "register"} => handler.text # None
    /\ handler.pc # "idle" => handler.file # None
    /\ shown \in [Files -> [parse : BOOLEAN, check : BOOLEAN]]

Init ==
    /\ ledgerOf \in Layouts
    /\ disk \in Disks
    /\ overlay = Nothing /\ openDocs = {} /\ parseDiags = {}
    /\ snap = [gen |-> 0, texts |-> Nothing]
    /\ root = FALSE /\ dirty = FALSE /\ timer = FALSE
    /\ gen = 0 /\ cancelBld = 0 /\ callbacks = 0 /\ edits = 0
    /\ builds = [g \in 1..0 |-> DoneBuild]
    /\ handler = Idle
    /\ shown = [f \in Files |-> Clear]

----------------------------------------------------------------------------
(* The handler: document notifications, one at a time *)

Receive(kind, pc, f, text) ==
    /\ handler = Idle
    /\ edits < MaxEdits
    /\ edits' = edits + 1
    /\ handler' = [kind |-> kind, pc |-> pc, file |-> f, text |-> text, check |-> FALSE]
    /\ UNCHANGED <<ledgerOf, editor, parseDiags, snap, root, sched, builds, shown>>

DidOpen   == \E f \in Files \ openDocs, text \in Texts : Receive("open", "root", f, text)
DidChange == \E f \in openDocs, text \in Texts : Receive("change", "set", f, text)
DidSave   == \E f \in openDocs :
                \/ Receive("save", "set", f, ReadFile(f))
                \/ Receive("save", "flag", f, None)
DidClose  == \E f \in openDocs : Receive("close", "delete", f, None)

At(pc)   == handler.pc = pc
Goto(pc) == handler' = [handler EXCEPT !.pc = pc]

(* ensureRoot keeps the first root; the project may not resolve yet. *)
EnsureRoot ==
    /\ At("root") /\ Goto("set")
    /\ root' \in {root, TRUE}
    /\ UNCHANGED <<ledgerOf, editor, parseDiags, snap, sched, builds, shown, edits>>

SetOverlay ==
    /\ At("set")
    /\ Goto(IF handler.kind = "save" THEN "parse" ELSE "register")
    /\ overlay' = [overlay EXCEPT ![handler.file] = handler.text]
    /\ UNCHANGED <<ledgerOf, disk, openDocs, parseDiags, snap, root, sched, builds, shown, edits>>

Register ==
    /\ At("register") /\ Goto("parse")
    /\ openDocs' = openDocs \cup {handler.file}
    /\ UNCHANGED <<ledgerOf, disk, overlay, parseDiags, snap, root, sched, builds, shown, edits>>

(* parseBuffer, under the lock: parse diagnostics in, last-good check ones out. *)
ParseBuffer ==
    /\ At("parse")
    /\ parseDiags' = IF handler.text \in Broken THEN parseDiags \cup {handler.file}
                                                ELSE parseDiags \ {handler.file}
    /\ handler' = [handler EXCEPT !.pc = "publish",
                                  !.check = handler.file \in CheckDiags(snap.texts)]
    /\ UNCHANGED <<ledgerOf, editor, snap, root, sched, builds, shown, edits>>

PublishParse ==
    /\ At("publish")
    /\ Goto(IF handler.kind = "save" THEN "flag" ELSE "mark")
    /\ shown' = [shown EXCEPT ![handler.file] =
                    [parse |-> handler.text \in Broken, check |-> handler.check]]
    /\ UNCHANGED <<ledgerOf, editor, parseDiags, snap, root, sched, builds, edits>>

(* Mutant: while a build runs the timer is not started again. *)
MutMarkDirtyNoTimer ==
    /\ At("mark")
    /\ handler' = Idle
    /\ dirty' = TRUE
    /\ timer' = (timer \/ \A g \in 1..gen : builds[g].pc = "done")
    /\ UNCHANGED <<ledgerOf, editor, parseDiags, snap, root, gen, cancelBld, callbacks,
                   builds, shown, edits>>

(* Mutant: a running build is trusted to pick the edit up. *)
MutMarkDirtyLate ==
    /\ At("mark")
    /\ handler' = Idle
    /\ dirty' = (dirty \/ \A g \in 1..gen : builds[g].pc = "done")
    /\ timer' = TRUE
    /\ UNCHANGED <<ledgerOf, editor, parseDiags, snap, root, gen, cancelBld, callbacks,
                   builds, shown, edits>>

(* markDirty: the debounce timer starts over. *)
MarkDirty ==
    /\ At("mark")
    /\ handler' = Idle
    /\ dirty' = TRUE
    /\ timer' = TRUE
    /\ UNCHANGED <<ledgerOf, editor, parseDiags, snap, root, gen, cancelBld, callbacks,
                   builds, shown, edits>>

(* Mutant: a save only sets the flag. *)
MutFlagDirty ==
    /\ At("flag")
    /\ handler' = Idle
    /\ dirty' = TRUE
    /\ UNCHANGED <<ledgerOf, editor, parseDiags, snap, root, timer, gen, cancelBld,
                   callbacks, builds, shown, edits>>

FlagDirty ==
    /\ At("flag") /\ Goto("schedule")
    /\ dirty' = TRUE
    /\ UNCHANGED <<ledgerOf, editor, parseDiags, snap, root, timer, gen, cancelBld,
                   callbacks, builds, shown, edits>>

DeleteOverlay ==
    /\ At("delete") /\ Goto("forget")
    /\ overlay' = [overlay EXCEPT ![handler.file] = None]
    /\ UNCHANGED <<ledgerOf, disk, openDocs, parseDiags, snap, root, sched, builds, shown, edits>>

Forget ==
    /\ At("forget") /\ Goto("mark")
    /\ openDocs' = openDocs \ {handler.file}
    /\ parseDiags' = parseDiags \ {handler.file}
    /\ UNCHANGED <<ledgerOf, disk, overlay, snap, root, sched, builds, shown, edits>>

----------------------------------------------------------------------------
(* Scheduling *)

(* The builds once the generation that cancelBld stands for is cancelled    *)
(* and the next one is started.                                            *)
Started ==
    [g \in 1..(gen + 1) |-> IF g = gen + 1 THEN NewBuild
                            ELSE [builds[g] EXCEPT !.cancelled = @ \/ g = cancelBld]]

(* Mutant: the generation moves on although nothing is to be rebuilt. *)
MutScheduleCounts ==
    /\ dirty' = FALSE
    /\ gen' = gen + 1
    /\ IF dirty THEN cancelBld' = gen + 1 /\ builds' = Started
                ELSE UNCHANGED <<cancelBld, builds>>

(* Mutant: the cancel function in place is kept. *)
MutScheduleCancels ==
    IF dirty
    THEN /\ dirty' = FALSE
         /\ gen' = gen + 1
         /\ cancelBld' = (IF cancelBld = 0 THEN gen + 1 ELSE cancelBld)
         /\ builds' = Started
    ELSE UNCHANGED <<dirty, gen, cancelBld, builds>>

(* scheduleRebuild: call the cancel function in place, store the next one's. *)
ScheduleRebuild ==
    IF dirty
    THEN /\ dirty' = FALSE
         /\ gen' = gen + 1
         /\ cancelBld' = gen + 1
         /\ builds' = Started
    ELSE UNCHANGED <<dirty, gen, cancelBld, builds>>

SaveRebuild ==
    /\ At("schedule")
    /\ handler' = Idle
    /\ ScheduleRebuild
    /\ UNCHANGED <<ledgerOf, editor, parseDiags, snap, root, timer, callbacks, shown, edits>>

(* The timer fires: from here on Stop comes too late. *)
TimerFires ==
    /\ timer
    /\ timer' = FALSE
    /\ callbacks' = callbacks + 1
    /\ UNCHANGED <<ledgerOf, editor, parseDiags, snap, root, dirty, gen, cancelBld, builds, handler,
                   shown, edits>>

TimerRebuild ==
    /\ callbacks > 0
    /\ callbacks' = callbacks - 1
    /\ ScheduleRebuild
    /\ UNCHANGED <<ledgerOf, editor, parseDiags, snap, root, timer, handler, shown, edits>>

----------------------------------------------------------------------------
(* A rebuild goroutine *)

Step(g, from, b) ==
    /\ builds[g].pc = from
    /\ builds' = [builds EXCEPT ![g] = b]
    /\ UNCHANGED <<ledgerOf, editor, parseDiags, sched, handler, edits>>

Ends(g) == [DoneBuild EXCEPT !.cancelled = builds[g].cancelled]
BuildAt(g, pc) == [builds[g] EXCEPT !.pc = pc]

ReadRoot(g) ==
    /\ Step(g, "root", BuildAt(g, IF root THEN "open" ELSE "find"))
    /\ UNCHANGED <<snap, root, shown>>

(* Without a root yet, one is looked for from an open document: the lock is *)
(* given up to read the set, inside ensureRoot, and to read the root again. *)
FindDocument(g) ==
    /\ Step(g, "find", IF openDocs = {} THEN Ends(g) ELSE BuildAt(g, "ensure"))
    /\ UNCHANGED <<snap, root, shown>>

FindRoot(g) ==
    /\ root' \in {root, TRUE}
    /\ Step(g, "ensure", BuildAt(g, "found"))
    /\ UNCHANGED <<snap, shown>>

RootFound(g) ==
    /\ Step(g, "found", IF root THEN BuildAt(g, "open") ELSE Ends(g))
    /\ UNCHANGED <<snap, root, shown>>

(* OpenProjectFS; it fails when the project's configuration does not load. *)
OpenProject(g) ==
    /\ Step(g, "open", IF builds[g].cancelled THEN Ends(g) ELSE BuildAt(g, "scope"))
    /\ UNCHANGED <<snap, root, shown>>

OpenLedgersOf(docs) ==
    LET named == {ledgerOf[f] : f \in docs} \ {None}
    IN  IF named = {} THEN Ledgers ELSE named

(* Which ledgers to load: those of the open documents, or all. *)
Scope(g) ==
    /\ Step(g, "scope",
            IF builds[g].cancelled THEN Ends(g)
            ELSE [BuildAt(g, "ledger") EXCEPT
                    !.scope = {f \in Files : ledgerOf[f] \in OpenLedgersOf(openDocs)}])
    /\ UNCHANGED <<snap, root, shown>>

(* Loading reads the files one by one, while the buffers may change. *)
LoadFile(g) ==
    /\ \E f \in builds[g].scope :
        Step(g, "ledger", [builds[g] EXCEPT !.texts[f] = ReadFile(f), !.scope = @ \ {f}])
    /\ UNCHANGED <<snap, root, shown>>

(* Between two ledgers a cancelled build gives up. *)
Abandon(g) ==
    /\ builds[g].cancelled
    /\ builds[g].scope # {}
    /\ \A f \in Files : builds[g].texts[f] # None =>
            \A k \in builds[g].scope : ledgerOf[k] # ledgerOf[f]
    /\ Step(g, "ledger", Ends(g))
    /\ UNCHANGED <<snap, root, shown>>

Loaded(g) ==
    /\ builds[g].scope = {}
    /\ Step(g, "ledger", BuildAt(g, "swap"))
    /\ UNCHANGED <<snap, root, shown>>

(* The project or a ledger cannot be opened: keep the snapshot. *)
Fail(g) ==
    /\ builds[g].pc \in {"open", "ledger"}
    /\ Step(g, builds[g].pc, Ends(g))
    /\ UNCHANGED <<snap, root, shown>>

(* Mutant: a build that was not cancelled before it loaded swaps in. *)
MutSwap(g) ==
    /\ LET todo == CheckDiags(builds[g].texts)
       IN  /\ Step(g, "swap", [BuildAt(g, "check") EXCEPT
                        !.todo = todo, !.rest = openDocs \ todo, !.parse = parseDiags])
           /\ snap' = [gen |-> g, texts |-> builds[g].texts]
           /\ root' = TRUE
    /\ UNCHANGED shown

(* Under the lock: only the latest generation replaces the snapshot. *)
Swap(g) ==
    /\ IF g # gen
       THEN Step(g, "swap", Ends(g)) /\ UNCHANGED <<snap, root>>
       ELSE LET todo == CheckDiags(builds[g].texts)
            IN  /\ Step(g, "swap", [BuildAt(g, "check") EXCEPT
                            !.todo = todo, !.rest = openDocs \ todo, !.parse = parseDiags])
                /\ snap' = [gen |-> g, texts |-> builds[g].texts]
                /\ root' = TRUE
    /\ UNCHANGED shown

(* First publish loop: the files with check diagnostics, asking the context *)
(* before each.                                                             *)
CheckContext(g) ==
    /\ Step(g, "check", IF builds[g].todo = {} THEN BuildAt(g, "rest")
                        ELSE IF builds[g].cancelled THEN Ends(g)
                        ELSE BuildAt(g, "publish"))
    /\ UNCHANGED <<snap, root, shown>>

Display(g, f, check) ==
    shown' = [shown EXCEPT ![f] = [parse |-> f \in builds[g].parse, check |-> check]]

(* The client library may drop a message whose context is cancelled. *)
Publish(g) ==
    /\ \E f \in builds[g].todo :
        /\ Step(g, "publish", [BuildAt(g, "check") EXCEPT !.todo = @ \ {f}])
        /\ \/ Display(g, f, TRUE)
           \/ builds[g].cancelled /\ UNCHANGED shown
    /\ UNCHANGED <<snap, root>>

(* Second loop: the open documents without any, not asking the context. *)
PublishRest(g) ==
    /\ \E f \in builds[g].rest :
        /\ Step(g, "rest", [builds[g] EXCEPT !.rest = @ \ {f}])
        /\ \/ Display(g, f, FALSE)
           \/ builds[g].cancelled /\ UNCHANGED shown
    /\ UNCHANGED <<snap, root>>

Finish(g) ==
    /\ builds[g].rest = {}
    /\ Step(g, "rest", Ends(g))
    /\ UNCHANGED <<snap, root, shown>>

BuildStep(g) ==
    \/ ReadRoot(g) \/ FindDocument(g) \/ FindRoot(g) \/ RootFound(g)
    \/ OpenProject(g) \/ Scope(g) \/ LoadFile(g) \/ Abandon(g) \/ Loaded(g) \/ Fail(g)
    \/ Swap(g) \/ CheckContext(g) \/ Publish(g) \/ PublishRest(g) \/ Finish(g)

HandlerStep ==
    \/ EnsureRoot \/ SetOverlay \/ Register \/ ParseBuffer \/ PublishParse \/ MarkDirty
    \/ FlagDirty \/ DeleteOverlay \/ Forget \/ SaveRebuild

(* Another program writes a file. *)
WriteDisk ==
    /\ edits < MaxEdits
    /\ edits' = edits + 1
    /\ \E f \in Files, text \in Texts : disk' = [disk EXCEPT ![f] = text]
    /\ UNCHANGED <<ledgerOf, overlay, openDocs, parseDiags, snap, root, sched, builds, handler,
                   shown>>

Next ==
    \/ DidOpen \/ DidChange \/ DidSave \/ DidClose \/ WriteDisk
    \/ HandlerStep
    \/ TimerFires \/ TimerRebuild
    \/ \E g \in 1..gen : BuildStep(g)

Spec == Init /\ [][Next]_vars

(* Goroutines and timers run: the Go scheduler starves none of them.  The  *)
(* editor owes nothing.                                                    *)
Fairness ==
    /\ WF_vars(HandlerStep)
    /\ WF_vars(TimerFires)
    /\ WF_vars(TimerRebuild)
    /\ \A g \in 1..MaxEdits : WF_vars(g <= gen /\ BuildStep(g))

FairSpec == Spec /\ Fairness

----------------------------------------------------------------------------
(* Properties *)

(* An edit waiting for a rebuild always has someone to start it: a running *)
(* timer, a fired callback, or the save being handled.                     *)
NoLostWakeup == dirty => timer \/ callbacks > 0 \/ handler.pc = "schedule"

(* Only the newest build is live: although scheduleRebuild calls the one   *)
(* cancel function it has stored, every older build has been cancelled.    *)
OneLiveBuild == \A g \in 1..gen : builds[g].cancelled <=> g < gen

(* When every edit received has been handed to a build and that build's    *)
(* snapshot is in place, it was made from the buffers the editor has now,  *)
(* although the build read them one by one while they were being edited.   *)
FreshSnapshot ==
    handler = Idle /\ ~dirty /\ gen > 0 /\ snap.gen = gen =>
        \A f \in openDocs : ledgerOf[f] # None => snap.texts[f] = overlay[f]

(* A build that finishes late never replaces the snapshot of a newer one.  *)
SnapshotMonotonic == [][snap' # snap => snap'.gen > snap.gen]_vars

(* Every notification is digested: handled, its rebuild started and over.  *)
Settled ==
    /\ handler = Idle /\ ~dirty /\ ~timer /\ callbacks = 0
    /\ \A g \in 1..gen : builds[g].pc = "done"
EditsSettle == (handler # Idle) ~> Settled

(* SPEC.md 3.4.3: indexes and check results only after parse passes; a     *)
(* broken parse keeps the last good snapshot.                              *)
ParseGate == \A f \in Files : snap.texts[f] \notin Broken

(* SPEC.md 3.4.2: diagnostics are published for all files of open ledgers, *)
(* so once all is settled and the last build succeeded, the client shows   *)
(* on a file nobody edits what the check says of it.                       *)
UnopenedFilesCurrent ==
    Settled /\ gen > 0 /\ snap.gen = gen =>
        \A f \in Files \ openDocs :
            snap.texts[f] # None => shown[f].check = (f \in CheckDiags(snap.texts))
=============================================================================
