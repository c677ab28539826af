--------------------------- MODULE SessionProofs ---------------------------
(***************************************************************************)
(* Proofs about the language server's session, for any files, ledgers,     *)
(* texts and number of notifications.                                      *)
(***************************************************************************)
EXTENDS Session, TLAPS

----------------------------------------------------------------------------
(* Type correctness *)

(* One step of a build leaves a well-formed table of builds. *)
LEMMA StepType ==
    ASSUME TypeOK, NEW g \in 1..gen, NEW from, NEW b \in BuildState, Step(g, from, b)
    PROVE  builds' \in [1..gen -> BuildState]
BY DEF TypeOK, Step

LEMMA EndsType ==
    ASSUME TypeOK, NEW g \in 1..gen
    PROVE  Ends(g) \in BuildState
BY DEF TypeOK, Ends, DoneBuild, NewBuild, Nothing, BuildState

LEMMA BuildAtType ==
    ASSUME TypeOK, NEW g \in 1..gen,
           NEW pc \in {"root", "find", "ensure", "found", "open", "scope", "ledger", "swap", "check",
                      "publish", "rest", "done"}
    PROVE  BuildAt(g, pc) \in BuildState
<1>1. builds[g] \in BuildState
    BY DEF TypeOK
<1>2. QED
    BY <1>1 DEF BuildAt, BuildState

LEMMA ScheduleType ==
    ASSUME TypeOK, ScheduleRebuild
    PROVE  /\ dirty' \in BOOLEAN /\ gen' \in Nat /\ cancelBld' \in 0..gen'
           /\ builds' \in [1..gen' -> BuildState]
<1>1. CASE dirty
    <2>1. gen' = gen + 1 /\ dirty' = FALSE /\ cancelBld' = gen + 1
        BY <1>1 DEF ScheduleRebuild
    <2>2. NewBuild \in BuildState
        BY DEF NewBuild, Nothing, BuildState
    <2>3. ASSUME NEW g \in 1..(gen + 1), g # gen + 1
          PROVE  [builds[g] EXCEPT !.cancelled = @ \/ g = cancelBld] \in BuildState
        <3>1. g \in 1..gen
            BY <2>3 DEF TypeOK
        <3>2. builds[g] \in BuildState
            BY <3>1 DEF TypeOK
        <3>3. (builds[g].cancelled \/ g = cancelBld) \in BOOLEAN
            OBVIOUS
        <3>4. QED
            BY <3>2, <3>3 DEF BuildState
    <2>4. builds' \in [1..(gen + 1) -> BuildState]
        BY <1>1, <2>2, <2>3 DEF ScheduleRebuild, Started
    <2>5. gen + 1 \in Nat /\ gen + 1 \in 0..(gen + 1)
        BY DEF TypeOK
    <2>6. QED
        BY <2>1, <2>4, <2>5
<1>2. CASE ~dirty
    BY <1>2 DEF TypeOK, ScheduleRebuild
<1>3. QED
    BY <1>1, <1>2

(* A notification keeps the types, whatever its kind. *)
LEMMA ReceiveType ==
    ASSUME TypeOK, NEW f \in Files, NEW text \in Texts \cup {None},
           NEW kind \in {"open", "change", "save", "close"},
           NEW pc \in {"root", "set", "flag", "delete"},
           pc \in {"root", "set"} => text # None,
           Receive(kind, pc, f, text)
    PROVE  TypeOK'
<1>1. handler' \in HandlerState /\ handler'.pc = pc /\ handler'.text = text /\ handler'.file = f
    BY DEF Receive, HandlerState
<1>2. edits' \in Nat
    BY SessionAssumption DEF Receive, TypeOK
<1>3. f # None
    BY SessionAssumption
<1>4. QED
    BY <1>1, <1>2, <1>3 DEF TypeOK, Receive, editor, sched

(* The file system read by a build: a text, never None. *)
LEMMA ReadFileType ==
    ASSUME TypeOK, NEW f \in Files
    PROVE  ReadFile(f) \in Texts /\ ReadFile(f) # None
<1>1. None \notin Texts
    BY SessionAssumption
<1>2. QED
    BY <1>1 DEF TypeOK, ReadFile

LEMMA CheckDiagsType ==
    ASSUME NEW texts
    PROVE  CheckDiags(texts) \subseteq Files
BY DEF CheckDiags

(* Each step of a notification's handler keeps the types. *)
LEMMA HandlerType ==
    ASSUME TypeOK, HandlerStep
    PROVE  TypeOK'
<1>h. handler \in HandlerState
    BY DEF TypeOK
<1>f. handler.pc # "idle" => handler.file \in Files
    BY <1>h DEF TypeOK, HandlerState
<1>1. CASE EnsureRoot
    <2>1. handler' \in HandlerState /\ handler'.file = handler.file /\ handler'.text = handler.text
          /\ handler'.pc = "set" /\ handler.pc = "root"
        BY <1>1, <1>h DEF EnsureRoot, At, Goto, HandlerState
    <2>2. root' \in BOOLEAN
        BY <1>1 DEF EnsureRoot, TypeOK
    <2>3. QED
        BY <1>1, <2>1, <2>2 DEF TypeOK, EnsureRoot, editor, sched
<1>2. CASE SetOverlay
    <2>1. handler' \in HandlerState /\ handler'.file = handler.file /\ handler'.text = handler.text
          /\ handler'.pc \in {"parse", "register"} /\ handler.pc = "set"
        BY <1>2, <1>h DEF SetOverlay, At, Goto, HandlerState
    <2>2. overlay' \in [Files -> Texts \cup {None}]
        BY <1>2, <1>h, <1>f, <2>1 DEF SetOverlay, TypeOK, At, HandlerState
    <2>3. QED
        BY <1>2, <2>1, <2>2 DEF TypeOK, SetOverlay, editor, sched
<1>3. CASE Register
    <2>1. handler' \in HandlerState /\ handler'.file = handler.file /\ handler'.text = handler.text
          /\ handler'.pc \in {"parse"} /\ handler.pc # "idle"
        BY <1>3, <1>h DEF Register, At, Goto, HandlerState
    <2>2. openDocs' \subseteq Files
        BY <1>3, <1>h, <1>f, <2>1 DEF Register, TypeOK, At, HandlerState
    <2>3. QED
        BY <1>3, <2>1, <2>2 DEF TypeOK, Register, editor, sched
<1>4. CASE ParseBuffer
    <2>1. handler' \in HandlerState /\ handler'.file = handler.file /\ handler'.text = handler.text
          /\ handler'.pc \in {"publish"} /\ handler.pc # "idle"
        <3>1. (handler.file \in CheckDiags(snap.texts)) \in BOOLEAN
            OBVIOUS
        <3>2. QED
            BY <3>1, <1>4, <1>h DEF ParseBuffer, At, HandlerState
    <2>2. parseDiags' \subseteq Files
        BY <1>4, <1>h, <1>f, <2>1 DEF ParseBuffer, TypeOK, At, HandlerState
    <2>3. QED
        BY <1>4, <2>1, <2>2 DEF TypeOK, ParseBuffer, editor, sched
<1>5. CASE PublishParse
    <2>1. handler' \in HandlerState /\ handler'.file = handler.file /\ handler'.text = handler.text
          /\ handler'.pc \in {"flag", "mark"} /\ handler.pc # "idle"
        BY <1>5, <1>h DEF PublishParse, At, Goto, HandlerState
    <2>2. shown' \in [Files -> [parse : BOOLEAN, check : BOOLEAN]]
        BY <1>5, <1>h, <1>f, <2>1 DEF PublishParse, TypeOK, At, HandlerState
    <2>3. QED
        BY <1>5, <2>1, <2>2 DEF TypeOK, PublishParse, editor, sched
<1>6. CASE MarkDirty
    <2>1. handler' \in HandlerState /\ handler'.pc = "idle"
        BY <1>6 DEF MarkDirty, Idle, HandlerState
    <2>2. dirty' \in BOOLEAN /\ timer' \in BOOLEAN
        BY <1>6 DEF MarkDirty, TypeOK
    <2>3. QED
        BY <1>6, <2>1, <2>2 DEF TypeOK, MarkDirty, editor, sched
<1>7. CASE FlagDirty
    <2>1. handler' \in HandlerState /\ handler'.file = handler.file /\ handler'.text = handler.text
          /\ handler'.pc \in {"schedule"} /\ handler.pc # "idle"
        BY <1>7, <1>h DEF FlagDirty, At, Goto, HandlerState
    <2>2. dirty' \in BOOLEAN
        BY <1>7, <1>h, <1>f, <2>1 DEF FlagDirty, TypeOK, At, HandlerState
    <2>3. QED
        BY <1>7, <2>1, <2>2 DEF TypeOK, FlagDirty, editor, sched
<1>8. CASE DeleteOverlay
    <2>1. handler' \in HandlerState /\ handler'.file = handler.file /\ handler'.text = handler.text
          /\ handler'.pc \in {"forget"} /\ handler.pc # "idle"
        BY <1>8, <1>h DEF DeleteOverlay, At, Goto, HandlerState
    <2>2. overlay' \in [Files -> Texts \cup {None}]
        BY <1>8, <1>h, <1>f, <2>1 DEF DeleteOverlay, TypeOK, At, HandlerState
    <2>3. QED
        BY <1>8, <2>1, <2>2 DEF TypeOK, DeleteOverlay, editor, sched
<1>9. CASE Forget
    <2>1. handler' \in HandlerState /\ handler'.file = handler.file /\ handler'.text = handler.text
          /\ handler'.pc \in {"mark"} /\ handler.pc # "idle"
        BY <1>9, <1>h DEF Forget, At, Goto, HandlerState
    <2>2. openDocs' \subseteq Files /\ parseDiags' \subseteq Files
        BY <1>9, <1>h, <1>f, <2>1 DEF Forget, TypeOK, At, HandlerState
    <2>3. QED
        BY <1>9, <2>1, <2>2 DEF TypeOK, Forget, editor, sched
<1>10. CASE SaveRebuild
    <2>1. handler' \in HandlerState /\ handler'.pc = "idle"
        BY <1>10 DEF SaveRebuild, Idle, HandlerState
    <2>2. /\ dirty' \in BOOLEAN /\ gen' \in Nat /\ cancelBld' \in 0..gen'
          /\ builds' \in [1..gen' -> BuildState]
        BY <1>10, ScheduleType DEF SaveRebuild, TypeOK
    <2>3. QED
        BY <1>10, <2>1, <2>2 DEF TypeOK, SaveRebuild, editor, sched
<1>11. QED
    BY <1>1, <1>2, <1>3, <1>4, <1>5, <1>6, <1>7, <1>8, <1>9, <1>10 DEF HandlerStep

(* Each step of a rebuild goroutine keeps the types. *)
LEMMA BuildType ==
    ASSUME TypeOK, NEW g \in 1..gen, BuildStep(g)
    PROVE  TypeOK'
<1>b. builds[g] \in BuildState
    BY DEF TypeOK
<1>e. Ends(g) \in BuildState
    BY EndsType
<1>s. ASSUME NEW from, NEW b \in BuildState, Step(g, from, b),
             root' \in BOOLEAN, snap' \in [gen : Nat, texts : [Files -> Texts \cup {None}]],
             shown' \in [Files -> [parse : BOOLEAN, check : BOOLEAN]]
      PROVE  TypeOK'
    <2>1. builds' \in [1..gen -> BuildState]
        BY <1>s, StepType
    <2>2. QED
        BY <1>s, <2>1 DEF TypeOK, Step, editor, sched
<1>1. CASE ReadRoot(g) \/ FindDocument(g) \/ FindRoot(g) \/ RootFound(g)
    <2>1. /\ BuildAt(g, IF root THEN "open" ELSE "find") \in BuildState
          /\ (IF openDocs = {} THEN Ends(g) ELSE BuildAt(g, "ensure")) \in BuildState
          /\ BuildAt(g, "found") \in BuildState
          /\ (IF root THEN BuildAt(g, "open") ELSE Ends(g)) \in BuildState
        BY <1>e, BuildAtType
    <2>2. CASE ReadRoot(g)
        BY <2>1, <2>2, <1>s DEF ReadRoot, TypeOK
    <2>3. CASE FindDocument(g)
        BY <2>1, <2>3, <1>s DEF FindDocument, TypeOK
    <2>4. CASE FindRoot(g)
        BY <2>1, <2>4, <1>s DEF FindRoot, TypeOK
    <2>5. CASE RootFound(g)
        BY <2>1, <2>5, <1>s DEF RootFound, TypeOK
    <2>6. QED
        BY <1>1, <2>2, <2>3, <2>4, <2>5
<1>2. CASE OpenProject(g)
    <2>1. (IF builds[g].cancelled THEN Ends(g) ELSE BuildAt(g, "scope")) \in BuildState
        BY <1>e, BuildAtType
    <2>2. QED
        BY <1>2, <2>1, <1>s DEF OpenProject, TypeOK
<1>3. CASE Scope(g)
    <2>1. [BuildAt(g, "ledger") EXCEPT
              !.scope = {f \in Files : ledgerOf[f] \in OpenLedgersOf(openDocs)}] \in BuildState
        BY <1>b DEF BuildAt, BuildState
    <2>2. QED
        BY <1>3, <1>e, <2>1, <1>s DEF Scope, TypeOK
<1>4. CASE LoadFile(g)
    <2>1. PICK f \in builds[g].scope :
            Step(g, "ledger", [builds[g] EXCEPT !.texts[f] = ReadFile(f), !.scope = @ \ {f}])
        BY <1>4 DEF LoadFile
    <2>2. f \in Files
        BY <1>b DEF BuildState
    <2>3. ReadFile(f) \in Texts
        BY <2>2, ReadFileType
    <2>4. [builds[g] EXCEPT !.texts[f] = ReadFile(f), !.scope = @ \ {f}] \in BuildState
        BY <1>b, <2>2, <2>3 DEF BuildState
    <2>5. QED
        BY <1>4, <2>1, <2>4, <1>s DEF LoadFile, TypeOK
<1>5. CASE Abandon(g)
    BY <1>5, <1>e, <1>s DEF Abandon, TypeOK
<1>6. CASE Loaded(g)
    BY <1>6, BuildAtType, <1>s DEF Loaded, TypeOK
<1>7. CASE Swap(g)
    <2>1. CASE g # gen
        BY <1>7, <2>1, <1>e, <1>s DEF Swap, TypeOK
    <2>2. CASE g = gen
        <3> DEFINE todo == CheckDiags(builds[g].texts)
                   b    == [BuildAt(g, "check") EXCEPT
                              !.todo = todo, !.rest = openDocs \ todo, !.parse = parseDiags]
        <3>1. Step(g, "swap", b) /\ snap' = [gen |-> g, texts |-> builds[g].texts]
              /\ root' = TRUE /\ shown' = shown
            BY <1>7, <2>2 DEF Swap
        <3>2. todo \subseteq Files /\ openDocs \subseteq Files /\ parseDiags \subseteq Files
            BY CheckDiagsType DEF TypeOK
        <3>3. b \in BuildState
            BY <1>b, <3>2 DEF BuildAt, BuildState
        <3>4. snap' \in [gen : Nat, texts : [Files -> Texts \cup {None}]]
            BY <3>1, <1>b, <2>2 DEF BuildState, TypeOK
        <3>5. QED
            BY <3>1, <3>3, <3>4, <1>s DEF TypeOK
    <2>3. QED
        BY <2>1, <2>2
<1>8. CASE CheckContext(g)
    <2>1. (IF builds[g].todo = {} THEN BuildAt(g, "rest")
           ELSE IF builds[g].cancelled THEN Ends(g) ELSE BuildAt(g, "publish")) \in BuildState
        BY <1>e, BuildAtType
    <2>2. QED
        BY <1>8, <2>1, <1>s DEF CheckContext, TypeOK
<1>d. ASSUME NEW f, NEW check \in BOOLEAN, Display(g, f, check) \/ UNCHANGED shown
      PROVE  shown' \in [Files -> [parse : BOOLEAN, check : BOOLEAN]]
    <2>1. (f \in builds[g].parse) \in BOOLEAN
        OBVIOUS
    <2>2. [parse |-> f \in builds[g].parse, check |-> check] \in [parse : BOOLEAN, check : BOOLEAN]
        BY <2>1
    <2>3. shown \in [Files -> [parse : BOOLEAN, check : BOOLEAN]]
        BY DEF TypeOK
    <2>4. QED
        BY <1>d, <2>2, <2>3 DEF Display
<1>9. CASE Publish(g)
    <2>1. PICK f \in builds[g].todo :
            /\ Step(g, "publish", [BuildAt(g, "check") EXCEPT !.todo = @ \ {f}])
            /\ Display(g, f, TRUE) \/ UNCHANGED shown
        BY <1>9 DEF Publish
    <2>2. [BuildAt(g, "check") EXCEPT !.todo = @ \ {f}] \in BuildState
        BY <1>b DEF BuildAt, BuildState
    <2>3. shown' \in [Files -> [parse : BOOLEAN, check : BOOLEAN]]
        BY <2>1, <1>d
    <2>4. QED
        BY <1>9, <2>1, <2>2, <2>3, <1>s DEF Publish, TypeOK
<1>10. CASE PublishRest(g)
    <2>1. PICK f \in builds[g].rest :
            /\ Step(g, "rest", [builds[g] EXCEPT !.rest = @ \ {f}])
            /\ Display(g, f, FALSE) \/ UNCHANGED shown
        BY <1>10 DEF PublishRest
    <2>2. [builds[g] EXCEPT !.rest = @ \ {f}] \in BuildState
        BY <1>b DEF BuildState
    <2>3. shown' \in [Files -> [parse : BOOLEAN, check : BOOLEAN]]
        BY <2>1, <1>d
    <2>4. QED
        BY <1>10, <2>1, <2>2, <2>3, <1>s DEF PublishRest, TypeOK
<1>11. CASE Finish(g)
    BY <1>11, <1>e, <1>s DEF Finish, TypeOK
<1>12. CASE Fail(g)
    BY <1>12, <1>e, <1>s DEF Fail, TypeOK
<1>13. QED
    BY <1>1, <1>2, <1>3, <1>4, <1>5, <1>6, <1>7, <1>8, <1>9, <1>10, <1>11, <1>12 DEF BuildStep

LEMMA InitType ==
    ASSUME Init
    PROVE  TypeOK
<1>1. Nothing \in [Files -> Texts \cup {None}] /\ Clear \in [parse : BOOLEAN, check : BOOLEAN]
    BY DEF Nothing, Clear
<1>2. Idle \in HandlerState /\ Idle.pc = "idle"
    BY DEF Idle, HandlerState
<1>3. ledgerOf \in Layouts /\ disk \in [Files -> Texts]
    BY SessionAssumption DEF Init
<1>4. builds \in [1..gen -> BuildState] /\ gen = 0 /\ cancelBld \in 0..gen
    BY DEF Init
<1>5. snap \in [gen : Nat, texts : [Files -> Texts \cup {None}]]
    BY <1>1 DEF Init
<1>6. gen \in Nat /\ callbacks \in Nat /\ edits \in Nat
    BY DEF Init
<1>7. QED
    BY <1>1, <1>2, <1>3, <1>4, <1>5, <1>6 DEF Init, TypeOK

LEMMA NextType ==
    ASSUME TypeOK, [Next]_vars
    PROVE  TypeOK'
<1>1. CASE DidOpen
    BY <1>1, ReceiveType, SessionAssumption DEF DidOpen
<1>2. CASE DidChange
    BY <1>2, ReceiveType, SessionAssumption DEF DidChange, TypeOK
<1>3. CASE DidSave
    BY <1>3, ReceiveType, ReadFileType DEF DidSave, TypeOK
<1>4. CASE DidClose
    BY <1>4, ReceiveType DEF DidClose, TypeOK
<1>5. CASE WriteDisk
    BY <1>5, SessionAssumption DEF WriteDisk, TypeOK, sched
<1>6. CASE HandlerStep
    BY <1>6, HandlerType
<1>7. CASE TimerFires
    <2>0. callbacks \in Nat
        BY DEF TypeOK
    <2>1. callbacks' \in Nat
        BY <1>7, <2>0 DEF TimerFires
    <2>2. timer' \in BOOLEAN
        BY <1>7 DEF TimerFires
    <2>3. QED
        BY <1>7, <2>1, <2>2 DEF TimerFires, TypeOK, editor
<1>8. CASE TimerRebuild
    <2>1. /\ dirty' \in BOOLEAN /\ gen' \in Nat /\ cancelBld' \in 0..gen'
          /\ builds' \in [1..gen' -> BuildState]
        BY <1>8, ScheduleType DEF TimerRebuild
    <2>2. callbacks' \in Nat
        BY <1>8 DEF TimerRebuild, TypeOK
    <2>3. UNCHANGED <<ledgerOf, disk, overlay, openDocs, parseDiags, snap, root, timer, handler,
                      shown, edits>>
        BY <1>8 DEF TimerRebuild, editor
    <2>4. QED
        BY <2>1, <2>2, <2>3 DEF TypeOK
<1>9. ASSUME NEW g \in 1..gen, BuildStep(g) PROVE TypeOK'
    BY <1>9, BuildType
<1>10. CASE UNCHANGED vars
    BY <1>10 DEF vars, editor, sched, TypeOK
<1>11. QED
    BY <1>1, <1>2, <1>3, <1>4, <1>5, <1>6, <1>7, <1>8, <1>9, <1>10 DEF Next

(* The session's state is well formed in every reachable state: a build is *)
(* on record for each generation, and only for those, whatever the         *)
(* interleaving of handlers, timers and builds.                            *)
THEOREM TypeCorrect == Spec => []TypeOK
<1>1. Init => TypeOK
    BY InitType
<1>2. TypeOK /\ [Next]_vars => TypeOK'
    BY NextType
<1>3. QED
    BY <1>1, <1>2, PTL DEF Spec

----------------------------------------------------------------------------
(* The inductive invariant *)

(* No edit is under way that the dirty flag does not tell of yet. *)
Stable == ~dirty /\ handler.pc \in {"idle", "root", "set", "delete", "schedule"}

(* An open document is in the overlay, unless its close is being handled. *)
OpenBuffered ==
    /\ \A f \in openDocs : overlay[f] = None => handler.pc = "forget" /\ f = handler.file
    /\ handler.pc = "register" => overlay[handler.file] # None

Loading == {"root", "find", "ensure", "found", "open", "scope", "ledger", "swap"}

(* The snapshot in place is older than a newest build that has not swapped. *)
SwapAhead ==
    /\ snap.gen <= gen
    /\ gen > 0 /\ builds[gen].pc \in Loading => snap.gen < gen

(* The cancel function in place is that of the newest build, if there is one. *)
CancelsNewest == cancelBld = gen

Current(texts, f) == f \in openDocs /\ ledgerOf[f] # None => texts[f] = overlay[f]

(* While no edit is under way, the newest build has read, or will read, the *)
(* buffers as they are.                                                     *)
NewestCurrent ==
    Stable /\ gen > 0 =>
        /\ builds[gen].pc = "ledger" => \A f \in Files \ builds[gen].scope : Current(builds[gen].texts, f)
        /\ builds[gen].pc = "swap" => \A f \in Files : Current(builds[gen].texts, f)
        /\ snap.gen = gen => \A f \in Files : Current(snap.texts, f)

IInv ==
    /\ TypeOK
    /\ CancelsNewest /\ OneLiveBuild
    /\ NoLostWakeup /\ OpenBuffered /\ SwapAhead /\ NewestCurrent

----------------------------------------------------------------------------
(* What the steps of the three kinds of threads do to the invariant *)

(* A step of build g touches no other build and nothing of the editor's,   *)
(* and replaces the snapshot only when g is the newest build.              *)
LEMMA BuildFrame ==
    ASSUME TypeOK, NEW g \in 1..gen, BuildStep(g)
    PROVE  /\ UNCHANGED <<ledgerOf, editor, parseDiags, sched, handler, edits>>
           /\ \A k \in 1..gen : k # g => builds'[k] = builds[k]
           /\ builds'[g].cancelled = builds[g].cancelled
           /\ builds'[g].pc \in Loading => builds[g].pc \in Loading
           /\ builds'[g].pc \in {"ledger", "swap"} => builds[g].pc \in {"scope", "ledger"}
           /\ \/ snap' = snap
              \/ /\ g = gen /\ builds[g].pc = "swap" /\ builds'[g].pc = "check"
                 /\ snap' = [gen |-> g, texts |-> builds[g].texts]
<1>b. builds[g] \in BuildState
    BY DEF TypeOK
<1>d. DOMAIN builds = 1..gen
    BY DEF TypeOK
<1>e. Ends(g).cancelled = builds[g].cancelled /\ Ends(g).pc = "done"
    BY DEF Ends, DoneBuild, NewBuild
<1>a. ASSUME NEW pc PROVE BuildAt(g, pc).cancelled = builds[g].cancelled /\ BuildAt(g, pc).pc = pc
    BY <1>b DEF BuildAt, BuildState
<1>s. ASSUME NEW from, NEW b, Step(g, from, b)
      PROVE  /\ UNCHANGED <<ledgerOf, editor, parseDiags, sched, handler, edits>>
             /\ \A k \in 1..gen : k # g => builds'[k] = builds[k]
             /\ builds'[g] = b
             /\ builds[g].pc = from
    BY <1>s, <1>d DEF Step
<1>1. CASE ReadRoot(g) \/ FindDocument(g) \/ FindRoot(g) \/ RootFound(g)
    <2>1. CASE ReadRoot(g)
        BY <2>1, <1>a, <1>s DEF ReadRoot, Loading
    <2>2. CASE FindDocument(g)
        BY <2>2, <1>e, <1>a, <1>s DEF FindDocument, Loading
    <2>3. CASE FindRoot(g)
        BY <2>3, <1>a, <1>s DEF FindRoot, Loading
    <2>4. CASE RootFound(g)
        BY <2>4, <1>e, <1>a, <1>s DEF RootFound, Loading
    <2>5. QED
        BY <1>1, <2>1, <2>2, <2>3, <2>4
<1>2. CASE OpenProject(g)
    BY <1>2, <1>e, <1>a, <1>s DEF OpenProject, Loading
<1>3. CASE Scope(g)
    <2>1. [BuildAt(g, "ledger") EXCEPT
              !.scope = {f \in Files : ledgerOf[f] \in OpenLedgersOf(openDocs)}].cancelled
            = builds[g].cancelled
        BY <1>b DEF BuildAt, BuildState
    <2>2. QED
        BY <1>3, <1>e, <2>1, <1>s DEF Scope, Loading
<1>4. CASE LoadFile(g)
    <2>1. PICK f \in builds[g].scope :
            Step(g, "ledger", [builds[g] EXCEPT !.texts[f] = ReadFile(f), !.scope = @ \ {f}])
        BY <1>4 DEF LoadFile
    <2>2. [builds[g] EXCEPT !.texts[f] = ReadFile(f), !.scope = @ \ {f}].cancelled
            = builds[g].cancelled
        BY <1>b DEF BuildState
    <2>3. QED
        BY <1>4, <2>1, <2>2, <1>s DEF LoadFile, Loading
<1>5. CASE Abandon(g)
    BY <1>5, <1>e, <1>s DEF Abandon, Loading
<1>6. CASE Loaded(g)
    BY <1>6, <1>a, <1>s DEF Loaded, Loading
<1>7. CASE Swap(g)
    <2>1. CASE g # gen
        BY <1>7, <2>1, <1>e, <1>s DEF Swap, Loading
    <2>2. CASE g = gen
        <3> DEFINE todo == CheckDiags(builds[g].texts)
                   b    == [BuildAt(g, "check") EXCEPT
                              !.todo = todo, !.rest = openDocs \ todo, !.parse = parseDiags]
        <3>1. Step(g, "swap", b) /\ snap' = [gen |-> g, texts |-> builds[g].texts]
            BY <1>7, <2>2 DEF Swap
        <3>2. b.cancelled = builds[g].cancelled /\ b.pc = "check"
            BY <1>b DEF BuildAt, BuildState
        <3>3. QED
            BY <3>1, <3>2, <2>2, <1>s, ZenonT(60) DEF Loading
    <2>3. QED
        BY <2>1, <2>2
<1>8. CASE CheckContext(g)
    BY <1>8, <1>e, <1>a, <1>s DEF CheckContext, Loading
<1>9. CASE Publish(g)
    <2>1. PICK f \in builds[g].todo : Step(g, "publish", [BuildAt(g, "check") EXCEPT !.todo = @ \ {f}])
        BY <1>9 DEF Publish
    <2>2. /\ [BuildAt(g, "check") EXCEPT !.todo = @ \ {f}].cancelled = builds[g].cancelled
          /\ [BuildAt(g, "check") EXCEPT !.todo = @ \ {f}].pc = "check"
        BY <1>b DEF BuildAt, BuildState
    <2>3. QED
        BY <1>9, <2>1, <2>2, <1>s DEF Publish, Loading
<1>10. CASE PublishRest(g)
    <2>1. PICK f \in builds[g].rest : Step(g, "rest", [builds[g] EXCEPT !.rest = @ \ {f}])
        BY <1>10 DEF PublishRest
    <2>2. /\ [builds[g] EXCEPT !.rest = @ \ {f}].cancelled = builds[g].cancelled
          /\ [builds[g] EXCEPT !.rest = @ \ {f}].pc = builds[g].pc
        BY <1>b DEF BuildState
    <2>3. builds[g].pc = "rest" /\ snap' = snap
        BY <1>10, <2>1, <1>s DEF PublishRest
    <2>4. QED
        BY <2>1, <2>2, <2>3, <1>s DEF Loading
<1>11. CASE Finish(g)
    BY <1>11, <1>e, <1>s DEF Finish, Loading
<1>12. CASE Fail(g)
    BY <1>12, <1>e, <1>s DEF Fail, Loading
<1>13. QED
    BY <1>1, <1>2, <1>3, <1>4, <1>5, <1>6, <1>7, <1>8, <1>9, <1>10, <1>11, <1>12 DEF BuildStep

(* scheduleRebuild either has nothing to do, or cancels the build whose    *)
(* cancel function is stored and starts the next one.                      *)
LEMMA ScheduleFrame ==
    ASSUME TypeOK, ScheduleRebuild
    PROVE  \/ ~dirty /\ UNCHANGED <<dirty, gen, cancelBld, builds>>
           \/ /\ dirty /\ dirty' = FALSE /\ gen' = gen + 1 /\ cancelBld' = gen + 1
              /\ builds'[gen + 1].pc = "root" /\ builds'[gen + 1].cancelled = FALSE
              /\ \A k \in 1..gen : builds'[k].cancelled = (builds[k].cancelled \/ k = cancelBld)
<1>1. CASE ~dirty
    BY <1>1 DEF ScheduleRebuild
<1>2. CASE dirty
    <2>1. gen \in Nat /\ builds \in [1..gen -> BuildState]
        BY DEF TypeOK
    <2>2. builds' = Started /\ dirty' = FALSE /\ gen' = gen + 1 /\ cancelBld' = gen + 1
        BY <1>2 DEF ScheduleRebuild
    <2>3. builds'[gen + 1] = NewBuild
        BY <2>1, <2>2 DEF Started
    <2>4. ASSUME NEW k \in 1..gen
          PROVE  builds'[k].cancelled = (builds[k].cancelled \/ k = cancelBld)
        <3>1. k \in 1..(gen + 1) /\ k # gen + 1
            BY <2>1
        <3>2. builds'[k] = [builds[k] EXCEPT !.cancelled = @ \/ k = cancelBld]
            BY <2>2, <3>1 DEF Started
        <3>3. builds[k] \in BuildState
            BY <2>1
        <3>4. QED
            BY <3>2, <3>3 DEF BuildState
    <2>5. builds'[gen + 1].pc = "root" /\ builds'[gen + 1].cancelled = FALSE
        BY <2>3 DEF NewBuild
    <2>6. QED
        BY <1>2, <2>2, <2>4, <2>5
<1>3. QED
    BY <1>1, <1>2

(* Every step of Next, sorted by what it does to the builds. *)
LEMMA StepKinds ==
    ASSUME TypeOK, [Next]_vars
    PROVE  \/ SaveRebuild \/ TimerRebuild
           \/ \E g \in 1..gen : BuildStep(g)
           \/ UNCHANGED <<gen, cancelBld, builds, snap>>
<1>1. DidOpen \/ DidChange \/ DidSave \/ DidClose => UNCHANGED <<gen, cancelBld, builds, snap>>
    BY DEF DidOpen, DidChange, DidSave, DidClose, Receive, sched
<1>2. WriteDisk \/ TimerFires \/ UNCHANGED vars => UNCHANGED <<gen, cancelBld, builds, snap>>
    BY DEF WriteDisk, TimerFires, vars, sched
<1>3. HandlerStep => SaveRebuild \/ UNCHANGED <<gen, cancelBld, builds, snap>>
    BY DEF HandlerStep, EnsureRoot, SetOverlay, Register, ParseBuffer, PublishParse, MarkDirty,
           FlagDirty, DeleteOverlay, Forget, sched
<1>4. QED
    BY <1>1, <1>2, <1>3 DEF Next

(* Each new build is one that the next call will cancel ... *)
LEMMA CancelsNewestStep ==
    ASSUME TypeOK, CancelsNewest, [Next]_vars
    PROVE  CancelsNewest'
<1>1. CASE UNCHANGED <<gen, cancelBld, builds, snap>>
    BY <1>1 DEF CancelsNewest
<1>2. CASE SaveRebuild \/ TimerRebuild
    <2>1. ScheduleRebuild
        BY <1>2 DEF SaveRebuild, TimerRebuild
    <2>2. UNCHANGED <<gen, cancelBld>> \/ cancelBld' = gen'
        BY <2>1 DEF ScheduleRebuild
    <2>3. QED
        BY <2>2 DEF CancelsNewest
<1>3. ASSUME NEW g \in 1..gen, BuildStep(g) PROVE CancelsNewest'
    <2>1. gen' = gen /\ cancelBld' = cancelBld
        BY <1>3, BuildFrame DEF sched
    <2>2. QED
        BY <2>1 DEF CancelsNewest
<1>4. QED
    BY <1>1, <1>2, <1>3, StepKinds

(* ... so that, one call after the other, all but the newest are.          *)
LEMMA OneLiveBuildStep ==
    ASSUME TypeOK, CancelsNewest, OneLiveBuild, [Next]_vars
    PROVE  OneLiveBuild'
<1>g. gen \in Nat
    BY DEF TypeOK
<1>1. CASE UNCHANGED <<gen, cancelBld, builds, snap>>
    BY <1>1 DEF OneLiveBuild
<1>2. CASE SaveRebuild \/ TimerRebuild
    <2>1. ScheduleRebuild
        BY <1>2 DEF SaveRebuild, TimerRebuild
    <2>2. CASE UNCHANGED <<dirty, gen, cancelBld, builds>>
        BY <2>2 DEF OneLiveBuild
    <2>3. CASE /\ gen' = gen + 1 /\ builds'[gen + 1].cancelled = FALSE
               /\ \A k \in 1..gen : builds'[k].cancelled = (builds[k].cancelled \/ k = cancelBld)
        <3>1. ASSUME NEW k \in 1..gen PROVE builds'[k].cancelled
            <4>1. k < gen \/ k = gen
                BY <1>g
            <4>2. builds[k].cancelled \/ k = cancelBld
                BY <4>1, <1>g DEF OneLiveBuild, CancelsNewest
            <4>3. QED
                BY <2>3, <4>2
        <3>2. ~builds'[gen + 1].cancelled
            BY <2>3
        <3>3. ASSUME NEW k \in 1..gen' PROVE builds'[k].cancelled <=> k < gen'
            <4>1. CASE k = gen + 1
                BY <2>3, <3>2, <4>1, <1>g
            <4>2. CASE k # gen + 1
                BY <2>3, <3>1, <4>2, <1>g
            <4>3. QED
                BY <4>1, <4>2
        <3>4. QED
            BY <3>3 DEF OneLiveBuild
    <2>4. QED
        BY <2>1, <2>2, <2>3, ScheduleFrame
<1>3. ASSUME NEW g \in 1..gen, BuildStep(g) PROVE OneLiveBuild'
    <2>1. gen' = gen /\ builds'[g].cancelled = builds[g].cancelled
          /\ \A k \in 1..gen : k # g => builds'[k] = builds[k]
        BY <1>3, BuildFrame DEF sched
    <2>2. QED
        BY <2>1 DEF OneLiveBuild
<1>4. QED
    BY <1>1, <1>2, <1>3, StepKinds

LEMMA NoLostWakeupStep ==
    ASSUME TypeOK, NoLostWakeup, [Next]_vars
    PROVE  NoLostWakeup'
<1>g. callbacks \in Nat
    BY DEF TypeOK
<1>1. CASE DidOpen \/ DidChange \/ DidSave \/ DidClose
    <2>1. UNCHANGED <<dirty, timer, callbacks>> /\ handler = Idle
        BY <1>1 DEF DidOpen, DidChange, DidSave, DidClose, Receive, sched
    <2>2. QED
        BY <2>1 DEF NoLostWakeup, Idle
<1>2. CASE WriteDisk \/ UNCHANGED vars
    BY <1>2 DEF WriteDisk, vars, NoLostWakeup, sched
<1>3. CASE HandlerStep
    <2>1. CASE MarkDirty
        BY <2>1 DEF MarkDirty, NoLostWakeup
    <2>2. CASE FlagDirty
        <3>1. handler \in HandlerState
            BY DEF TypeOK
        <3>2. handler'.pc = "schedule"
            BY <2>2, <3>1 DEF FlagDirty, Goto, HandlerState
        <3>3. QED
            BY <3>2 DEF NoLostWakeup
    <2>3. CASE SaveRebuild
        <3>1. ~dirty'
            BY <2>3, ScheduleFrame DEF SaveRebuild
        <3>2. QED
            BY <3>1 DEF NoLostWakeup
    <2>4. CASE EnsureRoot \/ SetOverlay \/ Register \/ ParseBuffer \/ PublishParse
               \/ DeleteOverlay \/ Forget
        <3>1. UNCHANGED <<dirty, timer, callbacks>> /\ handler.pc # "schedule"
            BY <2>4 DEF EnsureRoot, SetOverlay, Register, ParseBuffer, PublishParse,
                        DeleteOverlay, Forget, At, sched
        <3>2. QED
            BY <3>1 DEF NoLostWakeup
    <2>5. QED
        BY <1>3, <2>1, <2>2, <2>3, <2>4 DEF HandlerStep
<1>4. CASE TimerFires
    <2>1. callbacks' = callbacks + 1
        BY <1>4 DEF TimerFires
    <2>2. callbacks' > 0
        BY <2>1, <1>g
    <2>3. QED
        BY <2>2 DEF NoLostWakeup
<1>5. CASE TimerRebuild
    <2>1. ~dirty'
        BY <1>5, ScheduleFrame DEF TimerRebuild
    <2>2. QED
        BY <2>1 DEF NoLostWakeup
<1>6. ASSUME NEW g \in 1..gen, BuildStep(g) PROVE NoLostWakeup'
    BY <1>6, BuildFrame DEF NoLostWakeup, sched
<1>7. QED
    BY <1>1, <1>2, <1>3, <1>4, <1>5, <1>6 DEF Next

LEMMA SwapAheadStep ==
    ASSUME TypeOK, SwapAhead, [Next]_vars
    PROVE  SwapAhead'
<1>g. gen \in Nat /\ snap.gen \in Nat
    BY DEF TypeOK
<1>1. CASE UNCHANGED <<gen, cancelBld, builds, snap>>
    BY <1>1 DEF SwapAhead
<1>2. CASE SaveRebuild \/ TimerRebuild
    <2>1. ScheduleRebuild /\ snap' = snap
        BY <1>2 DEF SaveRebuild, TimerRebuild
    <2>2. CASE UNCHANGED <<dirty, gen, cancelBld, builds>>
        BY <2>1, <2>2 DEF SwapAhead
    <2>3. CASE gen' = gen + 1
        <3>1. snap.gen < gen + 1
            BY <1>g DEF SwapAhead
        <3>2. snap'.gen <= gen' /\ snap'.gen < gen'
            BY <2>1, <2>3, <3>1, <1>g
        <3>3. QED
            BY <3>2 DEF SwapAhead
    <2>4. QED
        BY <2>1, <2>2, <2>3, ScheduleFrame
<1>3. ASSUME NEW g \in 1..gen, BuildStep(g) PROVE SwapAhead'
    <2>1. /\ gen' = gen
          /\ \A k \in 1..gen : k # g => builds'[k] = builds[k]
          /\ builds'[g].pc \in Loading => builds[g].pc \in Loading
          /\ \/ snap' = snap
             \/ g = gen /\ builds'[g].pc = "check" /\ snap'.gen = g
        BY <1>3, BuildFrame DEF sched
    <2>2. gen \in 1..gen
        BY <1>g
    <2>3. CASE snap' = snap
        BY <2>1, <2>2, <2>3 DEF SwapAhead, Loading
    <2>4. CASE g = gen /\ builds'[g].pc = "check" /\ snap'.gen = g
        BY <2>1, <2>4, <1>g DEF SwapAhead, Loading
    <2>5. QED
        BY <2>1, <2>3, <2>4
<1>4. QED
    BY <1>1, <1>2, <1>3, StepKinds

LEMMA OpenBufferedStep ==
    ASSUME TypeOK, OpenBuffered, [Next]_vars
    PROVE  OpenBuffered'
<1>h. handler \in HandlerState
    BY DEF TypeOK
<1>o. overlay \in [Files -> Texts \cup {None}] /\ openDocs \subseteq Files
    BY DEF TypeOK
<1>f. handler.pc # "idle" => handler.file \in Files
    BY <1>h DEF TypeOK, HandlerState
<1>1. CASE DidOpen \/ DidChange \/ DidSave \/ DidClose
    <2>1. /\ UNCHANGED <<overlay, openDocs>> /\ handler = Idle
          /\ handler'.pc # "register"
        BY <1>1 DEF DidOpen, DidChange, DidSave, DidClose, Receive, editor
    <2>2. QED
        BY <2>1 DEF OpenBuffered, Idle
<1>2. CASE WriteDisk \/ TimerFires \/ TimerRebuild \/ UNCHANGED vars
    BY <1>2 DEF WriteDisk, TimerFires, TimerRebuild, vars, editor, OpenBuffered
<1>3. CASE EnsureRoot \/ ParseBuffer \/ PublishParse \/ MarkDirty \/ FlagDirty \/ SaveRebuild
    <2>1. UNCHANGED <<overlay, openDocs>> /\ handler.pc # "forget"
        BY <1>3 DEF EnsureRoot, ParseBuffer, PublishParse, MarkDirty, FlagDirty, SaveRebuild,
                    At, editor
    <2>2. CASE EnsureRoot \/ PublishParse \/ FlagDirty
        <3>1. handler'.pc # "register"
            BY <2>2, <1>h DEF EnsureRoot, PublishParse, FlagDirty, Goto, HandlerState
        <3>2. QED
            BY <2>1, <3>1 DEF OpenBuffered
    <2>3. CASE ParseBuffer
        <3>1. handler'.pc # "register"
            BY <2>3, <1>h DEF ParseBuffer, HandlerState
        <3>2. QED
            BY <2>1, <3>1 DEF OpenBuffered
    <2>4. CASE MarkDirty \/ SaveRebuild
        <3>1. handler'.pc # "register"
            BY <2>4 DEF MarkDirty, SaveRebuild, Idle
        <3>2. QED
            BY <2>1, <3>1 DEF OpenBuffered
    <2>5. QED
        BY <1>3, <2>2, <2>3, <2>4
<1>4. CASE SetOverlay
    <2>1. /\ overlay' = [overlay EXCEPT ![handler.file] = handler.text] /\ openDocs' = openDocs
          /\ handler'.file = handler.file /\ handler.pc = "set"
        BY <1>4, <1>h DEF SetOverlay, At, Goto, HandlerState
    <2>2. handler.text # None
        BY <2>1 DEF TypeOK
    <2>3. QED
        BY <2>1, <2>2, <1>o, <1>f DEF OpenBuffered
<1>5. CASE Register
    <2>1. /\ openDocs' = openDocs \cup {handler.file} /\ overlay' = overlay
          /\ handler.pc = "register" /\ handler'.pc = "parse"
        BY <1>5, <1>h DEF Register, At, Goto, HandlerState
    <2>2. QED
        BY <2>1 DEF OpenBuffered
<1>6. CASE DeleteOverlay
    <2>1. /\ overlay' = [overlay EXCEPT ![handler.file] = None] /\ openDocs' = openDocs
          /\ handler'.file = handler.file /\ handler.pc = "delete" /\ handler'.pc = "forget"
        BY <1>6, <1>h DEF DeleteOverlay, At, Goto, HandlerState
    <2>2. QED
        BY <2>1, <1>o DEF OpenBuffered
<1>7. CASE Forget
    <2>1. /\ openDocs' = openDocs \ {handler.file} /\ overlay' = overlay
          /\ handler.pc = "forget" /\ handler'.pc = "mark"
        BY <1>7, <1>h DEF Forget, At, Goto, HandlerState
    <2>2. QED
        BY <2>1 DEF OpenBuffered
<1>8. ASSUME NEW g \in 1..gen, BuildStep(g) PROVE OpenBuffered'
    BY <1>8, BuildFrame DEF OpenBuffered, editor
<1>9. QED
    BY <1>1, <1>2, <1>3, <1>4, <1>5, <1>6, <1>7, <1>8 DEF Next, HandlerStep

(* Steps that leave the documents, the builds and the snapshot alone.      *)
LEMMA NewestCurrentKept ==
    ASSUME NewestCurrent, UNCHANGED <<ledgerOf, overlay, openDocs, gen, builds, snap>>,
           Stable' => Stable
    PROVE  NewestCurrent'
BY DEF NewestCurrent, Current

LEMMA NewestCurrentHandler ==
    ASSUME TypeOK, NewestCurrent,
           DidOpen \/ DidChange \/ DidSave \/ DidClose \/ WriteDisk \/ TimerFires \/ UNCHANGED vars
              \/ (HandlerStep /\ ~SaveRebuild)
    PROVE  NewestCurrent'
<1>h. handler \in HandlerState
    BY DEF TypeOK
<1>1. CASE DidOpen \/ DidChange \/ DidSave \/ DidClose
    <2>1. UNCHANGED <<ledgerOf, overlay, openDocs, gen, builds, snap, dirty>> /\ handler = Idle
        BY <1>1 DEF DidOpen, DidChange, DidSave, DidClose, Receive, editor, sched
    <2>2. Stable' => Stable
        BY <2>1 DEF Stable, Idle
    <2>3. QED
        BY <2>1, <2>2, NewestCurrentKept
<1>2. CASE WriteDisk \/ TimerFires \/ UNCHANGED vars
    <2>1. UNCHANGED <<ledgerOf, overlay, openDocs, gen, builds, snap, dirty, handler>>
        BY <1>2 DEF WriteDisk, TimerFires, vars, editor, sched
    <2>2. QED
        BY <2>1, NewestCurrentKept DEF Stable
<1>3. CASE EnsureRoot
    <2>1. UNCHANGED <<ledgerOf, overlay, openDocs, gen, builds, snap, dirty>> /\ handler.pc = "root"
        BY <1>3 DEF EnsureRoot, At, editor, sched
    <2>2. QED
        BY <2>1, NewestCurrentKept DEF Stable
<1>4. CASE MarkDirty \/ FlagDirty
    <2>1. dirty' = TRUE
        BY <1>4 DEF MarkDirty, FlagDirty
    <2>2. QED
        BY <2>1 DEF NewestCurrent, Stable
<1>5. CASE SetOverlay \/ Register \/ ParseBuffer \/ PublishParse \/ DeleteOverlay \/ Forget
    <2>1. \/ handler'.pc \in {"register", "parse", "publish", "mark", "forget"}
          \/ /\ handler.pc = "publish" /\ handler'.pc = "flag"
        BY <1>5, <1>h DEF SetOverlay, Register, ParseBuffer, PublishParse, DeleteOverlay, Forget,
                          At, Goto, HandlerState
    <2>2. QED
        BY <2>1 DEF NewestCurrent, Stable
<1>6. QED
    BY <1>1, <1>2, <1>3, <1>4, <1>5 DEF HandlerStep

LEMMA NewestCurrentSchedule ==
    ASSUME TypeOK, NewestCurrent, SwapAhead, SaveRebuild \/ TimerRebuild
    PROVE  NewestCurrent'
<1>1. /\ ScheduleRebuild /\ UNCHANGED <<ledgerOf, overlay, openDocs, snap>>
      /\ \/ SaveRebuild /\ handler.pc = "schedule"
         \/ UNCHANGED handler
    BY DEF SaveRebuild, TimerRebuild, At, editor
<1>g. gen \in Nat /\ snap.gen \in Nat
    BY DEF TypeOK
<1>2. CASE UNCHANGED <<dirty, gen, cancelBld, builds>>
    <2>1. Stable' => Stable
        BY <1>1, <1>2 DEF Stable
    <2>2. QED
        BY <1>1, <1>2, <2>1, NewestCurrentKept
<1>3. CASE gen' = gen + 1 /\ builds'[gen + 1].pc = "root"
    <2>1. snap'.gen # gen'
        BY <1>1, <1>3, <1>g DEF SwapAhead
    <2>2. QED
        BY <1>3, <2>1 DEF NewestCurrent
<1>4. QED
    BY <1>1, <1>2, <1>3, ScheduleFrame

(* A step of the newest build keeps what it has read up to date.           *)
LEMMA NewestCurrentBuild ==
    ASSUME TypeOK, NewestCurrent, OpenBuffered, SwapAhead, NEW g \in 1..gen, BuildStep(g)
    PROVE  NewestCurrent'
<1>g. gen \in Nat /\ snap.gen \in Nat
    BY DEF TypeOK
<1>b. builds[g] \in BuildState /\ DOMAIN builds = 1..gen
    BY DEF TypeOK
<1>1. /\ UNCHANGED <<ledgerOf, overlay, openDocs, gen, dirty, handler>>
      /\ \A k \in 1..gen : k # g => builds'[k] = builds[k]
      /\ \/ snap' = snap
         \/ /\ g = gen /\ builds[g].pc = "swap" /\ builds'[g].pc = "check"
            /\ snap' = [gen |-> g, texts |-> builds[g].texts]
    BY BuildFrame DEF editor, sched
<1> SUFFICES ASSUME Stable PROVE NewestCurrent'
    BY <1>1 DEF NewestCurrent, Stable
<1>2. CASE g # gen
    <2>1. builds'[gen] = builds[gen] /\ snap' = snap
        BY <1>1, <1>2, <1>g
    <2>2. QED
        BY <1>1, <2>1 DEF NewestCurrent, Current
<1>3. CASE g = gen /\ snap' # snap
    <2>1. builds'[g].pc = "check" /\ snap'.texts = builds[g].texts /\ builds[g].pc = "swap"
        BY <1>1, <1>3
    <2>2. \A f \in Files : Current(builds[g].texts, f)
        BY <1>3, <1>g, <2>1 DEF NewestCurrent
    <2>3. QED
        BY <1>1, <1>3, <2>1, <2>2 DEF NewestCurrent, Current
<1>4. CASE g = gen /\ snap' = snap
    <2>1. snap'.gen = gen' => \A f \in Files : Current(snap.texts, f)'
        BY <1>1, <1>4 DEF NewestCurrent, Current
    <2>2. ASSUME NEW pc, NEW b, Step(g, pc, b),
                 b.pc = "ledger" => \A f \in Files \ b.scope : Current(b.texts, f),
                 b.pc = "swap" => \A f \in Files : Current(b.texts, f)
          PROVE  NewestCurrent'
        <3>1. builds'[gen'] = b
            BY <1>1, <1>4, <1>b, <2>2 DEF Step
        <3>2. QED
            BY <1>1, <1>4, <2>1, <2>2, <3>1 DEF NewestCurrent, Current
    <2>3. Ends(g).pc = "done"
        BY DEF Ends, DoneBuild, NewBuild
    <2>4. ASSUME NEW pc PROVE BuildAt(g, pc).pc = pc
        BY <1>b DEF BuildAt, BuildState
    <2>5. CASE Scope(g)
        <3> DEFINE scope == {f \in Files : ledgerOf[f] \in OpenLedgersOf(openDocs)}
                   b     == [BuildAt(g, "ledger") EXCEPT !.scope = scope]
        <3>1. b.pc = "ledger" /\ b.scope = scope
            BY <1>b DEF BuildAt, BuildState
        <3>2. ASSUME NEW f \in Files \ scope PROVE Current(b.texts, f)
            BY <3>2 DEF Current, OpenLedgersOf
        <3>3. Step(g, "scope", b) \/ Step(g, "scope", Ends(g))
            BY <2>5 DEF Scope
        <3>4. QED
            BY <3>1, <3>2, <3>3, <2>2, <2>3
    <2>6. CASE LoadFile(g)
        <3>1. PICK f \in builds[g].scope :
                Step(g, "ledger", [builds[g] EXCEPT !.texts[f] = ReadFile(f), !.scope = @ \ {f}])
            BY <2>6 DEF LoadFile
        <3> DEFINE b == [builds[g] EXCEPT !.texts[f] = ReadFile(f), !.scope = @ \ {f}]
        <3>2. builds[g].pc = "ledger"
            BY <3>1 DEF Step
        <3>3. f \in Files /\ builds[g].texts \in [Files -> Texts \cup {None}]
            BY <1>b DEF BuildState
        <3>4. /\ b.pc = "ledger" /\ b.scope = builds[g].scope \ {f}
              /\ b.texts = [builds[g].texts EXCEPT ![f] = ReadFile(f)]
            BY <1>b, <3>2 DEF BuildState
        <3>5. f \in openDocs => ReadFile(f) = overlay[f]
            BY DEF OpenBuffered, Stable, ReadFile
        <3>6. ASSUME NEW k \in Files \ b.scope PROVE Current(b.texts, k)
            <4>1. CASE k = f
                BY <3>3, <3>4, <3>5, <4>1 DEF Current
            <4>2. CASE k # f
                <5>1. k \in Files \ builds[g].scope /\ b.texts[k] = builds[g].texts[k]
                    BY <3>3, <3>4, <3>6, <4>2
                <5>2. Current(builds[g].texts, k)
                    BY <5>1, <3>2, <1>4, <1>g DEF NewestCurrent
                <5>3. QED
                    BY <5>1, <5>2 DEF Current
            <4>3. QED
                BY <4>1, <4>2
        <3>7. QED
            BY <3>1, <3>4, <3>6, <2>2
    <2>7. CASE Loaded(g)
        <3>1. Step(g, "ledger", BuildAt(g, "swap")) /\ builds[g].scope = {} /\ builds[g].pc = "ledger"
            BY <2>7 DEF Loaded, Step
        <3>2. \A f \in Files : Current(builds[g].texts, f)
            BY <3>1, <1>4, <1>g DEF NewestCurrent
        <3>3. BuildAt(g, "swap").texts = builds[g].texts
            BY <1>b DEF BuildAt, BuildState
        <3>4. QED
            BY <3>1, <3>2, <3>3, <2>2, <2>4
    <2>8. CASE \/ ReadRoot(g) \/ FindDocument(g) \/ FindRoot(g) \/ RootFound(g)
               \/ OpenProject(g) \/ Abandon(g) \/ CheckContext(g) \/ Finish(g) \/ Fail(g)
        <3>1. PICK pc, b : /\ Step(g, pc, b)
                           /\ \/ b = Ends(g)
                              \/ \E at \in {"find", "ensure", "found", "open", "scope", "rest",
                                            "publish"} : b = BuildAt(g, at)
            BY <2>8 DEF ReadRoot, FindDocument, FindRoot, RootFound, OpenProject, Abandon, CheckContext, Finish, Fail
        <3>2. b.pc \notin {"ledger", "swap"}
            BY <3>1, <2>3, <2>4
        <3>3. QED
            BY <3>1, <3>2, <2>2
    <2>9. CASE Publish(g) \/ PublishRest(g) \/ Swap(g)
        <3>1. builds[g].pc \in {"publish", "rest", "swap"}
            BY <2>9 DEF Publish, PublishRest, Swap, Step
        <3>2. builds'[g].pc \notin {"ledger", "swap"}
            BY BuildFrame, <3>1
        <3>3. QED
            BY <1>1, <1>4, <2>1, <3>2 DEF NewestCurrent
    <2>10. QED
        BY <2>5, <2>6, <2>7, <2>8, <2>9 DEF BuildStep
<1>5. QED
    BY <1>2, <1>3, <1>4

LEMMA NewestCurrentStep ==
    ASSUME TypeOK, NewestCurrent, OpenBuffered, SwapAhead, [Next]_vars
    PROVE  NewestCurrent'
<1>1. CASE SaveRebuild \/ TimerRebuild
    BY <1>1, NewestCurrentSchedule
<1>2. ASSUME NEW g \in 1..gen, BuildStep(g) PROVE NewestCurrent'
    BY <1>2, NewestCurrentBuild
<1>3. CASE DidOpen \/ DidChange \/ DidSave \/ DidClose \/ WriteDisk \/ TimerFires \/ UNCHANGED vars
              \/ (HandlerStep /\ ~SaveRebuild)
    BY <1>3, NewestCurrentHandler
<1>4. QED
    BY <1>1, <1>2, <1>3 DEF Next

----------------------------------------------------------------------------
(* The invariant, and what follows from it *)

THEOREM Invariance == Spec => []IInv
<1>1. Init => IInv
    <2> SUFFICES ASSUME Init PROVE IInv
        OBVIOUS
    <2>1. TypeOK
        BY InitType
    <2>2. gen = 0 /\ cancelBld = 0 /\ snap.gen = 0 /\ openDocs = {} /\ ~dirty /\ handler.pc = "idle"
        BY DEF Init, Idle
    <2>3. QED
        BY <2>1, <2>2 DEF IInv, CancelsNewest, OneLiveBuild, NoLostWakeup, OpenBuffered, SwapAhead, NewestCurrent
<1>2. IInv /\ [Next]_vars => IInv'
    BY NextType, CancelsNewestStep, OneLiveBuildStep, NoLostWakeupStep, OpenBufferedStep, SwapAheadStep,
       NewestCurrentStep DEF IInv
<1>3. QED
    BY <1>1, <1>2, PTL DEF Spec

(* No edit is forgotten: as long as one waits for a rebuild, a timer runs, *)
(* a fired callback is on its way to scheduleRebuild, or a save is.        *)
THEOREM NoEditForgotten == Spec => []NoLostWakeup
<1>1. IInv => NoLostWakeup
    BY DEF IInv
<1>2. QED
    BY <1>1, Invariance, PTL

(* Every build but the newest has been cancelled, the newest has not: each *)
(* call cancels one build only, the one whose cancel function is stored.   *)
THEOREM OlderBuildsCancelled == Spec => []OneLiveBuild
<1>1. IInv => OneLiveBuild
    BY DEF IInv
<1>2. QED
    BY <1>1, Invariance, PTL

(* The snapshot of the newest build, once in place with no edit pending,   *)
(* was made from the editor's buffers, although the build read them one by *)
(* one while they were being edited.                                       *)
THEOREM SnapshotFresh == Spec => []FreshSnapshot
<1>1. IInv => FreshSnapshot
    BY DEF IInv, NewestCurrent, Stable, Current, FreshSnapshot, TypeOK, Idle
<1>2. QED
    BY <1>1, Invariance, PTL

(* A build that finishes late never replaces the snapshot of a newer one.  *)
THEOREM NeverBack == Spec => SnapshotMonotonic
<1>1. IInv /\ [Next]_vars => [snap' # snap => snap'.gen > snap.gen]_vars
    <2> SUFFICES ASSUME IInv, [Next]_vars, snap' # snap PROVE snap'.gen > snap.gen
        OBVIOUS
    <2>1. TypeOK /\ SwapAhead
        BY DEF IInv
    <2>2. gen \in Nat /\ snap.gen \in Nat
        BY <2>1 DEF TypeOK
    <2>3. PICK g \in 1..gen : BuildStep(g)
        <3>1. CASE SaveRebuild \/ TimerRebuild
            BY <3>1 DEF SaveRebuild, TimerRebuild
        <3>2. QED
            BY <2>1, <3>1, StepKinds
    <2>4. g = gen /\ builds[g].pc = "swap" /\ snap' = [gen |-> g, texts |-> builds[g].texts]
        BY <2>1, <2>3, BuildFrame
    <2>5. snap.gen < gen
        BY <2>1, <2>2, <2>4 DEF SwapAhead, Loading
    <2>6. QED
        BY <2>2, <2>4, <2>5
<1>2. QED
    BY <1>1, Invariance, PTL DEF Spec, SnapshotMonotonic
=============================================================================
