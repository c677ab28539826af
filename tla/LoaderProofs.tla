---------------------------- MODULE LoaderProofs ----------------------------
(***************************************************************************)
(* Proofs about the loader, for any paths, links, texts and journals.      *)
(***************************************************************************)
EXTENDS Loader, TLAPS, SequenceTheorems

StackFrame == [path : Paths, item : Nat \ {0}, matches : SUBSET Paths]
Line       == [path : Paths, item : Nat \ {0}]

----------------------------------------------------------------------------
(* Operations on the stack *)

LEMMA ProjectType ==
    ASSUME TypeOK
    PROVE  /\ project.text \in [Paths -> Seq(FileItem)]
           /\ project.real \in [Paths -> Paths]
           /\ project.disk \subseteq Paths /\ project.buffers \subseteq Paths
           /\ project.main \in Paths
           /\ project.journals \in Seq(Paths)
<1>1. project \in Projects
    BY DEF TypeOK
<1>2. project.journals \in Seq(project.disk) /\ project.disk \subseteq Paths
    BY <1>1, LoaderAssumption
<1>3. project.journals \in Seq(Paths)
    BY <1>2
<1>4. QED
    BY <1>1, <1>3, LoaderAssumption

LEMMA TopType ==
    ASSUME TypeOK, Expanding
    PROVE  /\ Len(stack) \in DOMAIN stack /\ Len(stack) \in Nat \ {0}
           /\ stack[Len(stack)] = Top /\ Top \in StackFrame
           /\ Items \in Seq(FileItem)
<1>1. stack \in Seq(StackFrame) /\ stack # << >>
    BY DEF TypeOK, Expanding, StackFrame
<1>2. Len(stack) \in Nat \ {0} /\ Len(stack) \in DOMAIN stack
    BY <1>1, EmptySeq, LenProperties
<1>3. Top = stack[Len(stack)] /\ Top \in StackFrame
    BY <1>1, <1>2 DEF Top, Last
<1>4. Top.path \in Paths
    BY <1>3 DEF StackFrame
<1>5. Items \in Seq(FileItem)
    BY <1>4, ProjectType DEF Items
<1>6. QED
    BY <1>2, <1>3, <1>5

LEMMA FrameType ==
    ASSUME TypeOK, NEW i \in DOMAIN stack
    PROVE  /\ stack[i] \in StackFrame /\ stack[i].path \in Paths /\ stack[i].item \in Nat \ {0}
           /\ stack[i].item <= Len(project.text[stack[i].path]) + 1
<1>1. stack \in Seq(StackFrame)
    BY DEF TypeOK, StackFrame
<1>2. stack[i] \in StackFrame
    BY <1>1
<1>3. QED
    BY <1>2 DEF StackFrame, TypeOK

LEMMA LineType ==
    ASSUME TypeOK, NEW k \in DOMAIN out
    PROVE  out[k].path \in Paths /\ out[k].item \in Nat \ {0}
<1>1. out \in Seq(Line)
    BY DEF TypeOK, Line
<1>2. out[k] \in Line
    BY <1>1
<1>3. QED
    BY <1>2 DEF Line

(* What replaces the frame on top is the only change. *)
LEMMA ReplaceTop ==
    ASSUME TypeOK, Expanding, NEW f \in StackFrame
    PROVE  LET s == ReplaceAt(stack, Len(stack), f)
           IN  /\ s \in Seq(StackFrame) /\ Len(s) = Len(stack) /\ DOMAIN s = DOMAIN stack
               /\ s[Len(stack)] = f
               /\ \A i \in DOMAIN stack : i # Len(stack) => s[i] = stack[i]
BY TopType DEF ReplaceAt, TypeOK, StackFrame

(* A stack that differs from this one in how far the top call has come. *)
Progress(frames) ==
    /\ frames \in Seq(StackFrame)
    /\ DOMAIN frames = DOMAIN stack /\ Len(frames) = Len(stack)
    /\ \A i \in DOMAIN stack :
            /\ frames[i].path = stack[i].path /\ frames[i].item >= stack[i].item
            /\ frames[i].item <= Len(project.text[frames[i].path]) + 1

LEMMA ReachedProgress ==
    ASSUME TypeOK, Expanding, NEW n \in Nat, NEW S \in SUBSET Paths,
           n >= Top.item, n <= Len(Items) + 1
    PROVE  Progress(Reached(n, S))
<1> DEFINE f == [path |-> Top.path, item |-> n, matches |-> S]
           s == ReplaceAt(stack, Len(stack), f)
<1>1. Top = stack[Len(stack)] /\ Top.path \in Paths /\ Top.item \in Nat \ {0}
    BY TopType DEF StackFrame
<1>2. f \in StackFrame
    BY <1>1 DEF StackFrame
<1>3. /\ s \in Seq(StackFrame) /\ Len(s) = Len(stack) /\ DOMAIN s = DOMAIN stack
      /\ s[Len(stack)] = f
      /\ \A i \in DOMAIN stack : i # Len(stack) => s[i] = stack[i]
    BY <1>2, ReplaceTop
<1>4. ASSUME NEW i \in DOMAIN stack
      PROVE  /\ s[i].path = stack[i].path /\ s[i].item >= stack[i].item
             /\ s[i].item <= Len(project.text[s[i].path]) + 1
    <2>1. CASE i = Len(stack)
        <3>1. s[i].path = Top.path /\ s[i].item = n
            BY <2>1, <1>3
        <3>2. QED
            BY <2>1, <1>1, <3>1 DEF Items
    <2>2. CASE i # Len(stack)
        <3>1. s[i] = stack[i]
            BY <2>2, <1>3
        <3>2. QED
            BY <3>1, FrameType
    <2>3. QED
        BY <2>1, <2>2
<1>5. QED
    BY <1>3, <1>4 DEF Progress, Reached

LEMMA AdvancedProgress ==
    ASSUME TypeOK, AtItem
    PROVE  Progress(Advanced)
<1>1. Top.item \in Nat /\ Top.item + 1 \in Nat /\ Len(Items) \in Nat
    BY TopType, LenProperties DEF AtItem, StackFrame
<1>2. Top.item + 1 >= Top.item /\ Top.item + 1 <= Len(Items) + 1 /\ Expanding
    BY <1>1 DEF AtItem
<1>3. Progress(Reached(Top.item + 1, {}))
    BY <1>1, <1>2, ReachedProgress
<1>4. QED
    BY <1>3 DEF Advanced

LEMMA FramePushed ==
    ASSUME TypeOK, NEW frames, Progress(frames), NEW p \in Paths
    PROVE  LET s == Append(frames, Frame(p))
           IN  /\ s \in Seq(StackFrame) /\ Len(s) = Len(stack) + 1
               /\ s[Len(stack) + 1] = Frame(p)
               /\ \A i \in DOMAIN stack : s[i] = frames[i]
               /\ DOMAIN s = DOMAIN stack \cup {Len(stack) + 1}
<1>1. frames \in Seq(StackFrame) /\ Len(frames) = Len(stack) /\ DOMAIN frames = DOMAIN stack
    BY DEF Progress
<1>2. Frame(p) \in StackFrame
    BY DEF Frame, StackFrame
<1>3. DOMAIN stack = 1..Len(stack) /\ Len(stack) \in Nat
    BY <1>1, LenProperties
<1>4. QED
    BY <1>1, <1>2, <1>3, AppendProperties, LenProperties

----------------------------------------------------------------------------
(* Type correctness *)

LEMMA ProgressType ==
    ASSUME TypeOK, NEW frames, Progress(frames), stack' = frames,
           UNCHANGED <<project, seen, out, load>>, diags' \subseteq Causes \X Paths
    PROVE  TypeOK'
BY DEF TypeOK, Progress, StackFrame, load, Own

LEMMA AbortType ==
    ASSUME TypeOK, NEW what \in Causes, NEW p \in Paths, Abort(what, p)
    PROVE  TypeOK'
BY DEF TypeOK, Abort, Phases, Own

LEMMA EnterType ==
    ASSUME TypeOK, NEW frames, Progress(frames), NEW p \in Paths, Enter(p, frames)
    PROVE  TypeOK'
<1>1. CASE OnStack(p)
    BY <1>1, AbortType DEF Enter, Causes
<1>2. CASE ~OnStack(p) /\ Real(p) \in seen
    <2>1. stack' = frames /\ UNCHANGED <<project, seen, out, load, diags>>
        BY <1>2 DEF Enter
    <2>2. QED
        BY <2>1, ProgressType DEF TypeOK
<1>3. CASE ~OnStack(p) /\ Real(p) \notin seen
    <2>1. /\ stack' = Append(frames, Frame(p)) /\ seen' = seen \cup {Real(p)}
          /\ UNCHANGED <<project, out, diags, load>>
        BY <1>3 DEF Enter
    <2>2. seen' \subseteq Paths
        BY <2>1, ProjectType DEF TypeOK, Real
    <2>3. stack' \in Seq(StackFrame)
        BY <2>1, FramePushed
    <2>4. ASSUME NEW i \in DOMAIN stack'
          PROVE  stack'[i].item <= Len(project.text[stack'[i].path]) + 1
        <3>1. CASE i \in DOMAIN stack
            BY <3>1, <2>1, FramePushed DEF Progress
        <3>2. CASE i = Len(stack) + 1
            <4>1. stack'[i].item = 1 /\ stack'[i].path = p
                BY <3>2, <2>1, FramePushed DEF Frame
            <4>2. Len(project.text[p]) \in Nat
                BY ProjectType, LenProperties
            <4>3. QED
                BY <4>1, <4>2
        <3>3. QED
            BY <3>1, <3>2, <2>1, FramePushed
    <2>5. QED
        BY <2>1, <2>2, <2>3, <2>4 DEF TypeOK, StackFrame, load, Own
<1>4. QED
    BY <1>1, <1>2, <1>3 DEF Enter

LEMMA ItemType ==
    ASSUME TypeOK, AtItem
    PROVE  /\ Item \in FileItem /\ Top.path \in Paths /\ Top.item \in DOMAIN project.text[Top.path]
           /\ Item.kind = "include" => Item.path \in Paths
           /\ Item.kind = "glob" => Item.paths \in SUBSET Paths
<1>1. Items \in Seq(FileItem) /\ Top \in StackFrame /\ Top.item <= Len(Items)
    BY TopType DEF AtItem
<1>2. Top.item \in 1..Len(Items) /\ DOMAIN Items = 1..Len(Items)
    BY <1>1, LenProperties DEF StackFrame
<1>3. Item \in FileItem
    BY <1>1, <1>2, ElementOfSeq DEF Item
<1>4. QED
    BY <1>1, <1>2, <1>3 DEF FileItem, StackFrame, Items

LEMMA ReturnStack ==
    ASSUME TypeOK, Expanding
    PROVE  /\ Front(stack) \in Seq(StackFrame) /\ Len(Front(stack)) = Len(stack) - 1
           /\ DOMAIN Front(stack) \subseteq DOMAIN stack
           /\ \A i \in DOMAIN Front(stack) : Front(stack)[i] = stack[i]
<1>1. stack \in Seq(StackFrame)
    BY DEF TypeOK, StackFrame
<1>2. Len(stack) \in Nat \ {0} /\ DOMAIN stack = 1..Len(stack)
    BY <1>1, TopType, LenProperties
<1>3. QED
    BY <1>1, <1>2, SubSeqProperties, LenProperties DEF Front

LEMMA JournalType ==
    ASSUME TypeOK, entry < Len(project.journals), entry' = entry + 1
    PROVE  Journal \in Paths /\ entry' \in 0..Len(project.journals)
<1>1. project.journals \in Seq(Paths) /\ entry \in Nat /\ Len(project.journals) \in Nat
    BY ProjectType, LenProperties DEF TypeOK
<1>2. entry' \in 1..Len(project.journals)
    BY <1>1
<1>3. QED
    BY <1>1, <1>2, ElementOfSeq DEF Journal

LEMMA StartType ==
    ASSUME TypeOK, NEW p \in Paths
    PROVE  /\ <<Frame(p)>> \in Seq(StackFrame) /\ Real(p) \in Paths
           /\ DOMAIN <<Frame(p)>> = {1} /\ <<Frame(p)>>[1] = Frame(p)
           /\ Frame(p).path = p /\ Frame(p).item = 1
           /\ 1 <= Len(project.text[p]) + 1
<1>1. Frame(p) \in StackFrame
    BY DEF Frame, StackFrame
<1>2. Len(project.text[p]) \in Nat
    BY ProjectType, LenProperties
<1>3. QED
    BY <1>1, <1>2, ProjectType DEF Frame, Real

LEMMA TypeStep == TypeOK /\ [Next]_vars => TypeOK'
<1> SUFFICES ASSUME TypeOK, [Next]_vars PROVE TypeOK'
    OBVIOUS
<1>1. CASE TakeDirective
    <2>1. /\ AtItem /\ Item.kind = "own" /\ UNCHANGED <<project, seen, diags, load>>
          /\ out' = Append(out, [path |-> Top.path, item |-> Top.item]) /\ stack' = Advanced
        BY <1>1 DEF TakeDirective
    <2>2. Progress(Advanced)
        BY <2>1, AdvancedProgress
    <2>3. Top.path \in Paths /\ Top.item \in Own(Top.path) /\ Top.item \in Nat \ {0}
        BY <2>1, ItemType, TopType DEF AtItem, Own, Item, Items, StackFrame
    <2>4. [path |-> Top.path, item |-> Top.item] \in Line /\ out \in Seq(Line)
        BY <2>3 DEF Line, TypeOK
    <2>5. /\ out' \in Seq(Line)
          /\ \A i \in DOMAIN out' : out'[i].item \in Own(out'[i].path)
        BY <2>1, <2>3, <2>4, AppendProperties, LenProperties DEF TypeOK
    <2>6. QED
        BY <2>1, <2>2, <2>5 DEF TypeOK, Progress, StackFrame, Line, load, Own
<1>2. CASE TakeInclude
    <2>1. AtItem /\ Item.path \in Paths
        BY <1>2, ItemType DEF TakeInclude
    <2>2. CASE Readable(Item.path)
        <3>1. Enter(Item.path, Advanced)
            BY <1>2, <2>2 DEF TakeInclude
        <3>2. QED
            BY <2>1, <3>1, AdvancedProgress, EnterType
    <2>3. CASE ~Readable(Item.path)
        BY <1>2, <2>1, <2>3, AbortType DEF TakeInclude, Causes
    <2>4. QED
        BY <2>2, <2>3
<1>3. CASE TakeGlob
    <2> DEFINE S == Item.paths \cap project.disk
    <2>1. AtItem /\ Expanding /\ S \in SUBSET Paths
        BY <1>3, ItemType DEF TakeGlob, AtItem
    <2>2. Top.item \in Nat /\ Top.item + 1 \in Nat /\ Len(Items) \in Nat /\ Top.item <= Len(Items)
        BY <2>1, TopType, LenProperties DEF AtItem, StackFrame
    <2>3. Progress(Reached(Top.item + 1, S))
        BY <2>1, <2>2, ReachedProgress
    <2>4. diags' \subseteq Causes \X Paths
        <3>1. <<"zero matches", Top.path>> \in Causes \X Paths
            BY <2>1, ItemType DEF Causes
        <3>2. diags' = diags \cup {<<"zero matches", Top.path>>} \/ diags' = diags
            BY <1>3 DEF TakeGlob
        <3>3. QED
            BY <3>1, <3>2 DEF TypeOK
    <2>5. stack' = Reached(Top.item + 1, S) /\ UNCHANGED <<project, seen, out, load>>
        BY <1>3 DEF TakeGlob
    <2>6. QED
        BY <2>3, <2>4, <2>5, ProgressType
<1>4. CASE TakeMatch
    <2>1. PICK p \in Top.matches : Enter(p, Reached(Top.item, Top.matches \ {p}))
        BY <1>4 DEF TakeMatch
    <2>2. Expanding
        BY <1>4 DEF TakeMatch
    <2>3. /\ p \in Paths /\ Top.item \in Nat /\ (Top.matches \ {p}) \in SUBSET Paths
          /\ Top.item <= Len(Items) + 1
        BY <2>2, TopType, FrameType DEF StackFrame, Items
    <2>4. Progress(Reached(Top.item, Top.matches \ {p}))
        BY <2>2, <2>3, ReachedProgress
    <2>5. QED
        BY <2>1, <2>3, <2>4, EnterType
<1>5. CASE Return
    <2>1. Expanding /\ stack' = Front(stack) /\ UNCHANGED <<project, seen, out, diags, load>>
        BY <1>5 DEF Return
    <2>2. QED
        BY <2>1, ReturnStack DEF TypeOK, StackFrame, load, Own
<1>6. CASE MainLoaded
    <2>1. PathsOf(out) \subseteq Paths
        <3>1. out \in Seq(Line)
            BY DEF TypeOK, Line
        <3>2. \A i \in DOMAIN out : out[i] \in Line
            BY <3>1
        <3>3. QED
            BY <3>2 DEF PathsOf, Line
    <2>2. QED
        BY <1>6, <2>1 DEF MainLoaded, TypeOK, Phases, Own
<1>7. CASE MainFailed
    BY <1>7 DEF MainFailed, TypeOK, Phases, Own
<1>8. CASE SkipJournal
    BY <1>8, JournalType DEF SkipJournal, TypeOK, Own
<1>9. CASE LoadJournal
    <2>1. /\ Journal \in Paths /\ entry' \in 0..Len(project.journals)
        BY <1>9, JournalType DEF LoadJournal
    <2>2. /\ phase' = "load" /\ stack' = <<Frame(Journal)>> /\ seen' = {Real(Journal)} /\ out' = << >>
          /\ UNCHANGED <<project, stream, prefix, present, diags>>
        BY <1>9 DEF LoadJournal
    <2>3. /\ stack' \in Seq(StackFrame) /\ seen' \subseteq Paths
          /\ \A i \in DOMAIN stack' : stack'[i].item <= Len(project.text[stack'[i].path]) + 1
        BY <2>1, <2>2, StartType
    <2>4. out' \in Seq(Line) /\ DOMAIN out' = {}
        BY <2>2
    <2>5. QED
        BY <2>1, <2>2, <2>3, <2>4 DEF TypeOK, StackFrame, Line, Phases
<1>10. CASE JournalLoaded
    <2>1. project.journals[entry] \in Paths
        BY <1>10, ProjectType, ElementOfSeq DEF JournalLoaded, TypeOK
    <2>2. prefix' \in Seq(Line)
        BY <1>10, ConcatProperties DEF JournalLoaded, TypeOK, Line
    <2>3. QED
        BY <1>10, <2>1, <2>2 DEF JournalLoaded, TypeOK, Line, Phases, Own
<1>11. CASE JournalFailed
    <2>1. project.journals[entry] \in Paths
        <3>1. entry > 0
            BY <1>11 DEF JournalFailed
        <3>2. entry \in 1..Len(project.journals)
            BY <3>1, ProjectType, LenProperties DEF TypeOK
        <3>3. QED
            BY <3>2, ProjectType, ElementOfSeq
    <2>2. diags' = diags \cup {<<"journal not loaded", project.journals[entry]>>}
        BY <1>11 DEF JournalFailed
    <2>3. diags' \subseteq Causes \X Paths
        <3>1. <<"journal not loaded", project.journals[entry]>> \in Causes \X Paths
            BY <2>1 DEF Causes
        <3>2. QED
            BY <2>2, <3>1 DEF TypeOK
    <2>4. /\ phase' = "journals"
          /\ UNCHANGED <<project, entry, stack, seen, out, stream, prefix, present>>
        BY <1>11 DEF JournalFailed
    <2>5. QED
        BY <2>3, <2>4 DEF TypeOK, Phases, Own
<1>12. CASE Inject
    <2>1. stream' \in Seq(Line)
        BY <1>12, ConcatProperties DEF Inject, TypeOK, Line
    <2>2. QED
        BY <1>12, <2>1 DEF Inject, TypeOK, Line, Phases, Own
<1>13. CASE UNCHANGED vars
    BY <1>13 DEF vars, TypeOK, Own
<1>14. QED
    BY <1>1, <1>2, <1>3, <1>4, <1>5, <1>6, <1>7, <1>8, <1>9, <1>10, <1>11, <1>12, <1>13 DEF Next

LEMMA TypeInit == Init => TypeOK
<1> SUFFICES ASSUME Init PROVE TypeOK
    OBVIOUS
<1>1. /\ project \in Projects /\ entry = 0 /\ phase = "load" /\ seen = {Real(project.main)}
      /\ stack = <<Frame(project.main)>> /\ present = {} /\ diags = {}
      /\ out = << >> /\ stream = << >> /\ prefix = << >>
    BY DEF Init
<1>2. /\ project.text \in [Paths -> Seq(FileItem)] /\ project.real \in [Paths -> Paths]
      /\ project.main \in Paths /\ project.journals \in Seq(project.disk)
    BY <1>1, LoaderAssumption
<1>3. Frame(project.main) \in StackFrame /\ Real(project.main) \in Paths
    BY <1>2 DEF Frame, StackFrame, Real
<1>4. Len(project.text[project.main]) \in Nat /\ Len(project.journals) \in Nat
    BY <1>2, LenProperties
<1>5. /\ stack \in Seq(StackFrame)
      /\ \A i \in DOMAIN stack : stack[i].item <= Len(project.text[stack[i].path]) + 1
    BY <1>1, <1>3, <1>4 DEF Frame
<1>6. {out, stream, prefix} \subseteq Seq(Line) /\ DOMAIN out = {}
    BY <1>1
<1>7. QED
    BY <1>1, <1>3, <1>4, <1>5, <1>6 DEF TypeOK, StackFrame, Line, Phases

(* Every variable of the loader keeps its type. *)
THEOREM TypeCorrect == Spec => []TypeOK
BY TypeInit, TypeStep, PTL DEF Spec

----------------------------------------------------------------------------
(* No load reads a line twice *)

(* No file is on the stack twice, by whichever path. *)
Apart == \A i, j \in DOMAIN stack : Real(stack[i].path) = Real(stack[j].path) => i = j

(* What is on the stack and what has been produced comes from files seen. *)
AllSeen ==
    /\ \A i \in DOMAIN stack : Real(stack[i].path) \in seen
    /\ \A k \in DOMAIN out : Real(out[k].path) \in seen

(* A file on the stack has produced no line from the one reached on. *)
Behind ==
    \A k \in DOMAIN out : \A i \in DOMAIN stack :
        Real(out[k].path) = Real(stack[i].path) => out[k].item < stack[i].item

LoadInv == TypeOK /\ Apart /\ AllSeen /\ Behind /\ ReadOnce

(* A load that starts has nothing to compare. *)
LEMMA FreshLoad ==
    ASSUME TypeOK', NEW p \in Paths, stack' = <<Frame(p)>>, out' = << >>,
           seen' = {project'.real[p]}
    PROVE  Apart' /\ AllSeen' /\ Behind' /\ ReadOnce'
<1>1. DOMAIN stack' = {1} /\ stack'[1].path = p /\ DOMAIN out' = {}
    BY DEF Frame
<1>2. QED
    BY <1>1 DEF Apart, AllSeen, Behind, ReadOnce, NoneTwice, Real

LEMMA ProgressRead ==
    ASSUME LoadInv, NEW frames, Progress(frames), stack' = frames,
           UNCHANGED <<project, seen, out>>
    PROVE  Apart' /\ AllSeen' /\ Behind' /\ ReadOnce'
<1>0. TypeOK
    BY DEF LoadInv
<1>1. /\ DOMAIN stack' = DOMAIN stack
      /\ \A i \in DOMAIN stack : stack'[i].path = stack[i].path /\ stack'[i].item >= stack[i].item
      /\ \A i \in DOMAIN stack : stack[i].item \in Nat /\ stack'[i].item \in Nat
    <2>1. \A i \in DOMAIN frames : frames[i] \in StackFrame
        BY DEF Progress
    <2>2. QED
        BY <1>0, <2>1, FrameType DEF Progress, StackFrame
<1>2. \A k \in DOMAIN out : out[k].item \in Nat
    BY <1>0, LineType
<1>3. Apart' /\ AllSeen'
    BY <1>1 DEF LoadInv, Apart, AllSeen, Real
<1>4. Behind'
    <2>1. SUFFICES ASSUME NEW k \in DOMAIN out, NEW i \in DOMAIN stack,
                          Real(out[k].path) = Real(stack[i].path)
                   PROVE  out[k].item < stack'[i].item
        BY <1>1 DEF Behind, Real
    <2>2. out[k].item < stack[i].item
        BY <2>1 DEF LoadInv, Behind
    <2>3. QED
        BY <1>1, <1>2, <2>2
<1>5. ReadOnce'
    <2>1. UNCHANGED <<project, out>>
        OBVIOUS
    <2>2. QED
        BY <2>1 DEF LoadInv, ReadOnce, NoneTwice, SameLine, Real
<1>6. QED
    BY <1>3, <1>4, <1>5

(* Where neither the stack nor the lines change, nothing does. *)
LEMMA SameRead ==
    ASSUME LoadInv, UNCHANGED <<project, stack, seen, out>>
    PROVE  Apart' /\ AllSeen' /\ Behind' /\ ReadOnce'
BY DEF LoadInv, Apart, AllSeen, Behind, ReadOnce, NoneTwice, SameLine, Real

LEMMA EnterRead ==
    ASSUME LoadInv, NEW frames, Progress(frames), NEW p \in Paths, Enter(p, frames)
    PROVE  Apart' /\ AllSeen' /\ Behind' /\ ReadOnce'
<1>0. TypeOK
    BY DEF LoadInv
<1>1. CASE OnStack(p)
    BY <1>1, SameRead DEF Enter, Abort
<1>2. CASE ~OnStack(p) /\ Real(p) \in seen
    BY <1>2, ProgressRead DEF Enter
<1>3. CASE ~OnStack(p) /\ Real(p) \notin seen
    <2>1. /\ stack' = Append(frames, Frame(p)) /\ seen' = seen \cup {Real(p)}
          /\ UNCHANGED <<project, out>>
        BY <1>3 DEF Enter, load
    <2>2. /\ DOMAIN stack' = DOMAIN stack \cup {Len(stack) + 1}
          /\ stack'[Len(stack) + 1].path = p
          /\ \A i \in DOMAIN stack : stack'[i] = frames[i]
        BY <1>0, <2>1, FramePushed DEF Frame
    <2>3. \A i \in DOMAIN stack : stack'[i].path = stack[i].path /\ stack'[i].item >= stack[i].item
        BY <2>2 DEF Progress
    <2>4. \A i \in DOMAIN stack : Real(stack[i].path) # Real(p)
        BY <1>3 DEF OnStack
    <2>5. \A k \in DOMAIN out : Real(out[k].path) # Real(p)
        BY <1>3 DEF LoadInv, AllSeen
    <2>6. Apart'
        BY <2>1, <2>2, <2>3, <2>4 DEF LoadInv, Apart, Real
    <2>7. AllSeen'
        BY <2>1, <2>2, <2>3 DEF LoadInv, AllSeen, Real
    <2>8. Behind'
        <3>1. SUFFICES ASSUME NEW k \in DOMAIN out, NEW i \in DOMAIN stack,
                              Real(out[k].path) = Real(stack[i].path)
                       PROVE  out[k].item < stack'[i].item
            BY <2>1, <2>2, <2>3, <2>5 DEF Behind, Real
        <3>2. out[k].item < stack[i].item
            BY <3>1 DEF LoadInv, Behind
        <3>3. stack'[i] \in StackFrame /\ out[k].item \in Nat /\ stack[i].item \in Nat
            BY <1>0, <2>2, LineType, FrameType DEF Progress
        <3>4. QED
            BY <2>3, <3>2, <3>3 DEF StackFrame
    <2>9. ReadOnce'
        BY <2>1 DEF LoadInv, ReadOnce, NoneTwice, SameLine, Real
    <2>10. QED
        BY <2>6, <2>7, <2>8, <2>9
<1>4. QED
    BY <1>1, <1>2, <1>3 DEF Enter

LEMMA DirectiveRead ==
    ASSUME LoadInv, TakeDirective
    PROVE  Apart' /\ AllSeen' /\ Behind' /\ ReadOnce'
<1> DEFINE n == Len(stack)
           line == [path |-> Top.path, item |-> Top.item]
<1>1. /\ TypeOK /\ AtItem /\ Expanding /\ out' = Append(out, line) /\ stack' = Advanced
      /\ UNCHANGED <<project, seen>>
    BY DEF LoadInv, TakeDirective, AtItem
<1>2. /\ n \in DOMAIN stack /\ stack[n] = Top /\ Top.path \in Paths /\ Top.item \in Nat \ {0}
    BY <1>1, TopType DEF StackFrame
<1>3. /\ DOMAIN stack' = DOMAIN stack
      /\ \A i \in DOMAIN stack : stack'[i].path = stack[i].path /\ stack'[i].item >= stack[i].item
    BY <1>1, AdvancedProgress DEF Progress
<1>4. stack'[n].item = Top.item + 1
    <2>1. [path |-> Top.path, item |-> Top.item + 1, matches |-> {}] \in StackFrame
        BY <1>2 DEF StackFrame
    <2>2. QED
        BY <1>1, <2>1, ReplaceTop DEF Advanced, Reached
<1>5. out \in Seq(Line) /\ line \in Line /\ Len(out) \in Nat
    BY <1>1, <1>2, LenProperties DEF TypeOK, Line
<1>6. /\ DOMAIN out = 1..Len(out) /\ DOMAIN out' = 1..(Len(out) + 1)
      /\ \A k \in 1..Len(out) : out'[k] = out[k]
      /\ out'[Len(out) + 1] = line
    BY <1>1, <1>5, AppendProperties, LenProperties
<1>7. Apart'
    BY <1>1, <1>3 DEF LoadInv, Apart, Real
<1>8. AllSeen'
    <2>1. Real(line.path) \in seen
        BY <1>2 DEF LoadInv, AllSeen
    <2>2. QED
        BY <1>1, <1>3, <1>6, <2>1 DEF LoadInv, AllSeen, Real
<1>9. Behind'
    <2>1. SUFFICES ASSUME NEW k \in DOMAIN out', NEW i \in DOMAIN stack,
                          Real(out'[k].path) = Real(stack[i].path)
                   PROVE  out'[k].item < stack'[i].item
        BY <1>1, <1>3 DEF Behind, Real
    <2>2. stack[i].item \in Nat /\ stack'[i].item \in Int
        <3>1. stack' \in Seq(StackFrame)
            BY <1>1, AdvancedProgress DEF Progress
        <3>2. stack'[i] \in StackFrame
            BY <1>3, <3>1
        <3>3. QED
            BY <1>1, <3>2, FrameType DEF StackFrame
    <2>3. CASE k \in 1..Len(out)
        <3>1. out[k].item < stack[i].item /\ out[k].item \in Nat
            BY <1>1, <1>6, <2>1, <2>3, LineType DEF LoadInv, Behind
        <3>2. QED
            BY <1>3, <1>6, <2>2, <2>3, <3>1
    <2>4. CASE k = Len(out) + 1
        <3>1. out'[k].path = Top.path /\ out'[k].item = Top.item
            BY <1>6, <2>4
        <3>2. i = n
            BY <1>2, <2>1, <3>1 DEF LoadInv, Apart
        <3>3. QED
            BY <1>2, <1>4, <3>1, <3>2
    <2>5. QED
        BY <1>5, <1>6, <2>3, <2>4
<1>10. ReadOnce'
    <2>1. SUFFICES ASSUME NEW k \in DOMAIN out', NEW j \in 1..(k - 1),
                          Real(out'[k].path) = Real(out'[j].path), out'[k].item = out'[j].item
                   PROVE  FALSE
        BY <1>1 DEF ReadOnce, NoneTwice, SameLine, Real
    <2>2. j \in 1..Len(out) /\ out'[j] = out[j]
        BY <1>5, <1>6
    <2>3. CASE k \in 1..Len(out)
        BY <1>6, <2>1, <2>2, <2>3 DEF LoadInv, ReadOnce, NoneTwice, SameLine
    <2>4. CASE k = Len(out) + 1
        <3>1. Real(out[j].path) = Real(stack[n].path) /\ out[j].item = Top.item
            BY <1>2, <1>6, <2>1, <2>2, <2>4
        <3>2. out[j].item < Top.item
            BY <1>2, <1>6, <2>2, <3>1 DEF LoadInv, Behind
        <3>3. QED
            BY <1>2, <3>1, <3>2
    <2>5. QED
        BY <1>5, <1>6, <2>3, <2>4
<1>11. QED
    BY <1>7, <1>8, <1>9, <1>10

LEMMA ReadStep == LoadInv /\ TypeOK' /\ [Next]_vars => LoadInv'
<1> SUFFICES ASSUME LoadInv, TypeOK', [Next]_vars
             PROVE  Apart' /\ AllSeen' /\ Behind' /\ ReadOnce'
    BY DEF LoadInv
<1>0. TypeOK
    BY DEF LoadInv
<1>1. CASE TakeDirective
    BY <1>1, DirectiveRead
<1>2. CASE TakeInclude
    <2>1. AtItem /\ Item.path \in Paths
        BY <1>0, <1>2, ItemType DEF TakeInclude
    <2>2. CASE Readable(Item.path)
        BY <1>0, <1>2, <2>1, <2>2, AdvancedProgress, EnterRead DEF TakeInclude
    <2>3. CASE ~Readable(Item.path)
        BY <1>2, <2>3, SameRead DEF TakeInclude, Abort
    <2>4. QED
        BY <2>2, <2>3
<1>3. CASE TakeGlob
    <2> DEFINE S == Item.paths \cap project.disk
    <2>1. AtItem /\ Expanding /\ S \in SUBSET Paths
        BY <1>0, <1>3, ItemType DEF TakeGlob, AtItem
    <2>2. Top.item \in Nat /\ Top.item + 1 \in Nat /\ Len(Items) \in Nat /\ Top.item <= Len(Items)
        BY <1>0, <2>1, TopType, LenProperties DEF AtItem, StackFrame
    <2>3. Progress(Reached(Top.item + 1, S))
        BY <1>0, <2>1, <2>2, ReachedProgress
    <2>4. stack' = Reached(Top.item + 1, S) /\ UNCHANGED <<project, seen, out>>
        BY <1>3 DEF TakeGlob
    <2>5. QED
        BY <2>3, <2>4, ProgressRead
<1>4. CASE TakeMatch
    <2>1. PICK p \in Top.matches : Enter(p, Reached(Top.item, Top.matches \ {p}))
        BY <1>4 DEF TakeMatch
    <2>2. Expanding
        BY <1>4 DEF TakeMatch
    <2>3. /\ p \in Paths /\ Top.item \in Nat /\ (Top.matches \ {p}) \in SUBSET Paths
          /\ Top.item <= Len(Items) + 1
        BY <1>0, <2>2, TopType, FrameType DEF StackFrame, Items
    <2>4. Progress(Reached(Top.item, Top.matches \ {p}))
        BY <1>0, <2>2, <2>3, ReachedProgress
    <2>5. QED
        BY <2>1, <2>3, <2>4, EnterRead
<1>5. CASE Return
    <2>1. stack' = Front(stack) /\ UNCHANGED <<project, seen, out>>
        BY <1>5 DEF Return
    <2>2. DOMAIN stack' \subseteq DOMAIN stack /\ \A i \in DOMAIN stack' : stack'[i] = stack[i]
        BY <1>0, <1>5, <2>1, ReturnStack DEF Return
    <2>3. Apart' /\ AllSeen' /\ Behind'
        BY <2>1, <2>2 DEF LoadInv, Apart, AllSeen, Behind, Real
    <2>4. ReadOnce'
        BY <2>1 DEF LoadInv, ReadOnce, NoneTwice, SameLine, Real
    <2>5. QED
        BY <2>3, <2>4
<1>6. CASE MainLoaded
    BY <1>6, SameRead DEF MainLoaded
<1>7. CASE MainFailed
    BY <1>7, SameRead DEF MainFailed
<1>8. CASE SkipJournal
    BY <1>8, SameRead DEF SkipJournal
<1>9. CASE LoadJournal
    <2>1. Journal \in Paths
        BY <1>0, <1>9, JournalType DEF LoadJournal
    <2>2. /\ stack' = <<Frame(Journal)>> /\ out' = << >> /\ seen' = {project'.real[Journal]}
        BY <1>9 DEF LoadJournal, Real
    <2>3. QED
        BY <2>1, <2>2, FreshLoad
<1>10. CASE JournalLoaded
    BY <1>10, SameRead DEF JournalLoaded
<1>11. CASE JournalFailed
    BY <1>11, SameRead DEF JournalFailed
<1>12. CASE Inject
    BY <1>12, SameRead DEF Inject
<1>13. CASE UNCHANGED vars
    BY <1>13, SameRead DEF vars
<1>14. QED
    BY <1>1, <1>2, <1>3, <1>4, <1>5, <1>6, <1>7, <1>8, <1>9, <1>10, <1>11, <1>12, <1>13 DEF Next

LEMMA ReadInit == Init => LoadInv
<1> SUFFICES ASSUME Init PROVE Apart /\ AllSeen /\ Behind /\ ReadOnce
    BY TypeInit DEF LoadInv
<1>1. /\ stack = <<Frame(project.main)>> /\ seen = {Real(project.main)} /\ out = << >>
    BY DEF Init
<1>2. DOMAIN stack = {1} /\ stack[1].path = project.main /\ DOMAIN out = {}
    BY <1>1 DEF Frame
<1>3. QED
    BY <1>1, <1>2 DEF Apart, AllSeen, Behind, ReadOnce, NoneTwice

(* No load reads a line of a file twice, by whichever paths, links, globs  *)
(* and diamonds of includes it comes to the file.                          *)
THEOREM NoLineTwice == Spec => []ReadOnce
<1>1. LoadInv /\ [Next]_vars => LoadInv'
    BY TypeStep, ReadStep DEF LoadInv
<1>2. LoadInv => ReadOnce
    BY DEF LoadInv
<1>3. QED
    BY ReadInit, <1>1, <1>2, PTL DEF Spec

----------------------------------------------------------------------------
(* The loader is complete: what it reads is what the include graph says.   *)

(* The hypothesis of what follows: a file has one text, by whichever path  *)
(* it is named.  (Relative includes are taken from the directory of the    *)
(* path and not of the file, loader.go:61, and a buffer overlays a path:   *)
(* a link into another directory, or open in the editor, breaks it.)       *)
OneText == \A p \in Projects : \A q \in Paths : p.text[p.real[q]] = p.text[q]

Root == IF entry = 0 THEN project.main ELSE project.journals[entry]

Bad(p) == \E q \in Files(p) : Unloadable(q)

(* Files that are read and not on the stack any more. *)
Finished == {q \in Paths : Real(q) \in seen /\ ~OnStack(q)}

(* Calls are nested the way includes are. *)
Chain ==
    /\ \A i \in DOMAIN stack : stack[i].path \in Files(Root)
    /\ \A i, j \in DOMAIN stack : i < j => stack[j].path \in Includes(stack[i].path)
    /\ \A k \in DOMAIN out : out[k].path \in Files(Root)
    /\ Root \in Paths /\ Readable(Root) /\ Real(Root) \in seen

(* Before item n, with matches S of the last one left and the files above  *)
(* being loaded: all lines are out and all files named are finished.       *)
Accounted(p, n, S, above, lines, fin) ==
    /\ \A q \in S : n > 1 /\ q \in Named(p, n - 1)
    /\ \A j \in 1..(n - 1) :
        /\ j \in Own(p) => <<Real(p), j>> \in lines
        /\ \A q \in Named(p, j) :
            Readable(q) /\ (q \in fin \/ (j = n - 1 /\ q \in S \cup above))

Above(i) == {q \in Paths : i < Len(stack) /\ Real(q) = Real(stack[i + 1].path)}

Frames ==
    \A i \in DOMAIN stack :
        Accounted(stack[i].path, stack[i].item, stack[i].matches, Above(i), LinesIn(out), Finished)

(* A finished file has given its lines, and so have those it leads to.     *)
Settled ==
    \A q \in Finished :
        /\ LinesOf({q}) \subseteq LinesIn(out)
        /\ Successors(q) \subseteq Finished
        /\ \A p \in Successors(q) : Readable(p)
        /\ ~Cyclic(q)

GraphInv ==
    /\ phase = "load" => Chain /\ Frames /\ Settled
    /\ phase = "aborted" => Bad(Root)

(* What the loads have brought in. *)
MainIn == phase # "loaded" /\ (entry > 0 \/ phase = "journals")
Tried == IF phase \in {"load", "aborted"} THEN entry - 1 ELSE entry
Failed(j) == <<"journal not loaded", j>> \in diags
HasLoaded(p) ==
    ~Bad(p) /\ LinesOf(Files(p)) \subseteq LinesIn(prefix) \cup LinesOf(Files(project.main))

StreamInv ==
    /\ \A j \in Paths : Failed(j) => Bad(j)
    /\ phase = "failed" => Bad(project.main)
    /\ entry = 0 => prefix = << >>
    /\ MainIn =>
        /\ ~Bad(project.main)
        /\ LinesIn(stream) = LinesOf(Files(project.main))
        /\ \A p \in present : HasLoaded(p)
        /\ \A i \in 1..Tried : Failed(project.journals[i]) \/ HasLoaded(project.journals[i])
        /\ \A k \in DOMAIN prefix : \E i \in 1..Tried :
                /\ ~Failed(project.journals[i])
                /\ <<Real(prefix[k].path), prefix[k].item>> \in LinesOf(Files(project.journals[i]))
    /\ JournalsWhole

FlatJournals == \A i \in DOMAIN project.journals : Successors(project.journals[i]) = {}
Distinct(s) == \A i \in DOMAIN s : \A j \in 1..(i - 1) : s[i] # s[j]

FlatInv ==
    FlatJournals =>
        /\ MainIn =>
            /\ Distinct(prefix) /\ Distinct(stream)
            /\ PathsOf(prefix) \cup PathsOf(stream) \subseteq present
            /\ PathsOf(prefix) \cap PathsOf(stream) = {}
        /\ phase \in {"load", "aborted"} /\ entry > 0 => project.journals[entry] \notin present
        /\ phase = "loaded" => Distinct(stream)

----------------------------------------------------------------------------
(* The include graph *)

LEMMA NamedType ==
    ASSUME TypeOK, NEW p \in Paths, NEW i \in DOMAIN project.text[p]
    PROVE  Named(p, i) \subseteq Paths
<1>1. project.text[p][i] \in FileItem
    BY ProjectType, ElementOfSeq
<1>2. QED
    BY <1>1 DEF Named, FileItem

LEMMA SuccessorsType ==
    ASSUME TypeOK, NEW p \in Paths
    PROVE  Successors(p) \subseteq Paths
BY NamedType DEF Successors

LEMMA IncludesType ==
    ASSUME NEW p
    PROVE  Includes(p) \subseteq Paths
BY DEF Includes

LEMMA LineOf ==
    ASSUME NEW S, NEW l
    PROVE  l \in LinesOf(S) <=> \E p \in S : \E j \in Own(p) : l = <<Real(p), j>>
BY DEF LinesOf

LEMMA LinesOfAll ==
    ASSUME NEW S, NEW L, \A p \in S : LinesOf({p}) \subseteq L
    PROVE  LinesOf(S) \subseteq L
<1>1. SUFFICES ASSUME NEW l \in LinesOf(S) PROVE l \in L
    OBVIOUS
<1>2. PICK p \in S : \E j \in Own(p) : l = <<Real(p), j>>
    BY LineOf
<1>3. l \in LinesOf({p})
    BY <1>2, LineOf
<1>4. QED
    BY <1>2, <1>3

(* What a file includes is among what it leads to. *)
LEMMA IncludesFirst ==
    ASSUME TypeOK, NEW p \in Paths
    PROVE  Successors(p) \subseteq Includes(p)
BY SuccessorsType DEF Includes

(* So is what that includes in turn. *)
LEMMA IncludesNext ==
    ASSUME TypeOK, NEW p \in Paths, NEW q \in Includes(p)
    PROVE  Successors(q) \subseteq Includes(p)
<1>1. q \in Paths /\ Successors(q) \subseteq Paths
    BY IncludesType, SuccessorsType
<1>2. SUFFICES ASSUME NEW r \in Successors(q), NEW S \in SUBSET Paths,
                      Successors(p) \subseteq S, Closed(S)
               PROVE  r \in S
    BY <1>1 DEF Includes
<1>3. q \in S
    BY <1>2 DEF Includes
<1>4. QED
    BY <1>2, <1>3 DEF Closed

(* And nothing else is. *)
LEMMA IncludesLeast ==
    ASSUME NEW p, NEW S \in SUBSET Paths, Successors(p) \subseteq S, Closed(S)
    PROVE  Includes(p) \subseteq S
BY DEF Includes

LEMMA IncludesTransitive ==
    ASSUME TypeOK, NEW p \in Paths, NEW q \in Includes(p)
    PROVE  Includes(q) \subseteq Includes(p)
<1>1. Successors(q) \subseteq Includes(p) /\ Includes(p) \in SUBSET Paths
    BY IncludesNext, IncludesType
<1>2. Closed(Includes(p))
    BY IncludesNext DEF Closed
<1>3. QED
    BY <1>1, <1>2, IncludesLeast

(* The paths of one file lead to the same files and have the same lines. *)
LEMMA SameFile ==
    ASSUME OneText, TypeOK, NEW p \in Paths, NEW q \in Paths, Real(p) = Real(q)
    PROVE  /\ Own(p) = Own(q) /\ Successors(p) = Successors(q)
           /\ Includes(p) = Includes(q) /\ LinesOf({p}) = LinesOf({q})
<1>1. project.text[p] = project.text[q]
    BY DEF OneText, TypeOK, Real
<1>2. Own(p) = Own(q) /\ Successors(p) = Successors(q)
    BY <1>1 DEF Own, Successors, Named
<1>3. QED
    BY <1>2 DEF Includes, LinesOf

(* The graph is the project's: no step changes it. *)
LEMMA SameGraph ==
    ASSUME project' = project
    PROVE  /\ \A p : /\ Real(p)' = Real(p) /\ Readable(p)' = Readable(p)
                     /\ Own(p)' = Own(p) /\ Successors(p)' = Successors(p)
                     /\ Includes(p)' = Includes(p) /\ Files(p)' = Files(p)
                     /\ Cyclic(p)' = Cyclic(p) /\ Bad(p)' = Bad(p)
           /\ \A p, i : Named(p, i)' = Named(p, i)
           /\ \A S : LinesOf(S)' = LinesOf(S)
<1>1. /\ \A p : Real(p)' = Real(p) /\ Readable(p)' = Readable(p) /\ Own(p)' = Own(p)
      /\ \A p, i : Named(p, i)' = Named(p, i)
    BY DEF Real, Readable, Own, Named
<1>2. \A p : Successors(p)' = Successors(p)
    BY DEF Successors, Named
<1>3. \A p : Includes(p)' = Includes(p) /\ Files(p)' = Files(p)
    BY DEF Includes, Files, Closed, Successors, Named
<1>4. \A p : Cyclic(p)' = Cyclic(p)
    BY <1>3 DEF Cyclic, Reals, Real
<1>5. \A p : Bad(p)' = Bad(p)
    BY <1>1, <1>3, <1>4 DEF Bad, Unloadable
<1>6. \A S : LinesOf(S)' = LinesOf(S)
    BY DEF LinesOf, Real, Own
<1>7. QED
    BY <1>1, <1>2, <1>3, <1>4, <1>5, <1>6

----------------------------------------------------------------------------
(* A load follows the graph *)

(* The account of a call stays right as lines and finished files are added *)
(* and the file it waits for goes from its matches onto the stack.         *)
LEMMA AccountedStays ==
    ASSUME NEW p, NEW n, NEW S, NEW A, NEW L, NEW F, Accounted(p, n, S, A, L, F),
           NEW S2, NEW A2, NEW L2, NEW F2, L \subseteq L2, F \subseteq F2,
           S2 \subseteq S, S \subseteq S2 \cup A2 \cup F2, A \subseteq A2 \cup F2
    PROVE  Accounted(p, n, S2, A2, L2, F2)
BY DEF Accounted

(* And when the call is done with its item. *)
LEMMA AccountedNext ==
    ASSUME NEW p, NEW n \in Nat \ {0}, NEW L, NEW F, Accounted(p, n, {}, {}, L, F),
           NEW S2, NEW A2, NEW L2, L \subseteq L2, S2 \subseteq Named(p, n),
           n \in Own(p) => <<Real(p), n>> \in L2,
           \A q \in Named(p, n) : Readable(q) /\ q \in F \cup S2 \cup A2
    PROVE  Accounted(p, n + 1, S2, A2, L2, F)
<1>1. (n + 1) - 1 = n /\ n + 1 > 1
    OBVIOUS
<1>2. ASSUME NEW j \in 1..n
      PROVE  /\ j \in Own(p) => <<Real(p), j>> \in L2
             /\ \A q \in Named(p, j) :
                    Readable(q) /\ (q \in F \/ (j = n /\ q \in S2 \cup A2))
    <2>1. CASE j = n
        BY <2>1
    <2>2. CASE j # n
        <3>1. j \in 1..(n - 1) /\ j # n
            BY <2>2
        <3>2. QED
            BY <3>1 DEF Accounted
    <2>3. QED
        BY <2>1, <2>2
<1>3. QED
    BY <1>1, <1>2 DEF Accounted

(* The files a call has matched are among those its last item names. *)
LEMMA MatchNamed ==
    ASSUME LoadInv, Expanding, Frames, NEW p \in Top.matches
    PROVE  /\ Top.item - 1 \in DOMAIN project.text[Top.path]
           /\ p \in Named(Top.path, Top.item - 1) /\ p \in Successors(Top.path) /\ Readable(p)
<1>0. TypeOK
    BY DEF LoadInv
<1>1. /\ Len(stack) \in DOMAIN stack /\ stack[Len(stack)] = Top
      /\ Top.item \in Nat /\ Top.path \in Paths /\ Top.item <= Len(project.text[Top.path]) + 1
    BY <1>0, TopType, FrameType
<1>2. Accounted(Top.path, Top.item, Top.matches, Above(Len(stack)), LinesIn(out), Finished)
    BY <1>1 DEF Frames
<1>3. Top.item > 1 /\ p \in Named(Top.path, Top.item - 1)
    BY <1>2 DEF Accounted
<1>4. Top.item - 1 \in DOMAIN project.text[Top.path]
    <2>1. Len(project.text[Top.path]) \in Nat /\ DOMAIN project.text[Top.path] = 1..Len(project.text[Top.path])
        BY <1>0, <1>1, ProjectType, LenProperties
    <2>2. QED
        BY <1>1, <1>3, <2>1
<1>5. Readable(p)
    <2>1. Top.item - 1 \in 1..(Top.item - 1)
        BY <1>1, <1>3
    <2>2. QED
        BY <1>2, <1>3, <2>1 DEF Accounted
<1>6. QED
    BY <1>3, <1>4, <1>5 DEF Successors

(* The calls below the one on top are left as they are. *)
LEMMA ReachedFrames ==
    ASSUME TypeOK, Expanding, NEW n \in Nat \ {0}, NEW S \in SUBSET Paths
    PROVE  /\ DOMAIN Reached(n, S) = DOMAIN stack /\ Len(Reached(n, S)) = Len(stack)
           /\ Reached(n, S) \in Seq(StackFrame)
           /\ \A i \in DOMAIN stack : i # Len(stack) => Reached(n, S)[i] = stack[i]
           /\ Reached(n, S)[Len(stack)].path = Top.path
           /\ Reached(n, S)[Len(stack)].item = n
           /\ Reached(n, S)[Len(stack)].matches = S
<1> DEFINE f == [path |-> Top.path, item |-> n, matches |-> S]
<1>1. f \in StackFrame
    BY TopType DEF StackFrame
<1>2. Reached(n, S) = ReplaceAt(stack, Len(stack), f)
    BY DEF Reached
<1>3. QED
    BY <1>1, <1>2, ReplaceTop

(* Every file that the top call names is led to by all the calls. *)
LEMMA NamedLedTo ==
    ASSUME LoadInv, Expanding, Chain, NEW p \in Successors(Top.path)
    PROVE  p \in Paths /\ p \in Files(Root) /\ \A i \in DOMAIN stack : p \in Includes(stack[i].path)
<1>0. TypeOK
    BY DEF LoadInv
<1>1. /\ Len(stack) \in DOMAIN stack /\ stack[Len(stack)] = Top /\ Top.path \in Paths
    BY <1>0, TopType, FrameType
<1>2. p \in Includes(Top.path) /\ p \in Paths
    BY <1>0, <1>1, IncludesFirst, SuccessorsType
<1>3. p \in Files(Root)
    BY <1>0, <1>1, <1>2, IncludesTransitive, IncludesFirst DEF Chain, Files
<1>4. ASSUME NEW i \in DOMAIN stack
      PROVE  p \in Includes(stack[i].path)
    <2>1. CASE i = Len(stack)
        BY <1>1, <1>2, <2>1
    <2>2. CASE i # Len(stack)
        <3>1. i < Len(stack)
            <4>1. DOMAIN stack = 1..Len(stack) /\ Len(stack) \in Nat
                BY <1>0, LenProperties DEF TypeOK
            <4>2. QED
                BY <2>2, <4>1
        <3>2. Top.path \in Includes(stack[i].path) /\ stack[i].path \in Paths
            BY <1>0, <1>1, <3>1, FrameType DEF Chain
        <3>3. QED
            BY <1>0, <3>2, IncludesNext
    <2>3. QED
        BY <2>1, <2>2
<1>5. QED
    BY <1>2, <1>3, <1>4

(* How a state's calls stand: what to show of the next state. *)
LEMMA FramesNext ==
    ASSUME project' = project,
           NEW lines, NEW fin, LinesIn(out)' = lines, Finished' = fin,
           \A i \in DOMAIN stack' :
                Accounted(stack'[i].path, stack'[i].item, stack'[i].matches, Above(i)', lines, fin)
    PROVE  Frames'
<1>1. \A p, i : Named(p, i)' = Named(p, i)
    BY SameGraph
<1>2. \A p : Own(p)' = Own(p) /\ Real(p)' = Real(p) /\ Readable(p)' = Readable(p)
    BY SameGraph
<1>3. \A p, n, S, A, L, F : Accounted(p, n, S, A, L, F)' <=> Accounted(p, n, S, A, L, F)
    BY <1>1, <1>2 DEF Accounted
<1>4. ASSUME NEW i \in DOMAIN stack' 
      PROVE  Accounted(stack[i].path, stack[i].item, stack[i].matches, Above(i), LinesIn(out), Finished)'
    BY <1>3
<1>5. QED
    BY <1>4 DEF Frames

LEMMA SettledNext ==
    ASSUME project' = project, NEW lines, NEW fin, LinesIn(out)' = lines, Finished' = fin,
           \A q \in fin :
                /\ LinesOf({q}) \subseteq lines
                /\ Successors(q) \subseteq fin
                /\ \A p \in Successors(q) : Readable(p)
                /\ ~Cyclic(q)
    PROVE  Settled'
BY SameGraph DEF Settled

LEMMA ChainNext ==
    ASSUME project' = project, entry' = entry, Root \in Paths, Readable(Root), Real(Root) \in seen',
           \A i \in DOMAIN stack' : stack'[i].path \in Files(Root),
           \A i, j \in DOMAIN stack' : i < j => stack'[j].path \in Includes(stack'[i].path),
           \A k \in DOMAIN out' : out'[k].path \in Files(Root)
    PROVE  Chain'
<1>1. Root' = Root
    BY DEF Root
<1>2. Files(Root)' = Files(Root)
    BY <1>1, SameGraph
<1>3. \A i \in DOMAIN stack' : Includes(stack[i].path)' = Includes(stack'[i].path)
    BY SameGraph
<1>4. Readable(Root)' /\ Real(Root)' = Real(Root)
    BY <1>1 DEF Readable, Real
<1>5. QED
    BY <1>1, <1>2, <1>3, <1>4 DEF Chain

(* A step of the call on top to item n with matches S.                     *)
LEMMA ReachedGraph ==
    ASSUME LoadInv, Expanding, Chain, Frames, Settled,
           NEW n \in Nat \ {0}, NEW S \in SUBSET Paths, stack' = Reached(n, S),
           UNCHANGED <<project, seen, entry>>,
           LinesIn(out) \subseteq LinesIn(out)',
           \A k \in DOMAIN out' : out'[k].path \in Files(Root),
           Accounted(Top.path, n, S, {}, LinesIn(out)', Finished)
    PROVE  Chain' /\ Frames' /\ Settled'
<1>0. TypeOK
    BY DEF LoadInv
<1>1. /\ DOMAIN stack' = DOMAIN stack /\ Len(stack') = Len(stack)
      /\ \A i \in DOMAIN stack : i # Len(stack) => stack'[i] = stack[i]
      /\ stack'[Len(stack)].path = Top.path
      /\ stack'[Len(stack)].item = n
      /\ stack'[Len(stack)].matches = S
      /\ Len(stack) \in Nat /\ DOMAIN stack = 1..Len(stack) /\ Top = stack[Len(stack)]
    BY <1>0, ReachedFrames, TopType, LenProperties, SMTT(30) DEF TypeOK
<1>2. \A i \in DOMAIN stack : stack'[i].path = stack[i].path
    BY <1>1
<1>3. Finished' = Finished
    BY <1>1, <1>2 DEF Finished, OnStack, Real
<1>4. \A i \in DOMAIN stack : Above(i)' = Above(i)
    BY <1>1, <1>2 DEF Above, Real
<1>5. Chain'
    BY <1>1, <1>2, ChainNext DEF Chain
<1>6. Frames'
    <2>1. ASSUME NEW i \in DOMAIN stack'
          PROVE  Accounted(stack'[i].path, stack'[i].item, stack'[i].matches, Above(i)', LinesIn(out)', Finished)
        <3>1. CASE i = Len(stack)
            <4>1. Above(i) = {}
                BY <1>1, <3>1 DEF Above
            <4>2. QED
                BY <1>1, <1>4, <3>1, <4>1
        <3>2. CASE i # Len(stack)
            <4>1. Accounted(stack[i].path, stack[i].item, stack[i].matches, Above(i), LinesIn(out), Finished)
                BY <1>1 DEF Frames
            <4>2. Accounted(stack[i].path, stack[i].item, stack[i].matches, Above(i), LinesIn(out)', Finished)
                BY <4>1, AccountedStays
            <4>3. QED
                BY <1>1, <1>4, <3>2, <4>2
        <3>3. QED
            BY <3>1, <3>2
    <2>2. QED
        BY <1>3, <2>1, FramesNext
<1>7. Settled'
    BY <1>3, SettledNext DEF Settled
<1>8. QED
    BY <1>5, <1>6, <1>7

(* A file that is entered goes on the stack, above the call on top. *)
LEMMA EnteredGraph ==
    ASSUME LoadInv, Expanding, Chain, Frames, Settled,
           NEW n \in Nat \ {0}, NEW S \in SUBSET Paths, NEW p \in Successors(Top.path),
           ~OnStack(p), Real(p) \notin seen,
           stack' = Append(Reached(n, S), Frame(p)), seen' = seen \cup {Real(p)},
           UNCHANGED <<project, entry, out>>,
           Accounted(Top.path, n, S, {q \in Paths : Real(q) = Real(p)}, LinesIn(out), Finished)
    PROVE  Chain' /\ Frames' /\ Settled'
<1>0. TypeOK
    BY DEF LoadInv
<1>1. p \in Paths /\ p \in Files(Root) /\ \A i \in DOMAIN stack : p \in Includes(stack[i].path)
    BY NamedLedTo
<1>2. /\ DOMAIN Reached(n, S) = DOMAIN stack /\ Len(Reached(n, S)) = Len(stack)
      /\ Reached(n, S) \in Seq(StackFrame)
      /\ \A i \in DOMAIN stack : i # Len(stack) => Reached(n, S)[i] = stack[i]
      /\ Reached(n, S)[Len(stack)].path = Top.path
      /\ Reached(n, S)[Len(stack)].item = n
      /\ Reached(n, S)[Len(stack)].matches = S
      /\ Len(stack) \in Nat \ {0} /\ DOMAIN stack = 1..Len(stack) /\ Top = stack[Len(stack)]
    BY <1>0, ReachedFrames, TopType, LenProperties DEF TypeOK
<1>3. Frame(p) \in StackFrame
    BY <1>1 DEF Frame, StackFrame
<1>4. /\ Len(stack') = Len(stack) + 1 /\ DOMAIN stack' = 1..(Len(stack) + 1)
      /\ \A i \in 1..Len(stack) : stack'[i] = Reached(n, S)[i]
      /\ stack'[Len(stack) + 1] = Frame(p)
    BY <1>2, <1>3, AppendProperties, LenProperties
<1>5. /\ \A i \in 1..Len(stack) : stack'[i].path = stack[i].path
      /\ stack'[Len(stack) + 1].path = p
    BY <1>2, <1>4 DEF Frame
<1>6. Finished' = Finished
    <2>1. \A q : OnStack(q)' <=> OnStack(q) \/ Real(q) = Real(p)
        BY <1>2, <1>4, <1>5 DEF OnStack, Real
    <2>2. \A q : Real(q)' = Real(q)
        BY DEF Real
    <2>3. QED
        BY <2>1, <2>2 DEF Finished
<1>7. LinesIn(out)' = LinesIn(out)
    BY DEF LinesIn, Real
<1>8. ASSUME NEW i \in DOMAIN stack'
      PROVE  /\ i < Len(stack) => Above(i)' = Above(i)
             /\ i = Len(stack) => Above(i)' = {q \in Paths : Real(q) = Real(p)}
    <2>1. CASE i < Len(stack)
        <3>1. i + 1 \in 1..Len(stack) /\ i < Len(stack')
            BY <1>2, <1>4, <2>1
        <3>2. stack'[i + 1].path = stack[i + 1].path
            BY <1>5, <3>1
        <3>3. QED
            BY <2>1, <3>1, <3>2 DEF Above, Real
    <2>2. CASE i = Len(stack)
        BY <1>2, <1>4, <1>5, <2>2 DEF Above, Real
    <2>3. QED
        BY <1>2, <1>4, <2>1, <2>2
<1>9. Chain'
    <2>1. \A i \in DOMAIN stack' : stack'[i].path \in Files(Root)
        BY <1>1, <1>2, <1>4, <1>5 DEF Chain
    <2>2. ASSUME NEW i \in DOMAIN stack', NEW j \in DOMAIN stack', i < j
          PROVE  stack'[j].path \in Includes(stack'[i].path)
        <3>1. i \in 1..Len(stack)
            BY <1>2, <1>4, <2>2
        <3>2. CASE j \in 1..Len(stack)
            BY <1>2, <1>5, <2>2, <3>1, <3>2 DEF Chain
        <3>3. CASE j = Len(stack) + 1
            BY <1>1, <1>2, <1>5, <3>1, <3>3
        <3>4. QED
            BY <1>2, <1>4, <3>2, <3>3
    <2>3. QED
        BY <2>1, <2>2, ChainNext DEF Chain
<1>10. Frames'
    <2>1. ASSUME NEW i \in DOMAIN stack'
          PROVE  Accounted(stack'[i].path, stack'[i].item, stack'[i].matches, Above(i)', LinesIn(out), Finished)
        <3>1. CASE i = Len(stack)
            <4>1. /\ stack'[i].path = Top.path /\ stack'[i].item = n /\ stack'[i].matches = S
                <5>1. i \in 1..Len(stack)
                    BY <1>2, <3>1
                <5>2. stack'[i] = Reached(n, S)[i]
                    BY <1>4, <5>1
                <5>3. stack'[i] = Reached(n, S)[Len(stack)]
                    BY <3>1, <5>2
                <5>4. QED
                    BY <1>2, <5>3
            <4>2. Above(i)' = {q \in Paths : Real(q) = Real(p)}
                BY <1>8, <3>1
            <4>3. QED
                BY <4>1, <4>2
        <3>2. CASE i \in 1..(Len(stack) - 1)
            <4>1. /\ i \in DOMAIN stack /\ stack'[i] = stack[i] /\ i < Len(stack)
                BY <1>2, <1>4, <3>2
            <4>2. QED
                BY <1>8, <3>2, <4>1 DEF Frames
        <3>3. CASE i = Len(stack) + 1
            <4>1. stack'[i].item = 1 /\ stack'[i].matches = {} /\ stack'[i].path = p
                BY <1>4, <3>3 DEF Frame
            <4>2. QED
                BY <4>1 DEF Accounted
        <3>4. QED
            BY <1>2, <1>4, <3>1, <3>2, <3>3
    <2>2. QED
        BY <1>6, <1>7, <2>1, FramesNext
<1>11. Settled'
    BY <1>6, <1>7, SettledNext DEF Settled
<1>12. QED
    BY <1>9, <1>10, <1>11

(* A load is given up for a file that is missing or leads to itself. *)
LEMMA AbortGraph ==
    ASSUME LoadInv, Expanding, Chain, NEW p \in Successors(Top.path), NEW what,
           ~Readable(p) \/ OnStack(p), Abort(what, p)
    PROVE  GraphInv'
<1>0. TypeOK
    BY DEF LoadInv
<1>1. p \in Files(Root) /\ \A i \in DOMAIN stack : p \in Includes(stack[i].path)
    BY NamedLedTo
<1>2. Bad(Root)
    <2>1. CASE ~Readable(p)
        BY <1>1, <2>1 DEF Bad, Unloadable
    <2>2. CASE OnStack(p)
        <3>1. PICK i \in DOMAIN stack : Real(stack[i].path) = Real(p)
            BY <2>2 DEF OnStack
        <3>2. Cyclic(stack[i].path)
            BY <1>1, <3>1 DEF Cyclic, Reals
        <3>3. QED
            BY <3>2 DEF Chain, Bad, Unloadable
    <2>3. QED
        BY <2>1, <2>2
<1>3. phase' = "aborted" /\ project' = project /\ entry' = entry
    BY DEF Abort
<1>4. Root' = Root
    BY <1>3 DEF Root
<1>5. Bad(Root)'
    BY <1>2, <1>3, <1>4, SameGraph
<1>6. QED
    BY <1>3, <1>5 DEF GraphInv

LEMMA EnterGraph ==
    ASSUME LoadInv, GraphInv, Expanding,
           NEW n \in Nat \ {0}, NEW S \in SUBSET Paths, NEW p \in Successors(Top.path),
           \A A, F : Finished \subseteq F /\ p \in A \cup F
                        => Accounted(Top.path, n, S, A, LinesIn(out), F),
           Enter(p, Reached(n, S))
    PROVE  GraphInv'
<1>0. TypeOK /\ Chain /\ Frames /\ Settled /\ p \in Paths
    <2>1. TypeOK /\ Chain /\ Frames /\ Settled
        BY DEF LoadInv, GraphInv, Expanding
    <2>2. QED
        BY <2>1, TopType, SuccessorsType DEF StackFrame
<1>1. CASE OnStack(p)
    BY <1>0, <1>1, AbortGraph DEF Enter
<1>2. CASE ~OnStack(p) /\ Real(p) \in seen
    <2>1. stack' = Reached(n, S) /\ UNCHANGED <<project, seen, entry, out, phase>>
        BY <1>2 DEF Enter, load
    <2>2. p \in Finished
        BY <1>0, <1>2 DEF Finished
    <2>3. Accounted(Top.path, n, S, {}, LinesIn(out), Finished)
        BY <2>2
    <2>4. LinesIn(out)' = LinesIn(out)
        BY <2>1 DEF LinesIn, Real
    <2>5. \A k \in DOMAIN out' : out'[k].path \in Files(Root)
        BY <1>0, <2>1 DEF Chain
    <2>6. Chain' /\ Frames' /\ Settled'
        BY <1>0, <2>1, <2>3, <2>4, <2>5, ReachedGraph
    <2>7. QED
        BY <2>1, <2>6 DEF GraphInv, Expanding
<1>3. CASE ~OnStack(p) /\ Real(p) \notin seen
    <2>1. /\ stack' = Append(Reached(n, S), Frame(p)) /\ seen' = seen \cup {Real(p)}
          /\ UNCHANGED <<project, entry, out, phase>>
        BY <1>3 DEF Enter, load
    <2>2. p \in {q \in Paths : Real(q) = Real(p)}
        BY <1>0
    <2>3. Accounted(Top.path, n, S, {q \in Paths : Real(q) = Real(p)}, LinesIn(out), Finished)
        BY <2>2
    <2>4. Chain' /\ Frames' /\ Settled'
        BY <1>0, <1>3, <2>1, <2>3, EnteredGraph
    <2>5. QED
        BY <2>1, <2>4 DEF GraphInv, Expanding
<1>4. QED
    BY <1>1, <1>2, <1>3 DEF Enter

(* What the call on top has to account for. *)
LEMMA TopAccounted ==
    ASSUME LoadInv, GraphInv, Expanding
    PROVE  /\ TypeOK /\ Chain /\ Frames /\ Settled
           /\ Top.path \in Paths /\ Top.item \in Nat \ {0} /\ Top.matches \in SUBSET Paths
           /\ Top.item <= Len(project.text[Top.path]) + 1
           /\ Top.path \in Files(Root)
           /\ Accounted(Top.path, Top.item, Top.matches, {}, LinesIn(out), Finished)
<1>1. TypeOK /\ Chain /\ Frames /\ Settled
    BY DEF LoadInv, GraphInv, Expanding
<1>2. /\ Len(stack) \in DOMAIN stack /\ Len(stack) \in Nat
      /\ stack[Len(stack)] = Top /\ Top \in StackFrame
    BY <1>1, TopType
<1>3. Above(Len(stack)) = {}
    BY <1>2 DEF Above
<1>4. Accounted(Top.path, Top.item, Top.matches, {}, LinesIn(out), Finished)
    BY <1>1, <1>2, <1>3 DEF Frames
<1>5. QED
    BY <1>1, <1>2, <1>4, FrameType DEF StackFrame, Chain

LEMMA DirectiveGraph ==
    ASSUME LoadInv, GraphInv, TakeDirective
    PROVE  GraphInv'
<1> DEFINE line == [path |-> Top.path, item |-> Top.item]
<1>1. /\ AtItem /\ Expanding /\ Item.kind = "own" /\ stack' = Reached(Top.item + 1, {})
      /\ out' = Append(out, line) /\ UNCHANGED <<project, seen, entry, phase>> /\ Top.matches = {}
    BY DEF TakeDirective, AtItem, Advanced, load
<1>2. /\ TypeOK /\ Chain /\ Frames /\ Settled /\ Top.path \in Paths /\ Top.item \in Nat \ {0}
      /\ Top.path \in Files(Root)
      /\ Accounted(Top.path, Top.item, {}, {}, LinesIn(out), Finished)
    BY <1>1, TopAccounted
<1>3. /\ DOMAIN out = 1..Len(out) /\ DOMAIN out' = 1..(Len(out) + 1) /\ Len(out) \in Nat
      /\ \A k \in 1..Len(out) : out'[k] = out[k]
      /\ out'[Len(out) + 1] = line
    <2>1. out \in Seq(Line) /\ line \in Line
        BY <1>2 DEF TypeOK, Line
    <2>2. QED
        BY <1>1, <2>1, AppendProperties, LenProperties
<1>4. LinesIn(out)' = LinesIn(out) \cup {<<Real(Top.path), Top.item>>}
    <2>1. LinesIn(out)' = {<<Real(out'[i].path), out'[i].item>> : i \in DOMAIN out'}
        BY <1>1 DEF LinesIn, Real
    <2>2. /\ \A i \in 1..Len(out) : out'[i] = out[i]
          /\ out'[Len(out) + 1].path = Top.path /\ out'[Len(out) + 1].item = Top.item
        BY <1>3
    <2>3. 1..(Len(out) + 1) = 1..Len(out) \cup {Len(out) + 1}
        BY <1>3
    <2>4. QED
        BY <1>3, <2>1, <2>2, <2>3 DEF LinesIn
<1>5. Named(Top.path, Top.item) = {}
    BY <1>1 DEF Named, Item, Items
<1>6. Accounted(Top.path, Top.item + 1, {}, {}, LinesIn(out)', Finished)
    BY <1>2, <1>4, <1>5, AccountedNext
<1>7. \A k \in DOMAIN out' : out'[k].path \in Files(Root)
    <2>1. \A k \in 1..Len(out) : out'[k].path \in Files(Root)
        BY <1>2, <1>3 DEF Chain
    <2>2. QED
        BY <1>2, <1>3, <2>1
<1>8. Chain' /\ Frames' /\ Settled'
    BY <1>1, <1>2, <1>4, <1>6, <1>7, ReachedGraph
<1>9. QED
    BY <1>1, <1>8 DEF GraphInv, Expanding

LEMMA IncludeGraph ==
    ASSUME LoadInv, GraphInv, TakeInclude
    PROVE  GraphInv'
<1>1. AtItem /\ Expanding /\ Item.kind = "include" /\ Top.matches = {}
    BY DEF TakeInclude, AtItem
<1>2. /\ TypeOK /\ Chain /\ Top.path \in Paths /\ Top.item \in Nat \ {0}
      /\ Accounted(Top.path, Top.item, {}, {}, LinesIn(out), Finished)
    BY <1>1, TopAccounted
<1>3. Named(Top.path, Top.item) = {Item.path} /\ Top.item \notin Own(Top.path)
    BY <1>1 DEF Named, Own, Item, Items
<1>4. Item.path \in Successors(Top.path)
    BY <1>1, <1>2, <1>3, ItemType DEF Successors
<1>5. CASE ~Readable(Item.path)
    BY <1>1, <1>2, <1>4, <1>5, AbortGraph DEF TakeInclude
<1>6. CASE Readable(Item.path)
    <2>1. Enter(Item.path, Reached(Top.item + 1, {}))
        BY <1>6 DEF TakeInclude, Advanced
    <2>2. ASSUME NEW A, NEW F, Finished \subseteq F, Item.path \in A \cup F
          PROVE  Accounted(Top.path, Top.item + 1, {}, A, LinesIn(out), F)
        <3>1. Accounted(Top.path, Top.item, {}, {}, LinesIn(out), F)
            BY <1>2, <2>2, AccountedStays
        <3>2. QED
            BY <1>2, <1>3, <1>6, <2>2, <3>1, AccountedNext
    <2>3. QED
        BY <1>1, <1>2, <1>4, <2>1, <2>2, EnterGraph
<1>7. QED
    BY <1>5, <1>6

LEMMA GlobGraph ==
    ASSUME LoadInv, GraphInv, TakeGlob
    PROVE  GraphInv'
<1> DEFINE S == Item.paths \cap project.disk
<1>1. /\ AtItem /\ Expanding /\ Item.kind = "glob" /\ Top.matches = {}
      /\ stack' = Reached(Top.item + 1, S) /\ UNCHANGED <<project, seen, out, entry, phase>>
    BY DEF TakeGlob, AtItem, load
<1>2. /\ TypeOK /\ Chain /\ Frames /\ Settled /\ Top.path \in Paths /\ Top.item \in Nat \ {0}
      /\ Accounted(Top.path, Top.item, {}, {}, LinesIn(out), Finished)
    BY <1>1, TopAccounted
<1>3. Named(Top.path, Top.item) = S /\ Top.item \notin Own(Top.path) /\ \A q \in S : Readable(q)
    BY <1>1 DEF Named, Own, Item, Items, Readable
<1>4. Accounted(Top.path, Top.item + 1, S, {}, LinesIn(out), Finished)
    BY <1>2, <1>3, AccountedNext
<1>5. LinesIn(out)' = LinesIn(out) /\ S \in SUBSET Paths
    BY <1>1, <1>2, ItemType DEF LinesIn, Real
<1>6. \A k \in DOMAIN out' : out'[k].path \in Files(Root)
    BY <1>1, <1>2 DEF Chain
<1>7. Chain' /\ Frames' /\ Settled'
    <2>1. Accounted(Top.path, Top.item + 1, S, {}, LinesIn(out)', Finished)
        BY <1>4, <1>5
    <2>2. Top.item + 1 \in Nat \ {0} /\ S \in SUBSET Paths /\ LinesIn(out) \subseteq LinesIn(out)'
        BY <1>2, <1>5
    <2> HIDE DEF S
    <2>3. QED
        BY <1>1, <1>2, <1>6, <2>1, <2>2, ReachedGraph
<1>8. QED
    BY <1>1, <1>7 DEF GraphInv, Expanding

LEMMA MatchGraph ==
    ASSUME LoadInv, GraphInv, TakeMatch
    PROVE  GraphInv'
<1>1. Expanding /\ \E p \in Top.matches : Enter(p, Reached(Top.item, Top.matches \ {p}))
    BY DEF TakeMatch
<1>2. PICK p \in Top.matches : Enter(p, Reached(Top.item, Top.matches \ {p}))
    BY <1>1
<1>3. /\ TypeOK /\ Frames /\ Top.path \in Paths /\ Top.item \in Nat \ {0} /\ Top.matches \in SUBSET Paths
      /\ Accounted(Top.path, Top.item, Top.matches, {}, LinesIn(out), Finished)
    BY <1>1, TopAccounted
<1>4. p \in Successors(Top.path)
    BY <1>1, <1>3, MatchNamed
<1>5. ASSUME NEW A, NEW F, Finished \subseteq F, p \in A \cup F
      PROVE  Accounted(Top.path, Top.item, Top.matches \ {p}, A, LinesIn(out), F)
    BY <1>3, <1>5, AccountedStays
<1>6. QED
    BY <1>1, <1>2, <1>3, <1>4, <1>5, EnterGraph

(* A call that returns has finished its file, and with it all the file     *)
(* leads to: it cannot be one of those, as it has been on the stack.       *)
LEMMA ReturnDone ==
    ASSUME OneText, LoadInv, GraphInv, Expanding, Top.matches = {}, Top.item > Len(Items),
           NEW q \in Paths, Real(q) = Real(Top.path)
    PROVE  /\ LinesOf({q}) \subseteq LinesIn(out)
           /\ Successors(q) \subseteq Finished
           /\ \A p \in Successors(q) : Readable(p)
           /\ ~Cyclic(q)
<1>1. /\ TypeOK /\ Settled /\ Top.path \in Paths /\ Top.item \in Nat \ {0}
      /\ Top.item <= Len(project.text[Top.path]) + 1
      /\ Accounted(Top.path, Top.item, {}, {}, LinesIn(out), Finished)
    BY TopAccounted
<1>2. DOMAIN project.text[Top.path] = 1..(Top.item - 1)
    <2>1. Len(Items) \in Nat /\ DOMAIN Items = 1..Len(Items)
        BY <1>1, TopType, LenProperties
    <2>2. Top.item - 1 = Len(Items)
        BY <1>1, <2>1 DEF Items
    <2>3. QED
        BY <2>1, <2>2 DEF Items
<1>3. /\ Own(q) = Own(Top.path) /\ Successors(q) = Successors(Top.path)
      /\ Includes(q) = Includes(Top.path) /\ LinesOf({q}) = LinesOf({Top.path})
    BY <1>1, SameFile
<1>4. \A j \in 1..(Top.item - 1) :
        /\ j \in Own(Top.path) => <<Real(Top.path), j>> \in LinesIn(out)
        /\ \A p \in Named(Top.path, j) : Readable(p) /\ p \in Finished
    BY <1>1 DEF Accounted
<1>5. LinesOf({Top.path}) \subseteq LinesIn(out)
    <2>1. Own(Top.path) \subseteq 1..(Top.item - 1)
        BY <1>2 DEF Own
    <2>2. \A j \in Own(Top.path) : <<Real(Top.path), j>> \in LinesIn(out)
        BY <1>4, <2>1
    <2>3. QED
        BY <2>2, LineOf
<1>6. Successors(Top.path) \subseteq Finished /\ \A p \in Successors(Top.path) : Readable(p)
    BY <1>2, <1>4 DEF Successors
<1>7. Includes(Top.path) \subseteq Finished
    BY <1>1, <1>6, IncludesLeast DEF Settled, Closed, Finished
<1>8. \A p \in Finished : Real(p) # Real(Top.path)
    BY <1>1, TopType DEF Finished, OnStack
<1>9. ~Cyclic(q)
    BY <1>3, <1>7, <1>8 DEF Cyclic, Reals
<1>10. QED
    BY <1>3, <1>5, <1>6, <1>9

LEMMA ReturnGraph ==
    ASSUME OneText, LoadInv, GraphInv, Return
    PROVE  GraphInv'
<1> DEFINE done == {q \in Paths : Real(q) = Real(Top.path)}
<1>1. /\ Expanding /\ Top.matches = {} /\ Top.item > Len(Items)
      /\ stack' = Front(stack) /\ UNCHANGED <<project, seen, out, entry, phase>>
    BY DEF Return, load
<1>2. TypeOK /\ Chain /\ Frames /\ Settled /\ Top.path \in Paths
    BY <1>1, TopAccounted
<1>3. /\ Len(stack) \in Nat \ {0} /\ DOMAIN stack = 1..Len(stack) /\ stack[Len(stack)] = Top
    BY <1>1, <1>2, TopType, LenProperties DEF TypeOK
<1>4. /\ Len(stack') = Len(stack) - 1 /\ DOMAIN stack' = 1..(Len(stack) - 1)
      /\ \A i \in DOMAIN stack' : stack'[i] = stack[i]
    <2>1. /\ stack' \in Seq(StackFrame) /\ Len(stack') = Len(stack) - 1
          /\ \A i \in DOMAIN stack' : stack'[i] = stack[i]
        BY <1>1, <1>2, ReturnStack
    <2>2. QED
        BY <2>1, LenProperties
<1>5. DOMAIN stack' \subseteq DOMAIN stack /\ DOMAIN stack = DOMAIN stack' \cup {Len(stack)}
    BY <1>3, <1>4
<1>6. \A q : OnStack(q)' <=> OnStack(q) /\ Real(q) # Real(Top.path)
    <2>1. \A q : Real(q)' = Real(q)
        BY <1>1, SameGraph
    <2>2. \A i \in DOMAIN stack' : i # Len(stack)
        BY <1>3, <1>4
    <2>3. \A i \in DOMAIN stack' : Real(stack[i].path) # Real(Top.path)
        BY <1>3, <1>5, <2>2 DEF LoadInv, Apart
    <2>4. \A q : OnStack(q)' <=> \E i \in DOMAIN stack' : Real(stack[i].path) = Real(q)
        BY <1>1, <1>4 DEF OnStack, Real
    <2>5. \A q : OnStack(q) <=> Real(q) = Real(Top.path)
                                    \/ \E i \in DOMAIN stack' : Real(stack[i].path) = Real(q)
        BY <1>3, <1>5 DEF OnStack
    <2>6. QED
        BY <2>3, <2>4, <2>5
<1>7. Finished' = Finished \cup done
    <2>1. Real(Top.path) \in seen
        BY <1>3 DEF LoadInv, AllSeen
    <2>2. \A q : Real(q)' = Real(q)
        BY <1>1, SameGraph
    <2>3. QED
        BY <1>1, <1>6, <2>1, <2>2 DEF Finished
<1>8. LinesIn(out)' = LinesIn(out)
    BY <1>1 DEF LinesIn, Real
<1>9. Chain'
    <2>1. \A i \in DOMAIN stack' : stack'[i].path \in Files(Root)
        BY <1>2, <1>4, <1>5 DEF Chain
    <2>2. \A i, j \in DOMAIN stack' : i < j => stack'[j].path \in Includes(stack'[i].path)
        BY <1>2, <1>4, <1>5 DEF Chain
    <2>3. \A k \in DOMAIN out' : out'[k].path \in Files(Root)
        BY <1>1, <1>2 DEF Chain
    <2>4. QED
        BY <1>1, <1>2, <2>1, <2>2, <2>3, ChainNext DEF Chain
<1>10. Frames'
    <2>1. ASSUME NEW i \in DOMAIN stack'
          PROVE  Accounted(stack'[i].path, stack'[i].item, stack'[i].matches, Above(i)',
                           LinesIn(out), Finished \cup done)
        <3>1. /\ stack'[i] = stack[i]
              /\ Accounted(stack[i].path, stack[i].item, stack[i].matches, Above(i), LinesIn(out), Finished)
            BY <1>2, <1>4, <1>5 DEF Frames
        <3>2. Above(i) \subseteq Above(i)' \cup done
            <4>1. \A q : Real(q)' = Real(q)
                BY <1>1, SameGraph
            <4>2. CASE i + 1 = Len(stack)
                BY <1>3, <4>2 DEF Above
            <4>3. CASE i + 1 # Len(stack)
                <5>1. i < Len(stack') /\ i + 1 \in DOMAIN stack'
                    BY <1>3, <1>4, <4>3
                <5>2. stack'[i + 1] = stack[i + 1]
                    BY <1>4, <5>1
                <5>3. QED
                    BY <1>1, <5>1, <5>2 DEF Above, Real
            <4>4. QED
                BY <4>2, <4>3
        <3> HIDE DEF done
        <3>3. QED
            BY <3>1, <3>2, AccountedStays
    <2>2. QED
        BY <1>1, <1>7, <1>8, <2>1, FramesNext
<1>11. Settled'
    <2>1. ASSUME NEW q \in Finished \cup done
          PROVE  /\ LinesOf({q}) \subseteq LinesIn(out)
                 /\ Successors(q) \subseteq Finished \cup done
                 /\ \A p \in Successors(q) : Readable(p)
                 /\ ~Cyclic(q)
        <3>1. CASE q \in Finished
            BY <1>2, <3>1 DEF Settled
        <3>2. CASE q \in done
            BY <1>1, <3>2, ReturnDone
        <3>3. QED
            BY <3>1, <3>2
    <2>2. QED
        BY <1>1, <1>7, <1>8, <2>1, SettledNext
<1>12. QED
    BY <1>1, <1>9, <1>10, <1>11 DEF GraphInv, Expanding

(* A load starts with its file on the stack. *)
LEMMA StartGraph ==
    ASSUME NEW r \in Paths, Root' = r, Readable(r)', stack' = <<Frame(r)>>, out' = << >>,
           seen' = {Real(r)'}, phase' = "load"
    PROVE  GraphInv'
<1>1. DOMAIN stack' = {1} /\ stack'[1] = [path |-> r, item |-> 1, matches |-> {}] /\ DOMAIN out' = {}
    BY DEF Frame
<1>2. r \in Files(Root)'
    BY DEF Files
<1>3. Chain'
    <2>1. Root' \in Paths /\ Readable(Root)' /\ Real(Root)' \in seen'
        BY DEF Readable, Real
    <2>2. QED
        BY <1>1, <1>2, <2>1 DEF Chain
<1>4. Frames'
    <2>1. \A i \in DOMAIN stack' : stack'[i].item = 1 /\ stack'[i].matches = {}
        BY <1>1
    <2>2. QED
        BY <2>1 DEF Frames, Accounted
<1>5. Finished' = {}
    <2>1. \A q \in Paths : Real(q)' \in seen' => OnStack(q)'
        BY <1>1 DEF OnStack, Real
    <2>2. QED
        BY <2>1 DEF Finished
<1>6. Settled'
    BY <1>5 DEF Settled
<1>7. QED
    BY <1>3, <1>4, <1>6 DEF GraphInv

LEMMA GraphInit == Init => GraphInv
<1> SUFFICES ASSUME Init PROVE GraphInv
    OBVIOUS
<1>1. /\ stack = <<Frame(project.main)>> /\ out = << >> /\ seen = {Real(project.main)}
      /\ phase = "load" /\ entry = 0 /\ project \in Projects
    BY DEF Init
<1>2. DOMAIN stack = {1} /\ stack[1] = [path |-> project.main, item |-> 1, matches |-> {}]
      /\ DOMAIN out = {}
    BY <1>1 DEF Frame
<1>3. Root = project.main /\ project.main \in Paths /\ Readable(project.main)
    BY <1>1, LoaderAssumption DEF Root, Readable
<1>4. Chain
    BY <1>1, <1>2, <1>3 DEF Chain, Files
<1>5. Frames
    <2>1. \A i \in DOMAIN stack : stack[i].item = 1 /\ stack[i].matches = {}
        BY <1>2
    <2>2. QED
        BY <2>1 DEF Frames, Accounted
<1>6. Finished = {}
    BY <1>1, <1>2 DEF Finished, OnStack
<1>7. QED
    BY <1>1, <1>4, <1>5, <1>6 DEF GraphInv, Settled

LEMMA GraphStep == OneText /\ LoadInv /\ GraphInv /\ [Next]_vars => GraphInv'
<1> SUFFICES ASSUME OneText, LoadInv, GraphInv, [Next]_vars PROVE GraphInv'
    OBVIOUS
<1>1. CASE TakeDirective
    BY <1>1, DirectiveGraph
<1>2. CASE TakeInclude
    BY <1>2, IncludeGraph
<1>3. CASE TakeGlob
    BY <1>3, GlobGraph
<1>4. CASE TakeMatch
    BY <1>4, MatchGraph
<1>5. CASE Return
    BY <1>5, ReturnGraph
<1>6. CASE MainLoaded \/ MainFailed \/ SkipJournal \/ JournalLoaded \/ JournalFailed \/ Inject
    <2>1. phase' \notin {"load", "aborted"}
        BY <1>6 DEF MainLoaded, MainFailed, SkipJournal, JournalLoaded, JournalFailed, Inject
    <2>2. QED
        BY <2>1 DEF GraphInv
<1>7. CASE LoadJournal
    <2>1. /\ phase' = "load" /\ entry' = entry + 1 /\ entry < Len(project.journals)
          /\ stack' = <<Frame(Journal)>> /\ seen' = {Real(Journal)} /\ out' = << >>
          /\ project' = project /\ phase = "journals"
        BY <1>7 DEF LoadJournal
    <2>2. TypeOK
        BY DEF LoadInv
    <2>3. Journal \in Paths /\ Journal \in project.disk /\ entry' # 0
        <3>1. project.journals \in Seq(project.disk) /\ project.disk \subseteq Paths
            BY <2>2, LoaderAssumption DEF TypeOK
        <3>2. entry \in Nat /\ entry' \in 1..Len(project.journals)
            BY <2>1, <2>2, <3>1, LenProperties DEF TypeOK
        <3>3. project.journals[entry'] \in project.disk
            BY <3>1, <3>2, ElementOfSeq
        <3>4. QED
            BY <3>1, <3>2, <3>3 DEF Journal
    <2>4. PICK r \in Paths : r = Journal
        BY <2>3
    <2>5. /\ Root' = r /\ Readable(r)' /\ stack' = <<Frame(r)>> /\ seen' = {Real(r)'}
        BY <2>1, <2>3, <2>4 DEF Root, Readable, Real, Journal
    <2>6. QED
        BY <2>1, <2>5, StartGraph
<1>8. CASE UNCHANGED vars
    <2>1. /\ UNCHANGED <<project, entry, stack, seen, out, phase>>
        BY <1>8 DEF vars
    <2>2. Chain => Chain'
        BY <2>1, ChainNext DEF Chain
    <2>3. /\ Finished' = Finished /\ LinesIn(out)' = LinesIn(out) /\ \A i : Above(i)' = Above(i)
        BY <2>1 DEF Finished, OnStack, LinesIn, Above, Real
    <2>4. Frames => Frames'
        BY <2>1, <2>3, FramesNext DEF Frames
    <2>5. Settled => Settled'
        BY <2>1, <2>3, SettledNext DEF Settled
    <2>6. Bad(Root)' <=> Bad(Root)
        <3>1. Root' = Root
            BY <2>1 DEF Root
        <3>2. QED
            BY <2>1, <3>1, SameGraph
    <2>7. QED
        BY <2>1, <2>2, <2>4, <2>5, <2>6 DEF GraphInv
<1>9. QED
    BY <1>1, <1>2, <1>3, <1>4, <1>5, <1>6, <1>7, <1>8 DEF Next

(* A load that comes to its end has read what its file leads to, whole.    *)
LEMMA LoadedWhole ==
    ASSUME LoadInv, GraphInv, phase = "load", stack = << >>
    PROVE  ~Bad(Root) /\ LinesIn(out) = LinesOf(Files(Root))
<1> DEFINE S == {q \in Finished : Readable(q)}
<1>1. TypeOK /\ Chain /\ Settled
    BY DEF LoadInv, GraphInv
<1>2. Root \in Paths /\ Root \in S
    BY <1>1 DEF Chain, Finished, OnStack
<1>3. Successors(Root) \subseteq S /\ Closed(S) /\ S \in SUBSET Paths
    BY <1>1, <1>2 DEF Settled, Closed, Finished
<1>4. Files(Root) \subseteq S
    <2> HIDE DEF S
    <2>1. QED
        BY <1>2, <1>3, IncludesLeast DEF Files
<1>5. ~Bad(Root)
    BY <1>1, <1>4 DEF Bad, Unloadable, Settled
<1>6. LinesOf(Files(Root)) \subseteq LinesIn(out)
    <2>1. \A q \in Files(Root) : LinesOf({q}) \subseteq LinesIn(out)
        BY <1>1, <1>4 DEF Settled
    <2>2. QED
        BY <2>1, LinesOfAll
<1>7. LinesIn(out) \subseteq LinesOf(Files(Root))
    <2>1. \A k \in DOMAIN out : out[k].path \in Files(Root) /\ out[k].item \in Own(out[k].path)
        BY <1>1 DEF Chain, TypeOK
    <2>2. QED
        BY <2>1, LineOf DEF LinesIn
<1>8. QED
    BY <1>5, <1>6, <1>7

----------------------------------------------------------------------------
(* What the loads make of the stream *)

LEMMA Joined ==
    ASSUME NEW s \in Seq(Line), NEW t \in Seq(Line)
    PROVE  /\ LinesIn(s \o t) = LinesIn(s) \cup LinesIn(t)
           /\ PathsOf(s \o t) = PathsOf(s) \cup PathsOf(t)
           /\ \A k \in DOMAIN (s \o t) : \/ k \in DOMAIN s /\ (s \o t)[k] = s[k]
                                         \/ k - Len(s) \in DOMAIN t /\ (s \o t)[k] = t[k - Len(s)]
<1>1. /\ Len(s) \in Nat /\ Len(t) \in Nat /\ DOMAIN s = 1..Len(s) /\ DOMAIN t = 1..Len(t)
      /\ DOMAIN (s \o t) = 1..(Len(s) + Len(t))
    BY ConcatProperties, LenProperties
<1>2. \A k \in DOMAIN s : k \in DOMAIN (s \o t) /\ (s \o t)[k] = s[k]
    BY <1>1, ConcatProperties
<1>3. \A k \in DOMAIN t : k + Len(s) \in DOMAIN (s \o t) /\ (s \o t)[k + Len(s)] = t[k]
    BY <1>1, ConcatProperties
<1>4. ASSUME NEW k \in DOMAIN (s \o t)
      PROVE  \/ k \in DOMAIN s /\ (s \o t)[k] = s[k]
             \/ k - Len(s) \in DOMAIN t /\ (s \o t)[k] = t[k - Len(s)]
    <2>1. CASE k <= Len(s)
        BY <1>1, <1>2, <2>1
    <2>2. CASE k > Len(s)
        <3>1. k - Len(s) \in DOMAIN t /\ (k - Len(s)) + Len(s) = k
            BY <1>1, <2>2
        <3>2. QED
            BY <1>3, <3>1
    <2>3. QED
        BY <1>1, <2>1, <2>2
<1>5. LinesIn(s \o t) = LinesIn(s) \cup LinesIn(t)
    BY <1>2, <1>3, <1>4, ZenonT(60) DEF LinesIn
<1>6. PathsOf(s \o t) = PathsOf(s) \cup PathsOf(t)
    <2> DEFINE u == s \o t
    <2>1. /\ \A k \in DOMAIN s : k \in DOMAIN u /\ u[k] = s[k]
          /\ \A k \in DOMAIN t : k + Len(s) \in DOMAIN u /\ u[k + Len(s)] = t[k]
          /\ \A k \in DOMAIN u : \/ k \in DOMAIN s /\ u[k] = s[k]
                                 \/ k - Len(s) \in DOMAIN t /\ u[k] = t[k - Len(s)]
        BY <1>2, <1>3, <1>4
    <2> HIDE DEF u
    <2>2. PathsOf(s) \cup PathsOf(t) \subseteq PathsOf(u)
        BY <2>1 DEF PathsOf
    <2>3. PathsOf(u) \subseteq PathsOf(s) \cup PathsOf(t)
        BY <2>1 DEF PathsOf
    <2>4. QED
        BY <2>2, <2>3 DEF u
<1>7. QED
    BY <1>4, <1>5, <1>6

(* A file leads to no more than one that leads to it. *)
LEMMA FilesWithin ==
    ASSUME TypeOK, NEW p \in Paths, NEW q \in Files(p)
    PROVE  /\ q \in Paths /\ Files(q) \subseteq Files(p)
           /\ LinesOf(Files(q)) \subseteq LinesOf(Files(p))
           /\ ~Bad(p) => ~Bad(q)
<1>1. q \in Paths /\ Files(q) \subseteq Files(p)
    BY IncludesTransitive, IncludesType DEF Files
<1>2. QED
    BY <1>1, LineOf DEF Bad

LEMMA JournalIn ==
    ASSUME TypeOK, NEW i \in 1..Len(project.journals)
    PROVE  project.journals[i] \in Paths
BY ProjectType, ElementOfSeq

(* Until the stream is put together, only what has failed is to be shown. *)
LEMMA WholeNext ==
    ASSUME TypeOK', phase' # "loaded", \A j \in Paths : Failed(j)' => Bad(j)'
    PROVE  JournalsWhole'
<1>1. \A j \in ToSet(project'.journals) : j \in Paths
    <2>1. project'.journals \in Seq(Paths)
        <3>1. project' \in Projects
            BY DEF TypeOK
        <3>2. project'.journals \in Seq(project'.disk) /\ project'.disk \subseteq Paths
            BY <3>1, LoaderAssumption
        <3>3. QED
            BY <3>2
    <2>2. QED
        BY <2>1 DEF ToSet
<1>2. \A j \in Paths : Failed(j)' => (\E p \in Files(j) : Unloadable(p))'
    BY DEF Bad
<1>3. QED
    BY <1>1, <1>2 DEF JournalsWhole, Failed

LEMMA LoadingKeeps ==
    ASSUME StreamInv, TypeOK', UNCHANGED <<project, entry, stream, prefix, present>>,
           phase = "load", phase' \in {"load", "aborted"},
           \A j : Failed(j)' <=> Failed(j)
    PROVE  StreamInv'
<1>1. \A p : Bad(p)' <=> Bad(p)
    BY SameGraph
<1>2. LinesIn(prefix)' = LinesIn(prefix) /\ LinesIn(stream)' = LinesIn(stream)
    BY DEF LinesIn, Real
<1>3. \A S : LinesOf(S)' = LinesOf(S)
    BY SameGraph
<1>4. \A p : Files(p)' = Files(p)
    BY SameGraph
<1>5. LinesOf(Files(project.main))' = LinesOf(Files(project.main))
    BY <1>3, <1>4
<1>6. \A p : HasLoaded(p)' <=> HasLoaded(p)
    <2>1. \A p : LinesOf(Files(p))' = LinesOf(Files(p))
        BY <1>3, <1>4
    <2>2. QED
        BY <1>1, <1>2, <1>5, <2>1 DEF HasLoaded
<1>7. Tried' = Tried /\ (MainIn' <=> MainIn)
    BY DEF Tried, MainIn
<1>8. JournalsWhole'
    BY <1>1, WholeNext DEF StreamInv
<1>9. QED
    BY <1>1, <1>2, <1>3, <1>4, <1>5, <1>6, <1>7, <1>8 DEF StreamInv, Real

LEMMA LoadedNext ==
    ASSUME project' = project
    PROVE  /\ \A p : HasLoaded(p)' <=>
                        /\ ~Bad(p)
                        /\ LinesOf(Files(p)) \subseteq LinesIn(prefix)' \cup LinesOf(Files(project.main))
           /\ LinesOf(Files(project.main))' = LinesOf(Files(project.main))
           /\ \A p : Bad(p)' <=> Bad(p)
           /\ \A p : LinesOf(Files(p))' = LinesOf(Files(p))
           /\ \A s : LinesIn(s)' = LinesIn(s)
<1>1. \A p : (Bad(p)' <=> Bad(p)) /\ Files(p)' = Files(p)
    BY SameGraph
<1>2. \A S : LinesOf(S)' = LinesOf(S)
    BY SameGraph
<1>3. \A p : LinesOf(Files(p))' = LinesOf(Files(p))
    BY <1>1, <1>2
<1>4. LinesOf(Files(project.main))' = LinesOf(Files(project.main))
    BY <1>3
<1>5. \A s : LinesIn(s)' = LinesIn(s)
    BY DEF LinesIn, Real
<1>6. QED
    BY <1>1, <1>3, <1>4, <1>5 DEF HasLoaded

LEMMA MainLoadedStream ==
    ASSUME LoadInv, GraphInv, StreamInv, TypeOK', MainLoaded
    PROVE  StreamInv'
<1>1. /\ phase = "load" /\ stack = << >> /\ entry = 0 /\ stream' = out /\ present' = PathsOf(out)
      /\ phase' = "journals" /\ UNCHANGED <<project, entry, out, prefix, diags>>
    BY DEF MainLoaded
<1>2. TypeOK /\ Chain
    BY <1>1 DEF LoadInv, GraphInv
<1>3. Root = project.main /\ prefix = << >> /\ Root \in Paths
    BY <1>1, <1>2 DEF Root, StreamInv, Chain
<1>4. ~Bad(project.main) /\ LinesIn(out) = LinesOf(Files(project.main))
    BY <1>1, <1>3, LoadedWhole
<1>5. LinesIn(stream)' = LinesIn(out)
    <2>1. \A s : LinesIn(s)' = LinesIn(s)
        BY <1>1, LoadedNext
    <2>2. LinesIn(stream)' = LinesIn(out)'
        BY <1>1
    <2>3. QED
        BY <1>1, <2>1, <2>2
<1>6. \A p \in present' : HasLoaded(p)'
    <2>1. \A p \in present' : p \in Files(project.main)
        BY <1>1, <1>2, <1>3 DEF PathsOf, Chain
    <2>2. \A p \in present' : ~Bad(p) /\ LinesOf(Files(p)) \subseteq LinesOf(Files(project.main))
        BY <1>2, <1>3, <1>4, <2>1, FilesWithin
    <2>3. QED
        BY <1>1, <2>2, LoadedNext
<1>7. \A j : (Failed(j)' <=> Failed(j)) /\ (Bad(j)' <=> Bad(j))
    BY <1>1, LoadedNext DEF Failed
<1>8. JournalsWhole'
    BY <1>1, <1>7, WholeNext DEF StreamInv
<1>9. Tried' = 0 /\ DOMAIN prefix' = {} /\ prefix' = << >>
    BY <1>1, <1>3 DEF Tried
<1>10. ~Bad(project.main)' /\ LinesOf(Files(project.main))' = LinesOf(Files(project.main))
    BY <1>1, <1>4, LoadedNext
<1>11. QED
    BY <1>1, <1>4, <1>5, <1>6, <1>7, <1>8, <1>9, <1>10 DEF StreamInv

(* A journal that is in already, or begun, adds nothing yet. *)
LEMMA SkippedStream ==
    ASSUME LoadInv, StreamInv, TypeOK', SkipJournal \/ LoadJournal
    PROVE  StreamInv'
<1>1. /\ phase = "journals" /\ entry' = entry + 1 /\ entry < Len(project.journals)
      /\ UNCHANGED <<project, stream, prefix, present, diags>>
      /\ \/ phase' = "journals" /\ Journal \in present
         \/ phase' = "load"
    BY DEF SkipJournal, LoadJournal
<1>2. TypeOK /\ MainIn /\ entry \in Nat /\ Len(project.journals) \in Nat
    BY <1>1, ProjectType, LenProperties DEF LoadInv, TypeOK, MainIn
<1>3. /\ \A j : (Failed(j)' <=> Failed(j)) /\ (Bad(j)' <=> Bad(j))
      /\ \A p : LinesOf(Files(p))' = LinesOf(Files(p))
      /\ \A p : HasLoaded(p)' <=> HasLoaded(p)
    <2>1. LinesIn(prefix)' = LinesIn(prefix)
        BY <1>1, LoadedNext
    <2>2. QED
        BY <1>1, <2>1, LoadedNext DEF Failed, HasLoaded
<1>4. LinesIn(stream)' = LinesIn(stream)
    BY <1>1, LoadedNext
<1>5. JournalsWhole'
    BY <1>1, <1>3, WholeNext DEF StreamInv
<1>6. \A i \in 1..Tried : Failed(project.journals[i]) \/ HasLoaded(project.journals[i])
    BY <1>2 DEF StreamInv
<1>7. \A i \in 1..Tried' : Failed(project.journals[i]) \/ HasLoaded(project.journals[i])
    <2>1. CASE phase' = "load"
        BY <1>1, <1>2, <1>6, <2>1 DEF Tried
    <2>2. CASE phase' = "journals"
        <3>1. HasLoaded(project.journals[entry + 1])
            BY <1>1, <1>2, <2>2 DEF StreamInv, Journal
        <3>2. Tried = entry /\ Tried' = entry + 1
            BY <1>1, <2>2 DEF Tried
        <3>3. QED
            BY <1>2, <1>6, <3>1, <3>2
    <2>3. QED
        BY <1>1, <2>1, <2>2
<1>8. 1..Tried \subseteq 1..Tried'
    BY <1>1, <1>2 DEF Tried
<1>9. \A k \in DOMAIN prefix : \E i \in 1..Tried' :
            /\ ~Failed(project.journals[i])
            /\ <<Real(prefix[k].path), prefix[k].item>> \in LinesOf(Files(project.journals[i]))
    BY <1>2, <1>8 DEF StreamInv
<1>10. /\ ~Bad(project.main) /\ LinesIn(stream) = LinesOf(Files(project.main))
       /\ \A p \in present : HasLoaded(p)
    BY <1>2 DEF StreamInv
<1>11. phase' # "failed" /\ entry' # 0
    BY <1>1, <1>2
<1>12. QED
    BY <1>1, <1>3, <1>4, <1>5, <1>7, <1>9, <1>10, <1>11 DEF StreamInv, Real

LEMMA JournalLoadedStream ==
    ASSUME LoadInv, GraphInv, StreamInv, TypeOK', JournalLoaded
    PROVE  StreamInv'
<1> DEFINE j0 == project.journals[entry]
<1>1. /\ phase = "load" /\ stack = << >> /\ entry > 0 /\ phase' = "journals"
      /\ prefix' = prefix \o out /\ present' = present \cup {j0}
      /\ UNCHANGED <<project, entry, out, stream, diags>>
    BY DEF JournalLoaded
<1>2. TypeOK /\ MainIn /\ entry \in 1..Len(project.journals) /\ Root = j0 /\ j0 \in Paths
    <2>1. TypeOK /\ MainIn /\ Root = j0
        BY <1>1 DEF LoadInv, MainIn, Root, TypeOK
    <2>2. entry \in 1..Len(project.journals)
        BY <1>1, <2>1, ProjectType, LenProperties DEF TypeOK
    <2>3. QED
        BY <2>1, <2>2, JournalIn
<1>3. ~Bad(j0) /\ LinesIn(out) = LinesOf(Files(j0)) /\ ~Failed(j0)
    <2>1. ~Bad(Root) /\ LinesIn(out) = LinesOf(Files(Root))
        BY <1>1, LoadedWhole
    <2>2. QED
        BY <1>2, <2>1 DEF StreamInv
<1>4. prefix \in Seq(Line) /\ out \in Seq(Line)
    BY <1>2 DEF TypeOK, Line
<1>5. LinesIn(prefix)' = LinesIn(prefix) \cup LinesIn(out)
    <2>1. LinesIn(prefix \o out) = LinesIn(prefix) \cup LinesIn(out)
        BY <1>4, Joined
    <2>2. \A s : LinesIn(s)' = LinesIn(s)
        BY <1>1, LoadedNext
    <2>3. LinesIn(prefix)' = LinesIn(prefix \o out)
        BY <1>1, <2>2
    <2>4. QED
        BY <2>1, <2>3
<1>6. LinesIn(stream)' = LinesIn(stream)
    BY <1>1, LoadedNext
<1>7. /\ \A j : (Failed(j)' <=> Failed(j)) /\ (Bad(j)' <=> Bad(j))
      /\ \A p : LinesOf(Files(p))' = LinesOf(Files(p))
      /\ \A p : HasLoaded(p) => HasLoaded(p)'
      /\ HasLoaded(j0)'
    <2>1. \A p : HasLoaded(p)' <=>
                    /\ ~Bad(p)
                    /\ LinesOf(Files(p)) \subseteq LinesIn(prefix)' \cup LinesOf(Files(project.main))
        BY <1>1, LoadedNext
    <2>2. \A p : HasLoaded(p) => HasLoaded(p)'
        BY <1>5, <2>1 DEF HasLoaded
    <2>3. \A p : p = j0 => HasLoaded(p)'
        BY <1>3, <1>5, <2>1
    <2>4. HasLoaded(j0)'
        BY <1>1, <2>3
    <2>5. QED
        BY <1>1, <2>2, <2>4, LoadedNext DEF Failed
<1>8. JournalsWhole'
    BY <1>1, <1>7, WholeNext DEF StreamInv
<1>9. Tried = entry - 1 /\ Tried' = entry /\ 1..entry = 1..(entry - 1) \cup {entry}
    BY <1>1, <1>2 DEF Tried
<1>10. \A i \in 1..Tried' : Failed(project.journals[i])' \/ HasLoaded(project.journals[i])'
    <2>1. \A i \in 1..Tried : Failed(project.journals[i]) \/ HasLoaded(project.journals[i])
        BY <1>2 DEF StreamInv
    <2>2. \A i \in 1..Tried : Failed(project.journals[i])' \/ HasLoaded(project.journals[i])'
        BY <1>1, <1>7, <2>1
    <2>3. \A i : i = entry => HasLoaded(project.journals[i])'
        BY <1>1, <1>7
    <2>4. QED
        BY <1>9, <2>2, <2>3
<1>11. ASSUME NEW k \in DOMAIN prefix'
       PROVE  \E i \in 1..Tried' :
                    /\ ~Failed(project.journals[i])
                    /\ <<Real(prefix'[k].path), prefix'[k].item>> \in LinesOf(Files(project.journals[i]))
    <2>1. CASE k \in DOMAIN prefix /\ prefix'[k] = prefix[k]
        <3>1. PICK i \in 1..Tried :
                    /\ ~Failed(project.journals[i])
                    /\ <<Real(prefix[k].path), prefix[k].item>> \in LinesOf(Files(project.journals[i]))
            BY <1>2, <2>1 DEF StreamInv
        <3>2. QED
            BY <1>9, <2>1, <3>1
    <2>2. CASE k - Len(prefix) \in DOMAIN out /\ prefix'[k] = out[k - Len(prefix)]
        <3>1. <<Real(prefix'[k].path), prefix'[k].item>> \in LinesIn(out)
            BY <2>2 DEF LinesIn
        <3>2. entry \in 1..Tried'
            BY <1>9
        <3>3. QED
            BY <1>3, <3>1, <3>2
    <2>3. QED
        BY <1>1, <1>4, <2>1, <2>2, Joined
<1>12. /\ ~Bad(project.main) /\ LinesIn(stream) = LinesOf(Files(project.main))
       /\ \A p \in present : HasLoaded(p)
    BY <1>2 DEF StreamInv
<1>13. \A p \in present' : HasLoaded(p)'
    <2>1. \A p \in present : HasLoaded(p)'
        BY <1>7, <1>12
    <2>2. \A p : p = j0 => HasLoaded(p)'
        BY <1>1, <1>7
    <2>3. QED
        BY <1>1, <2>1, <2>2
<1>14. phase' # "failed" /\ entry' # 0
    BY <1>1, <1>2
<1> HIDE DEF j0
<1>15. QED
    BY <1>1, <1>6, <1>7, <1>8, <1>10, <1>11, <1>12, <1>13, <1>14 DEF StreamInv, Real

LEMMA JournalFailedStream ==
    ASSUME LoadInv, GraphInv, StreamInv, TypeOK', JournalFailed
    PROVE  StreamInv'
<1> DEFINE j0 == project.journals[entry]
<1>1. /\ phase = "aborted" /\ entry > 0 /\ phase' = "journals"
      /\ diags' = diags \cup {<<"journal not loaded", j0>>}
      /\ UNCHANGED <<project, entry, stream, prefix, present>>
    BY DEF JournalFailed
<1>2. TypeOK /\ MainIn /\ entry \in Nat \ {0} /\ Root = j0 /\ Bad(j0)
    <2>1. TypeOK /\ MainIn /\ Bad(Root)
        BY <1>1 DEF LoadInv, GraphInv, MainIn
    <2>2. entry \in Nat \ {0}
        <3>1. entry \in Nat
            BY <2>1, ProjectType, LenProperties DEF TypeOK
        <3>2. entry > 0
            BY DEF JournalFailed
        <3>3. QED
            BY <3>1, <3>2
    <2>3. Root = j0
        BY <2>2 DEF Root
    <2>4. QED
        BY <2>1, <2>2, <2>3
<1>3. \A j : Failed(j)' <=> Failed(j) \/ j = j0
    BY <1>1 DEF Failed
<1>4. LinesIn(prefix)' = LinesIn(prefix) /\ LinesIn(stream)' = LinesIn(stream)
    BY <1>1, LoadedNext
<1>5. /\ \A j : Bad(j)' <=> Bad(j)
      /\ \A p : LinesOf(Files(p))' = LinesOf(Files(p))
      /\ \A p : HasLoaded(p)' <=> HasLoaded(p)
    BY <1>1, <1>4, LoadedNext DEF HasLoaded
<1>6. \A j \in Paths : Failed(j)' => Bad(j)'
    BY <1>2, <1>3, <1>5 DEF StreamInv
<1>7. JournalsWhole'
    BY <1>1, <1>6, WholeNext
<1>8. Tried = entry - 1 /\ Tried' = entry /\ 1..entry = 1..(entry - 1) \cup {entry}
    <2>1. phase = "aborted" /\ phase' = "journals" /\ entry' = entry
        BY <1>1
    <2>2. QED
        BY <1>2, <2>1 DEF Tried
<1>9. /\ \A i \in 1..Tried : Failed(project.journals[i]) \/ HasLoaded(project.journals[i])
      /\ ~Bad(project.main) /\ LinesIn(stream) = LinesOf(Files(project.main))
      /\ \A p \in present : HasLoaded(p)
    BY <1>2 DEF StreamInv
<1>10. ASSUME NEW i \in 1..Tried'
       PROVE  Failed(project.journals[i])' \/ HasLoaded(project.journals[i])'
    <2>1. CASE i \in 1..Tried
        BY <1>1, <1>3, <1>5, <1>9, <2>1
    <2>2. CASE i = entry
        BY <1>1, <1>3, <2>2
    <2>3. QED
        BY <1>8, <2>1, <2>2
<1>11. ASSUME NEW k \in DOMAIN prefix
       PROVE  \E i \in 1..Tried' :
                    /\ ~Failed(project.journals[i])'
                    /\ <<Real(prefix[k].path), prefix[k].item>> \in LinesOf(Files(project.journals[i]))
    <2>1. PICK i \in 1..Tried :
                /\ ~Failed(project.journals[i])
                /\ <<Real(prefix[k].path), prefix[k].item>> \in LinesOf(Files(project.journals[i]))
        BY <1>2 DEF StreamInv
    <2>2. ~Bad(project.journals[i])
        BY <1>9, <2>1 DEF HasLoaded
    <2>3. ~Failed(project.journals[i])'
        BY <1>1, <1>2, <1>3, <2>1, <2>2
    <2>4. QED
        BY <1>8, <2>1, <2>3
<1>12. phase' # "failed" /\ entry' # 0
    <2>1. phase' = "journals" /\ entry' = entry
        BY <1>1
    <2>2. QED
        BY <1>2, <2>1
<1> HIDE DEF j0
<1>13. QED
    BY <1>1, <1>4, <1>5, <1>6, <1>7, <1>9, <1>10, <1>11, <1>12 DEF StreamInv, Real

LEMMA InjectStream ==
    ASSUME LoadInv, StreamInv, TypeOK', Inject
    PROVE  StreamInv'
<1> DEFINE ok == {j \in ToSet(project.journals) : ~Failed(j)}
           all == {project.main} \cup ok
<1>1. /\ phase = "journals" /\ entry = Len(project.journals) /\ phase' = "loaded"
      /\ stream' = prefix \o stream /\ UNCHANGED <<project, entry, prefix, present, diags>>
    BY DEF Inject
<1>2. TypeOK /\ MainIn /\ Tried = Len(project.journals) /\ ~MainIn'
    BY <1>1 DEF LoadInv, MainIn, Tried
<1>3. /\ LinesIn(stream) = LinesOf(Files(project.main))
      /\ \A i \in 1..Tried : Failed(project.journals[i]) \/ HasLoaded(project.journals[i])
      /\ \A k \in DOMAIN prefix : \E i \in 1..Tried :
            /\ ~Failed(project.journals[i])
            /\ <<Real(prefix[k].path), prefix[k].item>> \in LinesOf(Files(project.journals[i]))
    BY <1>2 DEF StreamInv
<1>4. \A j : j \in ToSet(project.journals) <=> \E i \in 1..Tried : j = project.journals[i]
    <2>1. project.journals \in Seq(Paths)
        BY <1>2, ProjectType
    <2>2. DOMAIN project.journals = 1..Tried
        BY <1>2, <2>1, LenProperties
    <2>3. QED
        BY <2>2 DEF ToSet
<1>5. LinesIn(stream') = LinesIn(prefix) \cup LinesIn(stream)
    <2>1. prefix \in Seq(Line) /\ stream \in Seq(Line)
        BY <1>2 DEF TypeOK, Line
    <2>2. QED
        BY <1>1, <2>1, Joined
<1>6. LinesIn(stream') = LinesOf(UNION {Files(p) : p \in all})
    <2>1. ASSUME NEW p \in all
          PROVE  LinesOf(Files(p)) \subseteq LinesIn(stream')
        <3>1. CASE p = project.main
            BY <1>3, <1>5, <3>1
        <3>2. CASE p \in ok
            <4>1. HasLoaded(p)
                BY <1>3, <1>4, <3>2
            <4>2. QED
                BY <1>3, <1>5, <4>1 DEF HasLoaded
        <3>3. QED
            BY <3>1, <3>2
    <2>2. ASSUME NEW p \in all, NEW q \in Files(p)
          PROVE  LinesOf({q}) \subseteq LinesIn(stream')
        <3>1. LinesOf({q}) \subseteq LinesOf(Files(p))
            BY <2>2, LineOf
        <3>2. QED
            BY <2>1, <3>1
    <2>3. LinesOf(UNION {Files(p) : p \in all}) \subseteq LinesIn(stream')
        <3>1. \A q \in UNION {Files(p) : p \in all} : LinesOf({q}) \subseteq LinesIn(stream')
            BY <2>2
        <3>2. QED
            BY <3>1, LinesOfAll
    <2>4. ASSUME NEW p \in all
          PROVE  LinesOf(Files(p)) \subseteq LinesOf(UNION {Files(r) : r \in all})
        <3>1. Files(p) \subseteq UNION {Files(r) : r \in all}
            BY <2>4
        <3>2. QED
            BY <3>1, LineOf
    <2>5. LinesIn(prefix) \subseteq LinesOf(UNION {Files(p) : p \in all})
        <3>1. SUFFICES ASSUME NEW k \in DOMAIN prefix
                       PROVE  <<Real(prefix[k].path), prefix[k].item>>
                                    \in LinesOf(UNION {Files(p) : p \in all})
            BY DEF LinesIn
        <3>2. PICK i \in 1..Tried :
                    /\ ~Failed(project.journals[i])
                    /\ <<Real(prefix[k].path), prefix[k].item>> \in LinesOf(Files(project.journals[i]))
            BY <1>3
        <3>3. project.journals[i] \in all
            BY <1>4, <3>2
        <3>4. QED
            BY <2>4, <3>2, <3>3
    <2>6. LinesIn(stream) \subseteq LinesOf(UNION {Files(p) : p \in all})
        BY <1>3, <2>4
    <2>7. QED
        BY <1>5, <2>3, <2>5, <2>6
<1>7. /\ \A j : (Failed(j)' <=> Failed(j)) /\ (Bad(j)' <=> Bad(j)) /\ Files(j)' = Files(j)
      /\ \A S : LinesOf(S)' = LinesOf(S)
    BY <1>1, SameGraph DEF Failed
<1>8. JournalsWhole'
    <2>1. \A j \in ToSet(project.journals) : j \in Paths
        BY <1>2, <1>4, JournalIn
    <2>2. \A j \in ToSet(project.journals) : Failed(j)' => (\E p \in Files(j) : Unloadable(p))'
        BY <1>7, <2>1 DEF StreamInv, Bad
    <2>3. LinesIn(stream)' = LinesIn(stream')
        BY <1>1, LoadedNext
    <2>4. all = {project'.main} \cup {j \in ToSet(project'.journals) : ~Failed(j)'}
        BY <1>1, <1>7
    <2>5. PICK U : U = UNION {Files(p) : p \in all}
        OBVIOUS
    <2>6. UNION {Files(p)' : p \in {project'.main} \cup {j \in ToSet(project'.journals) : ~Failed(j)'}} = U
        BY <1>7, <2>4, <2>5
    <2>7. LinesIn(stream)' = LinesOf(U)'
        BY <1>6, <1>7, <2>3, <2>5
    <2>8. \A j \in ToSet(project'.journals) : Failed(j)' => (\E p \in Files(j) : Unloadable(p))'
        BY <1>1, <2>2
    <2>9. QED
        BY <1>1, <2>6, <2>7, <2>8 DEF JournalsWhole, Failed
<1>9. entry' = 0 => prefix' = << >>
    BY <1>1 DEF StreamInv
<1>10. QED
    BY <1>1, <1>2, <1>7, <1>8, <1>9 DEF StreamInv

(* No step of a load itself reports a journal as not loaded. *)
LEMMA LoadingReports ==
    ASSUME TakeDirective \/ TakeInclude \/ TakeGlob \/ TakeMatch \/ Return
    PROVE  /\ UNCHANGED <<project, entry, stream, prefix, present>>
           /\ phase = "load" /\ phase' \in {"load", "aborted"}
           /\ \A j : Failed(j)' <=> Failed(j)
<1>1. ASSUME NEW p, NEW frames, Enter(p, frames)
      PROVE  /\ UNCHANGED <<project, entry, stream, prefix, present>>
             /\ phase' = phase \/ phase' = "aborted"
             /\ diags' = diags \/ diags' = diags \cup {<<"cycle", p>>}
    BY <1>1 DEF Enter, Abort, load
<1>2. ASSUME NEW p, NEW what, what # "journal not loaded",
             diags' = diags \/ diags' = diags \cup {<<what, p>>}
      PROVE  \A j : Failed(j)' <=> Failed(j)
    <2>1. \A j : <<"journal not loaded", j>> # <<what, p>>
        BY <1>2
    <2>2. \A j : <<"journal not loaded", j>> \in diags' <=> <<"journal not loaded", j>> \in diags
        <3>1. CASE diags' = diags
            BY <3>1
        <3>2. CASE diags' = diags \cup {<<what, p>>}
            BY <2>1, <3>2, Zenon
        <3>3. QED
            BY <1>2, <3>1, <3>2
    <2>3. QED
        BY <2>2 DEF Failed
<1>3. "cycle" # "journal not loaded" /\ "missing" # "journal not loaded"
      /\ "zero matches" # "journal not loaded"
    OBVIOUS
<1>4. CASE TakeDirective \/ Return
    BY <1>4 DEF TakeDirective, Return, AtItem, Expanding, load, Failed
<1>5. CASE TakeInclude
    <2>1. phase = "load"
        BY <1>5 DEF TakeInclude, AtItem, Expanding
    <2>2. CASE Readable(Item.path)
        <3>1. Enter(Item.path, Advanced)
            BY <1>5, <2>2 DEF TakeInclude
        <3>2. QED
            BY <1>1, <1>2, <1>3, <2>1, <3>1
    <2>3. CASE ~Readable(Item.path)
        <3>1. Abort("missing", Item.path)
            BY <1>5, <2>3 DEF TakeInclude
        <3>2. QED
            BY <1>2, <1>3, <2>1, <3>1 DEF Abort
    <2>4. QED
        BY <2>2, <2>3
<1>6. CASE TakeGlob
    <2>1. phase = "load" /\ UNCHANGED <<project, entry, stream, prefix, present, phase>>
        BY <1>6 DEF TakeGlob, AtItem, Expanding, load
    <2>2. diags' = diags \/ diags' = diags \cup {<<"zero matches", Top.path>>}
        BY <1>6 DEF TakeGlob
    <2>3. QED
        BY <1>2, <1>3, <2>1, <2>2
<1>7. CASE TakeMatch
    <2>1. phase = "load"
        BY <1>7 DEF TakeMatch, Expanding
    <2>2. PICK p : Enter(p, Reached(Top.item, Top.matches \ {p}))
        BY <1>7 DEF TakeMatch
    <2>3. QED
        BY <1>1, <1>2, <1>3, <2>1, <2>2
<1>8. QED
    BY <1>4, <1>5, <1>6, <1>7

LEMMA StreamInit == Init => StreamInv
<1> SUFFICES ASSUME Init PROVE StreamInv
    OBVIOUS
<1>1. phase = "load" /\ entry = 0 /\ prefix = << >> /\ diags = {}
    BY DEF Init
<1>2. \A j : ~Failed(j)
    BY <1>1 DEF Failed
<1>3. JournalsWhole
    BY <1>1 DEF JournalsWhole
<1>4. QED
    BY <1>1, <1>2, <1>3 DEF StreamInv, MainIn

LEMMA StreamStep == LoadInv /\ TypeOK' /\ GraphInv /\ StreamInv /\ [Next]_vars => StreamInv'
<1> SUFFICES ASSUME LoadInv, TypeOK', GraphInv, StreamInv, [Next]_vars PROVE StreamInv'
    OBVIOUS
<1>1. CASE TakeDirective \/ TakeInclude \/ TakeGlob \/ TakeMatch \/ Return
    BY <1>1, LoadingReports, LoadingKeeps
<1>2. CASE MainLoaded
    BY <1>2, MainLoadedStream
<1>3. CASE MainFailed
    <2>1. /\ phase = "aborted" /\ entry = 0 /\ phase' = "failed"
          /\ UNCHANGED <<project, entry, stream, prefix, present, diags>>
        BY <1>3 DEF MainFailed
    <2>2. Bad(project.main)
        BY <2>1 DEF GraphInv, Root
    <2>3. \A j : (Failed(j)' <=> Failed(j)) /\ (Bad(j)' <=> Bad(j))
        BY <2>1, SameGraph DEF Failed
    <2>4. JournalsWhole'
        BY <2>1, <2>3, WholeNext DEF StreamInv
    <2>5. ~MainIn'
        BY <2>1 DEF MainIn
    <2>6. QED
        BY <2>1, <2>2, <2>3, <2>4, <2>5 DEF StreamInv
<1>4. CASE SkipJournal \/ LoadJournal
    BY <1>4, SkippedStream
<1>5. CASE JournalLoaded
    BY <1>5, JournalLoadedStream
<1>6. CASE JournalFailed
    BY <1>6, JournalFailedStream
<1>7. CASE Inject
    BY <1>7, InjectStream
<1>8. CASE UNCHANGED vars
    <2>1. UNCHANGED <<project, entry, stream, prefix, present, diags, phase>>
        BY <1>8 DEF vars
    <2>2. /\ \A p : (Bad(p)' <=> Bad(p)) /\ (Failed(p)' <=> Failed(p))
          /\ LinesIn(prefix)' = LinesIn(prefix) /\ LinesIn(stream)' = LinesIn(stream)
          /\ LinesOf(Files(project.main))' = LinesOf(Files(project.main))
          /\ \A p : LinesOf(Files(p))' = LinesOf(Files(p))
        BY <2>1, LoadedNext DEF Failed
    <2>3. \A p : HasLoaded(p)' <=> HasLoaded(p)
        BY <2>2 DEF HasLoaded
    <2>4. Tried' = Tried /\ (MainIn' <=> MainIn)
        BY <2>1 DEF Tried, MainIn
    <2>5. JournalsWhole'
        <3>1. PICK U : U = UNION {Files(p) : p \in {project.main} \cup {j \in ToSet(project.journals) : ~Failed(j)}}
            OBVIOUS
        <3>2. \A p : Files(p)' = Files(p)
            BY <2>1, SameGraph
        <3>3. UNION {Files(p)' : p \in {project'.main} \cup {j \in ToSet(project'.journals) : ~Failed(j)'}} = U
            BY <2>1, <2>2, <3>1, <3>2
        <3>4. LinesOf(U)' = LinesOf(U)
            BY <2>1, SameGraph
        <3>5. phase = "loaded" => LinesIn(stream)' = LinesOf(U)'
            BY <2>2, <3>1, <3>4 DEF StreamInv, JournalsWhole, Failed
        <3>6. \A j \in ToSet(project'.journals) : Failed(j)' => (\E p \in Files(j) : Unloadable(p))'
            BY <2>1, <2>2 DEF StreamInv, JournalsWhole, Failed, Bad
        <3>7. QED
            BY <2>1, <3>3, <3>5, <3>6 DEF JournalsWhole, Failed
    <2>6. QED
        BY <2>1, <2>2, <2>3, <2>4, <2>5 DEF StreamInv, Real
<1>9. QED
    BY <1>1, <1>2, <1>3, <1>4, <1>5, <1>6, <1>7, <1>8 DEF Next

CompleteInv == LoadInv /\ GraphInv /\ StreamInv

LEMMA CompleteInvariant ==
    ASSUME OneText
    PROVE  Spec => []CompleteInv
<1>1. Init => CompleteInv
    BY ReadInit, GraphInit, StreamInit DEF CompleteInv
<1>2. CompleteInv /\ [Next]_vars => CompleteInv'
    BY TypeStep, ReadStep, GraphStep, StreamStep DEF CompleteInv, LoadInv
<1>3. QED
    BY <1>1, <1>2, PTL DEF Spec

(* Main is loaded with every line of every file it leads to, and fails to  *)
(* load only if one of them is missing or leads back to itself.            *)
THEOREM MainIsComplete ==
    ASSUME OneText
    PROVE  Spec => []MainComplete
<1>1. CompleteInv => MainComplete
    BY DEF CompleteInv, StreamInv, MainComplete, MainIn, Bad
<1>2. QED
    BY <1>1, CompleteInvariant, PTL

(* A stream journal is in the stream whole, or failed for a reason of its  *)
(* own and left nothing behind.                                            *)
THEOREM JournalsAreWhole ==
    ASSUME OneText
    PROVE  Spec => []JournalsWhole
<1>1. CompleteInv => JournalsWhole
    BY DEF CompleteInv, StreamInv
<1>2. QED
    BY <1>1, CompleteInvariant, PTL

----------------------------------------------------------------------------
(* The order of the lines *)

LEMMA FirstLines ==
    ASSUME NEW s \in Seq(Line), NEW m \in 0..Len(s)
    PROVE  LinesIn(SubSeq(s, 1, m)) = {<<Real(s[i].path), s[i].item>> : i \in 1..m}
<1> DEFINE t == SubSeq(s, 1, m)
<1>1. Len(s) \in Nat /\ m \in Nat /\ 1 \in 1..(Len(s) + 1)
    BY LenProperties
<1>2. DOMAIN t = 1..m /\ \A i \in 1..m : t[i] = s[i]
    BY <1>1, SubSeqProperties
<1> HIDE DEF t
<1>3. LinesIn(t) = {<<Real(s[i].path), s[i].item>> : i \in 1..m}
    BY <1>2 DEF LinesIn
<1>4. QED
    BY <1>3 DEF t

LEMMA OrderStep ==
    ASSUME CompleteInv, CompleteInv', IncludedBefore, [Next]_vars
    PROVE  IncludedBefore'
<1>1. CASE TakeDirective
    <2> DEFINE line == [path |-> Top.path, item |-> Top.item]
    <2>1. /\ LoadInv /\ GraphInv /\ Expanding /\ Top.matches = {} /\ out' = Append(out, line)
          /\ project' = project
        BY <1>1 DEF TakeDirective, AtItem, CompleteInv
    <2>2. /\ TypeOK /\ Settled /\ Top.path \in Paths /\ Top.item \in Nat \ {0}
          /\ Accounted(Top.path, Top.item, {}, {}, LinesIn(out), Finished)
        BY <2>1, TopAccounted
    <2>3. out \in Seq(Line) /\ line \in Line
        BY <2>2 DEF TypeOK, Line
    <2>4. /\ out' \in Seq(Line) /\ Len(out) \in Nat /\ Len(out') = Len(out) + 1
          /\ DOMAIN out = 1..Len(out) /\ DOMAIN out' = 1..(Len(out) + 1)
          /\ \A k \in 1..Len(out) : out'[k] = out[k]
          /\ out'[Len(out) + 1] = line
        BY <2>1, <2>3, AppendProperties, LenProperties
    <2>5. ASSUME NEW m \in 0..Len(out)
          PROVE  LinesIn(SubSeq(out', 1, m)) = LinesIn(SubSeq(out, 1, m))
        <3>1. m \in 0..Len(out') /\ \A i \in 1..m : i \in 1..Len(out)
            BY <2>4
        <3>2. \A i \in 1..m : out'[i] = out[i]
            BY <2>4, <3>1
        <3>3. LinesIn(SubSeq(out, 1, m)) = {<<Real(out[i].path), out[i].item>> : i \in 1..m}
            BY <2>3, FirstLines
        <3>4. LinesIn(SubSeq(out', 1, m)) = {<<Real(out'[i].path), out'[i].item>> : i \in 1..m}
            BY <2>4, <3>1, FirstLines
        <3>5. QED
            BY <3>2, <3>3, <3>4
    <2>6. LinesIn(SubSeq(out, 1, Len(out))) = LinesIn(out)
        <3>1. Len(out) \in 0..Len(out)
            BY <2>4
        <3>2. LinesIn(SubSeq(out, 1, Len(out))) = {<<Real(out[i].path), out[i].item>> : i \in 1..Len(out)}
            BY <2>3, <3>1, FirstLines
        <3>3. LinesIn(out) = {<<Real(out[i].path), out[i].item>> : i \in 1..Len(out)}
            BY <2>4 DEF LinesIn
        <3>4. QED
            BY <3>2, <3>3
    <2>7. ASSUME NEW k \in DOMAIN out', NEW i \in 1..(out'[k].item - 1), NEW p \in Named(out'[k].path, i)
          PROVE  LinesOf({p}) \subseteq LinesIn(SubSeq(out', 1, k - 1))
        <3>1. CASE k \in 1..Len(out)
            <4>1. k - 1 \in 0..Len(out) /\ k \in DOMAIN out /\ out'[k] = out[k]
                BY <2>4, <3>1
            <4>2. LinesOf({p}) \subseteq LinesIn(SubSeq(out, 1, k - 1))
                <5>1. i \in 1..(out[k].item - 1) /\ p \in Named(out[k].path, i)
                    BY <2>7, <4>1
                <5>2. QED
                    BY <4>1, <5>1 DEF IncludedBefore
            <4>3. QED
                BY <2>5, <4>1, <4>2
        <3>2. CASE k = Len(out) + 1
            <4>1. k - 1 = Len(out) /\ k - 1 \in 0..Len(out) /\ out'[k] = line
                BY <2>4, <3>2
            <4>2. i \in 1..(Top.item - 1) /\ p \in Named(Top.path, i)
                BY <2>7, <4>1
            <4>3. p \in Finished
                BY <2>2, <4>2 DEF Accounted
            <4>4. LinesOf({p}) \subseteq LinesIn(out)
                BY <2>2, <4>3 DEF Settled
            <4>5. LinesIn(SubSeq(out', 1, k - 1)) = LinesIn(out)
                BY <2>5, <2>6, <4>1
            <4>6. QED
                BY <4>4, <4>5
        <3>3. k \in 1..Len(out) \/ k = Len(out) + 1
            BY <2>4
        <3>4. QED
            BY <3>1, <3>2, <3>3
    <2>8. /\ \A S : LinesOf(S)' = LinesOf(S)
          /\ \A s : LinesIn(s)' = LinesIn(s)
          /\ \A p, i : Named(p, i)' = Named(p, i)
        BY <2>1, SameGraph, LoadedNext
    <2>9. QED
        BY <2>7, <2>8 DEF IncludedBefore
<1>2. CASE LoadJournal
    <2>1. out' = << >>
        BY <1>2 DEF LoadJournal
    <2>2. QED
        BY <2>1 DEF IncludedBefore
<1>3. CASE UNCHANGED <<project, out>>
    <2>1. /\ \A S : LinesOf(S)' = LinesOf(S)
          /\ \A s : LinesIn(s)' = LinesIn(s)
          /\ \A p, i : Named(p, i)' = Named(p, i)
        BY <1>3, SameGraph, LoadedNext
    <2>2. QED
        BY <1>3, <2>1 DEF IncludedBefore
<1>4. CASE ~TakeDirective /\ ~LoadJournal
    <2>1. UNCHANGED <<project, out>>
        BY <1>4 DEF Next, TakeInclude, TakeGlob, TakeMatch, Return, MainLoaded, MainFailed, SkipJournal,
                    JournalLoaded, JournalFailed, Inject, Enter, Abort, vars
    <2>2. QED
        BY <1>3, <2>1
<1>5. QED
    BY <1>1, <1>2, <1>4

(* What a file includes stands before the lines that follow the include.   *)
THEOREM IncludesComeFirst ==
    ASSUME OneText
    PROVE  Spec => []IncludedBefore
<1>1. Init => IncludedBefore
    BY DEF Init, IncludedBefore
<1>2. CompleteInv /\ CompleteInv' /\ IncludedBefore /\ [Next]_vars => IncludedBefore'
    BY OrderStep
<1>3. QED
    BY <1>1, <1>2, CompleteInvariant, PTL DEF Spec

----------------------------------------------------------------------------
(* Journals that include nothing *)

LEMMA DistinctOut ==
    ASSUME LoadInv
    PROVE  Distinct(out)
BY DEF LoadInv, ReadOnce, NoneTwice, SameLine, Distinct

LEMMA DistinctJoined ==
    ASSUME NEW s \in Seq(Line), NEW t \in Seq(Line), Distinct(s), Distinct(t),
           PathsOf(s) \cap PathsOf(t) = {}
    PROVE  Distinct(s \o t)
<1> DEFINE u == s \o t
<1>1. /\ Len(s) \in Nat /\ Len(t) \in Nat /\ DOMAIN s = 1..Len(s) /\ DOMAIN t = 1..Len(t)
      /\ DOMAIN u = 1..(Len(s) + Len(t))
    BY ConcatProperties, LenProperties
<1>2. \A k \in DOMAIN u : \/ k \in DOMAIN s /\ u[k] = s[k]
                          \/ k - Len(s) \in DOMAIN t /\ u[k] = t[k - Len(s)]
    BY Joined
<1>3. \A i \in DOMAIN s : \A j \in DOMAIN t : s[i] # t[j]
    BY DEF PathsOf
<1> HIDE DEF u
<1>4. ASSUME NEW i \in DOMAIN u, NEW j \in 1..(i - 1), u[i] = u[j]
      PROVE  FALSE
    <2>1. j \in DOMAIN u /\ j < i
        BY <1>1
    <2>2. CASE i \in DOMAIN s /\ u[i] = s[i]
        <3>1. j \in DOMAIN s /\ j - Len(s) \notin DOMAIN t
            BY <1>1, <2>1, <2>2
        <3>2. u[j] = s[j]
            BY <1>2, <2>1, <3>1
        <3>3. QED
            BY <1>4, <2>1, <2>2, <3>2 DEF Distinct
    <2>3. CASE i - Len(s) \in DOMAIN t /\ u[i] = t[i - Len(s)]
        <3>1. CASE j \in DOMAIN s /\ u[j] = s[j]
            BY <1>3, <1>4, <2>3, <3>1
        <3>2. CASE j - Len(s) \in DOMAIN t /\ u[j] = t[j - Len(s)]
            <4>1. j - Len(s) \in 1..((i - Len(s)) - 1)
                BY <1>1, <2>1, <2>3, <3>2
            <4>2. QED
                BY <1>4, <2>3, <3>2, <4>1 DEF Distinct
        <3>3. QED
            BY <1>2, <2>1, <3>1, <3>2
    <2>4. QED
        BY <1>2, <2>2, <2>3
<1>5. Distinct(u)
    BY <1>4 DEF Distinct
<1>6. QED
    BY <1>5 DEF u

(* A flat journal leads to itself only.                                    *)
LEMMA FlatPaths ==
    ASSUME CompleteInv, FlatJournals, phase = "load", entry > 0
    PROVE  PathsOf(out) \subseteq {project.journals[entry]}
<1>1. TypeOK /\ Chain
    BY DEF CompleteInv, LoadInv, GraphInv
<1>2. entry \in Nat /\ Root = project.journals[entry]
    <2>1. entry \in Nat
        BY <1>1, ProjectType, LenProperties DEF TypeOK
    <2>2. QED
        BY <2>1 DEF Root
<1>3. entry \in DOMAIN project.journals
    <2>1. project.journals \in Seq(Paths)
        BY <1>1, ProjectType
    <2>2. Len(project.journals) \in Nat /\ DOMAIN project.journals = 1..Len(project.journals)
        BY <2>1, LenProperties
    <2>3. QED
        BY <1>1, <1>2, <2>2 DEF TypeOK
<1>4. Successors(Root) = {}
    BY <1>2, <1>3 DEF FlatJournals
<1>5. Includes(Root) \subseteq {}
    BY <1>4, IncludesLeast DEF Closed
<1>6. QED
    BY <1>1, <1>2, <1>5 DEF Chain, Files, PathsOf

LEMMA FlatStep ==
    ASSUME CompleteInv, TypeOK', FlatInv, [Next]_vars
    PROVE  FlatInv'
<1>0. TypeOK /\ LoadInv
    BY DEF CompleteInv, LoadInv
<1>1. project' = project
    BY DEF Next, TakeDirective, TakeInclude, TakeGlob, TakeMatch, Return, MainLoaded, MainFailed, SkipJournal,
           LoadJournal, JournalLoaded, JournalFailed, Inject, Enter, Abort, vars
<1>2. FlatJournals' <=> FlatJournals
    BY <1>1, SameGraph DEF FlatJournals
<1> SUFFICES ASSUME FlatJournals PROVE FlatInv'
    BY <1>2 DEF FlatInv
<1>3. \A s : (Distinct(s)' <=> Distinct(s)) /\ PathsOf(s)' = PathsOf(s)
    BY DEF Distinct, PathsOf
<1>4. prefix \in Seq(Line) /\ stream \in Seq(Line) /\ out \in Seq(Line)
    BY <1>0 DEF TypeOK, Line
<1>5. MainIn => /\ Distinct(prefix) /\ Distinct(stream)
                /\ PathsOf(prefix) \cup PathsOf(stream) \subseteq present
                /\ PathsOf(prefix) \cap PathsOf(stream) = {}
    BY DEF FlatInv
<1>6. CASE UNCHANGED <<entry, stream, prefix, present, phase>>
    BY <1>1, <1>2, <1>3, <1>6 DEF FlatInv, MainIn
<1>7. CASE TakeDirective \/ TakeInclude \/ TakeGlob \/ TakeMatch \/ Return
    <2>1. /\ UNCHANGED <<entry, stream, prefix, present>>
          /\ phase = "load" /\ phase' \in {"load", "aborted"}
        BY <1>7, LoadingReports
    <2>2. QED
        BY <1>1, <1>2, <1>3, <2>1 DEF FlatInv, MainIn
<1>8. CASE MainLoaded
    <2>1. /\ entry = 0 /\ stream' = out /\ present' = PathsOf(out) /\ phase' = "journals"
          /\ UNCHANGED <<entry, prefix>> /\ prefix = << >>
        BY <1>8 DEF MainLoaded, CompleteInv, StreamInv
    <2>2. Distinct(stream') /\ Distinct(prefix') /\ PathsOf(prefix') = {}
        BY <1>0, <2>1, DistinctOut DEF Distinct, PathsOf
    <2>3. QED
        BY <1>3, <2>1, <2>2 DEF FlatInv
<1>9. CASE MainFailed
    <2>1. entry' = 0 /\ phase' = "failed"
        BY <1>9 DEF MainFailed
    <2>2. QED
        BY <2>1 DEF FlatInv, MainIn
<1>10. CASE SkipJournal \/ LoadJournal
    <2>1. /\ MainIn /\ UNCHANGED <<stream, prefix, present>>
          /\ phase' = "journals" \/ (phase' = "load" /\ Journal \notin present)
        BY <1>10 DEF SkipJournal, LoadJournal, MainIn
    <2>2. phase' = "load" => project'.journals[entry'] \notin present'
        BY <1>1, <2>1 DEF Journal
    <2>3. QED
        BY <1>3, <1>5, <2>1, <2>2 DEF FlatInv
<1>11. CASE JournalLoaded
    <2> DEFINE j0 == project.journals[entry]
    <2>1. /\ phase = "load" /\ entry > 0 /\ phase' = "journals" /\ MainIn
          /\ prefix' = prefix \o out /\ present' = present \cup {j0} /\ stream' = stream
        BY <1>11 DEF JournalLoaded, MainIn
    <2>2. j0 \notin present /\ PathsOf(out) \subseteq {j0}
        BY <2>1, FlatPaths DEF FlatInv
    <2>3. PathsOf(prefix) \cap PathsOf(out) = {} /\ PathsOf(stream) \cap PathsOf(out) = {}
        BY <1>5, <2>1, <2>2
    <2>4. Distinct(prefix') /\ PathsOf(prefix') = PathsOf(prefix) \cup PathsOf(out)
        BY <1>0, <1>4, <1>5, <2>1, <2>3, DistinctOut, DistinctJoined, Joined
    <2>5. /\ PathsOf(prefix') \cup PathsOf(stream') \subseteq present'
          /\ PathsOf(prefix') \cap PathsOf(stream') = {}
        BY <1>5, <2>1, <2>2, <2>3, <2>4
    <2>6. QED
        BY <1>3, <1>5, <2>1, <2>4, <2>5 DEF FlatInv
<1>12. CASE JournalFailed
    <2>1. MainIn /\ phase' = "journals" /\ UNCHANGED <<stream, prefix, present>>
        BY <1>12 DEF JournalFailed, MainIn
    <2>2. QED
        BY <1>3, <1>5, <2>1 DEF FlatInv
<1>13. CASE Inject
    <2>1. MainIn /\ phase' = "loaded" /\ stream' = prefix \o stream
        BY <1>13 DEF Inject, MainIn
    <2>2. Distinct(stream')
        BY <1>4, <1>5, <2>1, DistinctJoined
    <2>3. QED
        BY <1>3, <2>1, <2>2 DEF FlatInv, MainIn
<1>14. QED
    BY <1>6, <1>7, <1>8, <1>9, <1>10, <1>11, <1>12, <1>13 DEF Next, vars

(* Journals without includes are loaded once: what is present is skipped.  *)
THEOREM FlatOnce ==
    ASSUME OneText
    PROVE  Spec => []FlatJournalsOnce
<1>1. Init => FlatInv
    BY DEF Init, FlatInv, MainIn
<1>2. CompleteInv /\ CompleteInv' /\ FlatInv /\ [Next]_vars => FlatInv'
    BY FlatStep DEF CompleteInv, LoadInv
<1>3. CompleteInv /\ FlatInv => FlatJournalsOnce
    <2> SUFFICES ASSUME CompleteInv, FlatInv, phase = "loaded", FlatJournals,
                        \A p \in PathsOf(stream) : Real(p) = p
                 PROVE  NoneTwice(stream)
        BY DEF FlatJournalsOnce, FlatJournals
    <2>1. Distinct(stream) /\ stream \in Seq(Line)
        BY DEF FlatInv, CompleteInv, LoadInv, TypeOK, Line
    <2>2. ASSUME NEW i \in DOMAIN stream, NEW j \in 1..(i - 1), SameLine(stream, i, j)
          PROVE  FALSE
        <3>1. j \in DOMAIN stream
            <4>1. Len(stream) \in Nat /\ DOMAIN stream = 1..Len(stream)
                BY <2>1, LenProperties
            <4>2. QED
                BY <4>1
        <3>2. stream[i] \in Line /\ stream[j] \in Line
            BY <2>1, <3>1
        <3>3. stream[i].path = stream[j].path /\ stream[i].item = stream[j].item
            BY <2>2, <3>1 DEF SameLine, PathsOf
        <3>4. stream[i] = stream[j]
            BY <3>2, <3>3 DEF Line
        <3>5. QED
            BY <2>1, <3>4 DEF Distinct
    <2>3. QED
        BY <2>2 DEF NoneTwice
<1>4. QED
    BY <1>1, <1>2, <1>3, CompleteInvariant, PTL DEF Spec

=============================================================================
