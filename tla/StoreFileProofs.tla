-------------------------- MODULE StoreFileProofs ---------------------------
(***************************************************************************)
(* Proofs about StoreFile for any number of threads, changes, failed       *)
(* writes and restarts, whether saves overlap or not.  What crossing saves *)
(* make of the file is in nobody's hands; the invariant is about the save  *)
(* that is alone: it has the temporary file, and its text is newer than    *)
(* all that anybody was told of.                                           *)
(***************************************************************************)
EXTENDS StoreFile, TLAPS

Tmp    == entry["tmp"]
Target == entry["target"]

\* A save that is alone is one, and unless two have crossed every save is alone.
Apart ==
  \A w \in Writers :
    /\ writer[w].alone =>
         writer[w].pc \in Saving /\ \A v \in Writers : writer[v].pc \in Saving => v = w
    /\ writer[w].pc \in Saving /\ "crossed" \notin doubt => writer[w].alone

\* The handle of a save that is alone is the file tmp names, and that file
\* is never the target.
Shape ==
  /\ Tmp # NoInode => Tmp # Target
  /\ \A w \in Writers : writer[w].alone =>
       /\ writer[w].pc \in {"first", "second"} => writer[w].file = Tmp
       /\ writer[w].pc = "second" => text[Tmp][1] = writer[w].body
       /\ writer[w].pc = "rename" =>
            /\ Tmp # NoInode
            /\ text[Tmp][1] = writer[w].body
            /\ text[Tmp][2] = writer[w].body

\* The text that is alone on its way to the file is no older than the file,
\* nor than what anybody was told, and holds the change it is saved for.
Forward ==
  /\ told <= memory /\ saved <= memory
  /\ "crossed" \notin doubt => Loaded <= memory
  /\ \A w \in Writers :
       /\ writer[w].pc # "idle" => writer[w].change <= memory
       /\ writer[w].alone =>
            /\ writer[w].change <= writer[w].body /\ writer[w].body <= memory
            /\ told <= writer[w].body /\ saved <= writer[w].body
            /\ "crossed" \notin doubt => Loaded <= writer[w].body

SaveInv == TypeOK /\ CrashLeavesTheList /\ AnsweredIsSaved /\ Apart /\ Shape /\ Forward

-----------------------------------------------------------------------------
LEMMA InitSaveInv == Init => SaveInv
  <1> SUFFICES ASSUME Init PROVE SaveInv
    OBVIOUS
  <1>1. TypeOK
    BY StoreAssumption DEF Init, TypeOK, Blocks, Empty, Writer, Steps, Saving, Idle
  <1>2. CrashLeavesTheList /\ AnsweredIsSaved /\ Apart /\ Shape /\ Forward
    BY DEF Init, CrashLeavesTheList, TargetParses, AnsweredIsSaved, Apart, Shape, Forward,
           Loaded, Tmp, Target, Idle, Saving
  <1> QED
    BY <1>1, <1>2 DEF SaveInv

\* What open() reads depends on the target and its text alone.
LEMMA SameFile ==
  ASSUME TypeOK, entry'["target"] = entry["target"],
         entry["target"] # NoInode => text'[entry["target"]] = text[entry["target"]]
  PROVE  Loaded' = Loaded /\ (TargetParses => TargetParses')
  BY DEF TypeOK, Loaded, TargetParses, Whole

LEMMA LoadedNat == TypeOK => Loaded \in Nat
  BY DEF TypeOK, Blocks, Loaded

\* One thread moves to the record new.
Moves(w, new) == \A v \in Writers : writer'[v] = IF v = w THEN new ELSE writer[v]

LEMMA StepMoves ==
  ASSUME TypeOK, NEW w \in Writers, NEW new, writer' = [writer EXCEPT ![w] = new]
  PROVE  Moves(w, new)
  BY DEF TypeOK, Moves

\* A thread's step keeps the types when the record it moves to is well formed.
LEMMA StepTyped ==
  ASSUME TypeOK, NEW w \in Writers, NEW new \in Writer, writer' = [writer EXCEPT ![w] = new],
         new.pc \in {"first", "second"} <=> new.file \in Inodes,
         new.pc # "idle" => new.change > 0,
         memory' \in Nat, entry' \in [{"tmp", "target"} -> Inodes \cup {NoInode}],
         text' \in [Inodes -> Blocks], told' \in Nat, saved' \in Nat, doubt' \in SUBSET Doubts
  PROVE  TypeOK'
  <1>1. writer' \in [Writers -> Writer]
    BY DEF TypeOK
  <1> QED
    BY <1>1, StepMoves DEF TypeOK, Moves

LEMMA IdleTyped == Idle \in Writer /\ Idle.pc = "idle" /\ Idle.file = NoInode /\ Idle.alone = FALSE
  BY DEF Idle, Writer, Steps

\* A step of a save that leaves what start reads as it is, unless saves have crossed.
LEMMA SavingStep ==
  ASSUME SaveInv, NEW w \in Writers, NEW new,
         writer[w].pc \in Saving, new.pc \in Saving, new.alone = writer[w].alone,
         new.change = writer[w].change, new.body = writer[w].body,
         writer' = [writer EXCEPT ![w] = new], UNCHANGED <<memory, told, saved, doubt>>,
         "crossed" \notin doubt => Loaded' = Loaded /\ TargetParses'
  PROVE  CrashLeavesTheList' /\ AnsweredIsSaved' /\ Apart' /\ Forward'
  <1>1. Moves(w, new)
    BY StepMoves DEF SaveInv
  <1>2. CrashLeavesTheList' /\ AnsweredIsSaved'
    BY DEF SaveInv, CrashLeavesTheList, AnsweredIsSaved
  <1>3. Apart'
    BY <1>1 DEF SaveInv, Apart, Moves
  <1>4. writer[w].pc # "idle"
    BY DEF Saving
  <1>5. Forward'
    BY <1>1, <1>4 DEF SaveInv, Forward, Moves
  <1> QED
    BY <1>2, <1>3, <1>5

-----------------------------------------------------------------------------
LEMMA ChangeStep == ASSUME SaveInv, NEW w \in Writers, Change(w) PROVE SaveInv'
  <1> USE DEF SaveInv
  <1>1. PICK quiet \in BOOLEAN :
          Step(w, "idle", [pc |-> "serialise", change |-> memory + 1, body |-> 0, file |-> NoInode,
                           quiet |-> quiet, alone |-> FALSE])
    BY DEF Change
  <1> DEFINE new == [pc |-> "serialise", change |-> memory + 1, body |-> 0, file |-> NoInode,
                     quiet |-> quiet, alone |-> FALSE]
  <1>2. /\ new \in Writer /\ new.pc = "serialise" /\ new.file = NoInode
        /\ new.change = memory + 1 /\ new.alone = FALSE /\ memory \in Nat
    <2>1. memory \in Nat
      BY DEF TypeOK
    <2> QED
      BY <2>1 DEF Writer, Steps
  <1> HIDE DEF new
  <1>3. /\ memory' = memory + 1 /\ UNCHANGED <<entry, text, told, saved, doubt>>
        /\ writer' = [writer EXCEPT ![w] = new] /\ writer[w].pc = "idle"
    BY <1>1 DEF Change, Step, new
  <1>4. Moves(w, new)
    BY <1>3, StepMoves
  <1>5. TypeOK'
    BY <1>2, <1>3, StepTyped, StoreAssumption DEF TypeOK
  <1>6. Loaded' = Loaded /\ (TargetParses => TargetParses')
    BY <1>3, SameFile
  <1>7. CrashLeavesTheList' /\ AnsweredIsSaved'
    BY <1>3, <1>6 DEF CrashLeavesTheList, AnsweredIsSaved
  <1>8. Apart'
    BY <1>2, <1>3, <1>4 DEF Apart, Moves, Saving
  <1>9. Shape'
    BY <1>2, <1>3, <1>4 DEF Shape, Moves, Tmp, Target
  <1>10. told \in Nat /\ saved \in Nat /\ Loaded \in Nat
    BY LoadedNat DEF TypeOK
  <1>11. \A v \in Writers : writer[v].change \in Nat /\ writer[v].body \in Nat
    BY DEF TypeOK, Writer
  <1>12. Forward'
    BY <1>2, <1>3, <1>4, <1>6, <1>10, <1>11 DEF Forward, Moves
  <1> QED
    BY <1>5, <1>7, <1>8, <1>9, <1>12

LEMMA SerialiseStep == ASSUME SaveInv, NEW w \in Writers, Serialise(w) PROVE SaveInv'
  <1> USE DEF SaveInv
  <1> DEFINE lone == Others(w) = {}
             new == [writer[w] EXCEPT !.pc = "open", !.body = memory, !.alone = lone]
  <1>1. /\ writer[w].pc = "serialise" /\ UNCHANGED <<memory, entry, text, told, saved>>
        /\ writer' = [v \in Writers |-> IF v = w THEN new ELSE [writer[v] EXCEPT !.alone = FALSE]]
        /\ doubt' = IF lone THEN doubt ELSE doubt \cup {"crossed"}
    BY DEF Serialise, Texted
  <1>2. lone <=> \A v \in Writers : writer[v].pc \in Saving => v = w
    BY <1>1 DEF Others, Saving
  <1>3. /\ new \in Writer /\ new.pc = "open" /\ new.body = memory /\ new.alone = lone
        /\ new.change = writer[w].change /\ new.file = writer[w].file
    BY DEF TypeOK, Writer, Steps, Saving
  <1> HIDE DEF new, lone
  <1>4. ASSUME NEW v \in Writers, v # w
        PROVE  /\ writer'[v] \in Writer /\ writer'[v].alone = FALSE
               /\ writer'[v].pc = writer[v].pc /\ writer'[v].change = writer[v].change
               /\ writer'[v].file = writer[v].file
    <2>1. writer[v] \in Writer /\ writer'[v] = [writer[v] EXCEPT !.alone = FALSE]
      BY <1>1, <1>4 DEF TypeOK
    <2> QED
      BY <2>1 DEF Writer
  <1>5. writer'[w] = new
    BY <1>1
  <1>6. TypeOK'
    <2>1. writer' \in [Writers -> Writer]
      BY <1>1, <1>3, <1>4, <1>5
    <2>2. doubt' \in SUBSET Doubts
      BY <1>1 DEF TypeOK, Doubts
    <2> QED
      BY <1>1, <1>3, <1>4, <1>5, <2>1, <2>2 DEF TypeOK
  <1>7. Loaded' = Loaded /\ (TargetParses => TargetParses')
    BY <1>1, SameFile
  <1>8. CrashLeavesTheList' /\ AnsweredIsSaved'
    BY <1>1, <1>7 DEF CrashLeavesTheList, AnsweredIsSaved
  <1>9. Apart'
    BY <1>1, <1>2, <1>3, <1>4, <1>5 DEF Apart, Saving
  <1>10. Shape'
    BY <1>1, <1>3, <1>4, <1>5 DEF Shape, Tmp, Target
  <1>11. told \in Nat /\ saved \in Nat /\ Loaded \in Nat /\ memory \in Nat /\ writer[w].change \in Nat
    BY LoadedNat DEF TypeOK, Writer
  <1>12. "crossed" \notin doubt' => "crossed" \notin doubt
    BY <1>1
  <1>13. Forward'
    BY <1>1, <1>3, <1>4, <1>5, <1>7, <1>11, <1>12 DEF Forward
  <1> QED
    BY <1>6, <1>8, <1>9, <1>10, <1>13

LEMMA OpenStep == ASSUME SaveInv, NEW w \in Writers, OpenTmp(w) PROVE SaveInv'
  <1> USE DEF SaveInv
  <1>1. PICK i \in Inodes :
          /\ IF Tmp # NoInode THEN i = Tmp ELSE i # Target
          /\ entry' = [entry EXCEPT !["tmp"] = i]
          /\ text' = [text EXCEPT ![i] = Empty]
          /\ Step(w, "open", [writer[w] EXCEPT !.pc = "first", !.file = i])
    BY DEF OpenTmp, Tmp, Target
  <1> DEFINE new == [writer[w] EXCEPT !.pc = "first", !.file = i]
  <1>2. /\ new \in Writer /\ new.pc = "first" /\ new.file = i /\ new.alone = writer[w].alone
        /\ new.change = writer[w].change /\ new.body = writer[w].body
    BY DEF TypeOK, Writer, Steps, Saving
  <1> HIDE DEF new
  <1>3. /\ writer' = [writer EXCEPT ![w] = new] /\ writer[w].pc = "open"
        /\ UNCHANGED <<memory, told, saved, doubt>>
    BY <1>1 DEF OpenTmp, Step, new
  <1>4. Moves(w, new)
    BY <1>3, StepMoves
  <1>5. text' \in [Inodes -> Blocks] /\ entry' \in [{"tmp", "target"} -> Inodes \cup {NoInode}]
        /\ writer[w].change > 0
    BY <1>1, <1>3 DEF TypeOK, Blocks, Empty
  <1>6. TypeOK'
    BY <1>2, <1>3, <1>5, StepTyped DEF TypeOK
  <1>7. i # Target /\ Target' = Target /\ Tmp' = i
    BY <1>1 DEF Shape, TypeOK, Tmp, Target
  <1>8. Loaded' = Loaded /\ (TargetParses => TargetParses')
    BY <1>1, <1>7, SameFile DEF TypeOK, Target
  <1>9. CrashLeavesTheList' /\ AnsweredIsSaved' /\ Apart' /\ Forward'
    <2>1. writer[w].pc \in Saving /\ new.pc \in Saving
      BY <1>2, <1>3 DEF Saving
    <2>2. "crossed" \notin doubt => Loaded' = Loaded /\ TargetParses'
      BY <1>8 DEF CrashLeavesTheList
    <2> QED
      BY <1>2, <1>3, <2>1, <2>2, SavingStep
  <1>10. Shape'
    BY <1>2, <1>3, <1>4, <1>7 DEF Shape, Moves, Apart, Saving
  <1> QED
    BY <1>6, <1>9, <1>10

LEMMA BlockStep == ASSUME SaveInv, NEW w \in Writers, WriteFirst(w) \/ WriteSecond(w) PROVE SaveInv'
  <1> USE DEF SaveInv
  <1> DEFINE f == writer[w].file
             b == IF writer[w].pc = "first" THEN 1 ELSE 2
             new == IF writer[w].pc = "first" THEN [writer[w] EXCEPT !.pc = "second"]
                    ELSE [writer[w] EXCEPT !.pc = "rename", !.file = NoInode]
  <1>1. /\ writer[w].pc \in {"first", "second"} /\ f \in Inodes
        /\ writer' = [writer EXCEPT ![w] = new]
        /\ text' = [text EXCEPT ![f][b] = writer[w].body]
        /\ UNCHANGED <<memory, entry, told, saved, doubt>>
    BY DEF WriteFirst, WriteSecond, Step, TypeOK
  <1>2. /\ new \in Writer /\ new.alone = writer[w].alone
        /\ new.change = writer[w].change /\ new.body = writer[w].body
        /\ writer[w].pc = "first" => new.pc = "second" /\ new.file = f
        /\ writer[w].pc = "second" => new.pc = "rename" /\ new.file = NoInode
        /\ writer[w].body \in Nat
    BY <1>1 DEF TypeOK, Writer, Steps, Saving
  <1> HIDE DEF new, f
  <1>3. Moves(w, new)
    BY <1>1, StepMoves
  <1>4. /\ text' \in [Inodes -> Blocks] /\ text'[f][b] = writer[w].body
        /\ \A i \in Inodes : i # f => text'[i] = text[i]
        /\ b = 2 => text'[f][1] = text[f][1]
    BY <1>1, <1>2 DEF TypeOK, Blocks
  <1>5. TypeOK'
    <2>1. writer[w].change > 0
      BY <1>1 DEF TypeOK
    <2> QED
      BY <1>1, <1>2, <1>4, <2>1, StepTyped, StoreAssumption DEF TypeOK
  <1>6. writer[w].alone => f = Tmp /\ Tmp # Target
    BY <1>1, StoreAssumption DEF Shape, TypeOK, f
  <1>7. "crossed" \notin doubt => writer[w].alone
    BY <1>1 DEF Apart, Saving
  <1>8. "crossed" \notin doubt => Loaded' = Loaded /\ TargetParses'
    BY <1>1, <1>4, <1>6, <1>7, SameFile DEF TypeOK, Target, CrashLeavesTheList
  <1>9. CrashLeavesTheList' /\ AnsweredIsSaved' /\ Apart' /\ Forward'
    <2>1. writer[w].pc \in Saving /\ new.pc \in Saving
      BY <1>1, <1>2 DEF Saving
    <2> QED
      BY <1>1, <1>2, <1>8, <2>1, SavingStep
  <1>10. Shape'
    <2>1. Tmp' = Tmp /\ Target' = Target
      BY <1>1 DEF Tmp, Target
    <2>2. ASSUME NEW v \in Writers, writer'[v].alone, v # w PROVE FALSE
      BY <1>1, <1>3, <2>2 DEF Moves, Apart, Saving
    <2>3. ASSUME writer'[w].alone
          PROVE  /\ writer'[w].pc \in {"first", "second"} => writer'[w].file = Tmp
                 /\ writer'[w].pc = "second" => text'[Tmp][1] = writer'[w].body
                 /\ writer'[w].pc = "rename" =>
                      /\ Tmp # NoInode
                      /\ text'[Tmp][1] = writer'[w].body /\ text'[Tmp][2] = writer'[w].body
      <3>1. writer'[w] = new /\ writer[w].alone
        BY <1>2, <1>3, <2>3 DEF Moves
      <3>2. f = Tmp /\ f # NoInode
        BY <1>1, <1>6, <3>1, StoreAssumption
      <3>3. writer[w].pc = "second" => text[f][1] = writer[w].body
        BY <3>1, <3>2 DEF Shape
      <3> QED
        BY <1>1, <1>2, <1>4, <3>1, <3>2, <3>3
    <2> QED
      BY <2>1, <2>2, <2>3 DEF Shape
  <1> QED
    BY <1>5, <1>9, <1>10

LEMMA FailStep == ASSUME SaveInv, NEW w \in Writers, WriteFails(w) PROVE SaveInv'
  <1> USE DEF SaveInv
  <1>1. /\ writer[w].pc \in Saving /\ writer' = [writer EXCEPT ![w] = Idle]
        /\ UNCHANGED <<memory, entry, text, saved>>
        /\ \/ UNCHANGED <<told, doubt>>
           \/ told' = Newer(told, writer[w].change) /\ doubt' = doubt \cup {"dropped"}
    BY DEF WriteFails
  <1>2. Moves(w, Idle)
    BY <1>1, StepMoves
  <1>3. told' \in Nat /\ doubt' \in SUBSET Doubts /\ told' <= memory
    <2>1. writer[w].change \in Nat /\ writer[w].change <= memory /\ told \in Nat /\ told <= memory
      BY <1>1 DEF TypeOK, Writer, Forward, Saving
    <2>2. doubt' \in SUBSET Doubts
      BY <1>1 DEF TypeOK, Doubts
    <2> QED
      BY <1>1, <2>1, <2>2 DEF Newer
  <1>4. TypeOK'
    BY <1>1, <1>3, IdleTyped, StepTyped, StoreAssumption DEF TypeOK
  <1>5. Loaded' = Loaded /\ (TargetParses => TargetParses')
    BY <1>1, SameFile
  <1>6. ("crossed" \in doubt' <=> "crossed" \in doubt) /\ (doubt' = {} => doubt = {} /\ told' = told)
    BY <1>1
  <1>7. CrashLeavesTheList' /\ AnsweredIsSaved'
    BY <1>1, <1>5, <1>6 DEF CrashLeavesTheList, AnsweredIsSaved
  <1>8. \A v \in Writers : ~writer'[v].alone
    BY <1>1, <1>2, IdleTyped DEF Moves, Apart
  <1>9. Apart'
    BY <1>1, <1>2, <1>6, <1>8, IdleTyped DEF Moves, Apart, Saving
  <1>10. Shape' /\ Forward'
    BY <1>1, <1>2, <1>3, <1>5, <1>6, <1>8, IdleTyped DEF Moves, Shape, Forward, Tmp, Target
  <1> QED
    BY <1>4, <1>7, <1>9, <1>10

\* A rename that nobody crossed makes the file the text of the save.
LEMMA RenameLoads ==
  ASSUME SaveInv, NEW w \in Writers, Rename(w), writer[w].alone
  PROVE  /\ Loaded' = writer[w].body /\ TargetParses'
         /\ doubt' = {} /\ writer[w].body \in Nat \ {0}
         /\ "crossed" \notin doubt => Loaded <= writer[w].body
         /\ told' <= writer[w].body /\ saved' <= writer[w].body
  <1>1. /\ writer[w].pc = "rename" /\ Tmp \in Inodes /\ writer[w].body \in Nat
        /\ text[Tmp][1] = writer[w].body /\ text[Tmp][2] = writer[w].body
        /\ writer[w].change \in Nat /\ writer[w].change > 0
    BY DEF Rename, Step, SaveInv, Shape, TypeOK, Tmp, Writer
  <1>2. /\ writer[w].change <= writer[w].body /\ told <= writer[w].body /\ saved <= writer[w].body
        /\ "crossed" \notin doubt => Loaded <= writer[w].body
    BY DEF SaveInv, Forward
  <1>3. entry'["target"] = Tmp /\ text' = text /\ doubt' = {}
        /\ told' = Newer(told, writer[w].change) /\ saved' = Newer(saved, writer[w].change)
    BY DEF Rename, Tmp
  <1> QED
    BY <1>1, <1>2, <1>3, StoreAssumption DEF Loaded, TargetParses, Whole, Newer

LEMMA RenameStep == ASSUME SaveInv, NEW w \in Writers, Rename(w) PROVE SaveInv'
  <1> USE DEF SaveInv
  <1>1. /\ writer[w].pc = "rename" /\ writer' = [writer EXCEPT ![w] = Idle]
        /\ entry' = [tmp |-> NoInode, target |-> Tmp] /\ Tmp \in Inodes
        /\ told' = Newer(told, writer[w].change) /\ saved' = Newer(saved, writer[w].change)
        /\ doubt' = (IF writer[w].alone THEN {} ELSE doubt) /\ UNCHANGED <<memory, text>>
    BY DEF Rename, Step, TypeOK, Tmp
  <1>2. Moves(w, Idle)
    BY <1>1, StepMoves
  <1>3. told' \in Nat /\ told' <= memory /\ saved' \in Nat /\ saved' <= memory /\ doubt' \in SUBSET Doubts
    BY <1>1 DEF TypeOK, Writer, Newer, Forward
  <1>4. TypeOK'
    BY <1>1, <1>3, IdleTyped, StepTyped, StoreAssumption DEF TypeOK
  <1>5. "crossed" \notin doubt' => writer[w].alone
    BY <1>1 DEF Apart, Saving
  <1>6. doubt' = {} => writer[w].alone
    BY <1>5
  <1>7. writer[w].alone =>
          /\ Loaded' = writer[w].body /\ TargetParses' /\ told' <= writer[w].body
          /\ saved' <= writer[w].body /\ writer[w].body <= memory
    BY RenameLoads DEF Forward
  <1>8. CrashLeavesTheList' /\ AnsweredIsSaved'
    BY <1>5, <1>6, <1>7 DEF CrashLeavesTheList, AnsweredIsSaved
  <1>9. \A v \in Writers : ~writer'[v].alone
    BY <1>1, <1>2, IdleTyped DEF Moves, Apart, Saving
  <1>10. Apart'
    BY <1>1, <1>2, <1>5, <1>9, IdleTyped DEF Moves, Apart, Saving
  <1>11. Shape' /\ Forward'
    BY <1>1, <1>2, <1>3, <1>5, <1>7, <1>9, IdleTyped DEF Moves, Shape, Forward, Tmp, Target
  <1> QED
    BY <1>4, <1>8, <1>10, <1>11

LEMMA RestartStep == ASSUME SaveInv, Restart PROVE SaveInv'
  <1> USE DEF SaveInv
  <1>1. /\ memory' = Loaded /\ writer' = [w \in Writers |-> Idle]
        /\ told' = (IF doubt = {} THEN told ELSE Older(told, Loaded))
        /\ saved' = (IF "crossed" \in doubt THEN Older(saved, Loaded) ELSE saved)
        /\ UNCHANGED <<entry, text, doubt>>
    BY DEF Restart, Started
  <1>2. Loaded \in Nat /\ told \in Nat /\ saved \in Nat
    BY LoadedNat DEF TypeOK
  <1>3. /\ told' \in Nat /\ saved' \in Nat /\ told' <= Loaded /\ saved' <= Loaded
        /\ doubt = {} => told' = told
    BY <1>1, <1>2 DEF Older, AnsweredIsSaved
  <1>4. \A w \in Writers : writer'[w] = Idle
    BY <1>1
  <1>5. TypeOK'
    BY <1>1, <1>2, <1>3, IdleTyped, StoreAssumption DEF TypeOK
  <1>6. Loaded' = Loaded /\ (TargetParses => TargetParses')
    BY <1>1, SameFile
  <1>7. CrashLeavesTheList' /\ AnsweredIsSaved'
    BY <1>1, <1>3, <1>6 DEF CrashLeavesTheList, AnsweredIsSaved
  <1>8. Apart' /\ Shape' /\ Forward'
    BY <1>1, <1>2, <1>3, <1>4, <1>6, IdleTyped DEF Apart, Shape, Forward, Saving, Tmp, Target
  <1> QED
    BY <1>5, <1>7, <1>8

LEMMA SaveStep == ASSUME SaveInv, [Next]_vars PROVE SaveInv'
  <1>1. CASE UNCHANGED vars
    BY <1>1 DEF vars, SaveInv, TypeOK, CrashLeavesTheList, TargetParses, AnsweredIsSaved, Apart,
                Shape, Forward, Loaded, Whole, Tmp, Target
  <1> QED
    BY <1>1, ChangeStep, SerialiseStep, OpenStep, BlockStep, FailStep, RenameStep, RestartStep
    DEF Next, Save

LEMMA SaveInvHolds == Spec => []SaveInv
  <1>1. SaveInv /\ [Next]_vars => SaveInv'
    BY SaveStep
  <1> QED
    BY InitSaveInv, <1>1, PTL DEF Spec

-----------------------------------------------------------------------------
(* However saves overlap, from a save that nobody crossed to the next two  *)
(* that cross the file on disk parses at every moment the process could    *)
(* stop: UserStore::save, TokenStore::save, PinStore::save.                *)
THEOREM CrashLeavesAListThatParses == Spec => []CrashLeavesTheList
  <1>1. SaveInv => CrashLeavesTheList
    BY DEF SaveInv
  <1> QED
    BY SaveInvHolds, <1>1, PTL

(* A change whose save went through survives every later change, failed    *)
(* save and restart, until two saves cross; a change of a pin whose save   *)
(* failed unheard is in the file from the next save that goes through; and *)
(* one save that nobody crosses brings back what crossing ones lost.       *)
THEOREM SavedChangesSurvive == Spec => []AnsweredIsSaved
  <1>1. SaveInv => AnsweredIsSaved
    BY DEF SaveInv
  <1> QED
    BY SaveInvHolds, <1>1, PTL

(* The steps of save(), its failures and a stop between any two of them    *)
(* implement an atomic cell for any number of threads: the rename is the   *)
(* one step at which the cell takes the list, and takes it whole, and      *)
(* every other step of a save leaves the cell as it was, but for saves     *)
(* that cross, which the cell allows for.                                  *)
THEOREM SavesImplementACell == Spec => SavesAreAtomic
  <1>1. Init => Cell!CellInit
    BY DEF Init, Cell!CellInit, Loaded
  <1>2. SaveInv /\ SaveInv' /\ [Next]_vars
          => [Cell!Edit \/ Cell!Store \/ Cell!Mix \/ Cell!Start]_(Cell!cellVars)
    <2> SUFFICES ASSUME SaveInv, SaveInv', [Next]_vars
                 PROVE  Cell!Edit \/ Cell!Store \/ Cell!Mix \/ Cell!Start \/ UNCHANGED Cell!cellVars
      OBVIOUS
    <2>1. /\ Loaded' \in Nat /\ saved \in Nat /\ saved' \in Nat /\ memory \in Nat
          /\ saved' <= memory'
      <3>1. Loaded' \in Nat
        BY DEF SaveInv, TypeOK, Blocks, Loaded
      <3> QED
        BY <3>1 DEF SaveInv, TypeOK, Forward
    <2>2. ASSUME NEW w \in Writers, Change(w) PROVE Cell!Edit
      <3>1. Loaded' = Loaded
        BY <2>2, SameFile DEF Change, SaveInv
      <3> QED
        BY <2>2, <3>1 DEF Change, Cell!Edit
    <2>3. ASSUME NEW w \in Writers, Save(w) PROVE memory' = memory /\ saved <= saved'
      <3>1. CASE Rename(w)
        <4>1. saved' = Newer(saved, writer[w].change) /\ writer[w].change \in Nat
          BY <3>1 DEF Rename, SaveInv, TypeOK, Writer
        <4> QED
          BY <2>1, <3>1, <4>1 DEF Rename, Newer
      <3>2. ~Rename(w) => memory' = memory /\ saved' = saved
        BY <2>3 DEF Save, Serialise, Texted, OpenTmp, WriteFirst, WriteSecond, WriteFails
      <3> QED
        BY <2>1, <3>1, <3>2
    <2>4. ASSUME NEW w \in Writers, Save(w), "crossed" \in doubt' PROVE Cell!Mix
      BY <2>1, <2>3, <2>4 DEF Cell!Mix
    <2>5. ASSUME NEW w \in Writers, Rename(w), "crossed" \notin doubt' PROVE Cell!Store
      <3>1. writer[w].alone
        BY <2>5 DEF Rename, Step, SaveInv, Apart, Saving
      <3>2. writer[w].body <= memory
        BY <3>1 DEF SaveInv, Forward
      <3> QED
        BY <2>1, <2>3, <2>5, <3>1, <3>2, RenameLoads DEF Save, Cell!Store
    <2>6. ASSUME NEW w \in Writers, Save(w), ~Rename(w), "crossed" \notin doubt'
          PROVE  UNCHANGED Cell!cellVars
      <3>1. "crossed" \notin doubt /\ saved' = saved
        BY <2>6 DEF Save, Serialise, Texted, OpenTmp, WriteFirst, WriteSecond, WriteFails
      <3>2. Loaded' = Loaded
        <4>1. CASE Serialise(w) \/ WriteFails(w)
          BY <4>1, SameFile DEF Serialise, Texted, WriteFails, SaveInv
        <4>2. CASE OpenTmp(w)
          BY <4>2, SameFile DEF OpenTmp, SaveInv, Shape, TypeOK, Tmp, Target
        <4>3. CASE WriteFirst(w) \/ WriteSecond(w)
          <5>1. writer[w].alone /\ writer[w].file \in Inodes /\ writer[w].pc \in {"first", "second"}
            BY <3>1, <4>3 DEF WriteFirst, WriteSecond, Step, SaveInv, Apart, Saving, TypeOK
          <5>2. writer[w].file = Tmp /\ Tmp # Target
            BY <5>1, StoreAssumption DEF SaveInv, Shape
          <5> QED
            BY <4>3, <5>1, <5>2, SameFile DEF WriteFirst, WriteSecond, SaveInv, TypeOK, Target
        <4> QED
          BY <2>6, <4>1, <4>2, <4>3 DEF Save
      <3> QED
        BY <2>3, <2>6, <3>1, <3>2 DEF Cell!cellVars
    <2>7. CASE Restart
      <3>1. Loaded' = Loaded
        BY <2>7, SameFile DEF Restart, Started, SaveInv
      <3> QED
        BY <2>7, <3>1 DEF Restart, Started, Older, Cell!Start
    <2>8. CASE UNCHANGED vars
      BY <2>8 DEF vars, Loaded, Whole, Cell!cellVars
    <2> QED
      BY <2>2, <2>4, <2>5, <2>6, <2>7, <2>8 DEF Next
  <1> QED
    BY SaveInvHolds, <1>1, <1>2, PTL DEF SavesAreAtomic, Spec, Cell!CellSpec

(* Every reachable state is well typed; a thread holds a file open exactly *)
(* while it writes.                                                        *)
THEOREM SaveTypeCorrect == Spec => []TypeOK
  <1>1. SaveInv => TypeOK
    BY DEF SaveInv
  <1> QED
    BY SaveInvHolds, <1>1, PTL

=============================================================================
