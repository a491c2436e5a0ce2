----------------------------- MODULE StoreFile ------------------------------
(***************************************************************************)
(* How a store of the core reaches its file: UserStore::save (users.json), *)
(* TokenStore::save (tokens.json) and PinStore::save (pins.json) are the   *)
(* same protocol.  A change is made to the list in memory under the write  *)
(* lock; after the lock is released the list is serialised under the read  *)
(* lock, written to one temporary file beside the target, whatever thread  *)
(* writes it, and renamed over the target.  Nothing keeps two saves apart. *)
(* The process may stop between any two of these steps; the next start     *)
(* reads the target, and takes a file it cannot parse for an empty list.   *)
(* A save that fails is an error to the callers of the accounts and of     *)
(* TOKEN_CREATE and TOKEN_REVOKE; the pins, and the last use of a token,   *)
(* drop it (quiet).                                                        *)
(*                                                                         *)
(* Data left out: the list is the number of changes it has seen, and its   *)
(* text is two blocks, which a parser accepts when both come from the same *)
(* serialisation.                                                          *)
(***************************************************************************)
EXTENDS Naturals, TLC

CONSTANTS
  Writers,    \* threads that may be saving at the same time
  Inodes,     \* files, named or only held open
  NoInode,    \* the value of a directory entry or handle that is not there
  MaxChanges  \* bound on the changes of a behaviour

ASSUME StoreAssumption ==
  /\ NoInode \notin Inodes
  /\ MaxChanges \in Nat

VARIABLES
  memory,   \* the list in memory, as the number of changes it has seen
  entry,    \* the directory: entry.tmp and entry.target
  text,     \* inode -> its two blocks; 0 is a block not written
  writer,   \* what each thread is doing
  told,     \* history: the newest change whose caller was told all is well
  saved,    \* history: the newest change whose save went through
  doubt     \* history: what happened to a save since one went through alone

\* Threads and files are alike.
Symmetry == Permutations(Writers) \cup Permutations(Inodes)

vars == <<memory, entry, text, writer, told, saved, doubt>>

(***************************************************************************)
(* Two saves cross when one makes its text before the other has renamed;   *)
(* one is dropped when it fails and its caller is not told.                *)
(***************************************************************************)
Doubts == {"crossed", "dropped"}

Saving == {"open", "first", "second", "rename"}
Steps == {"idle", "serialise"} \cup Saving
Writer == [pc : Steps, change : Nat, body : Nat, file : Inodes \cup {NoInode},
           quiet : BOOLEAN,   \* nobody hears of a failure
           alone : BOOLEAN]   \* history: no other save has crossed this one
Idle == [pc |-> "idle", change |-> 0, body |-> 0, file |-> NoInode,
         quiet |-> FALSE, alone |-> FALSE]

Blocks == [1..2 -> Nat]
Empty  == [b \in 1..2 |-> 0]

\* The types of the state; a writer has a file open exactly while it writes.
TypeOK ==
  /\ memory \in Nat
  /\ entry \in [{"tmp", "target"} -> Inodes \cup {NoInode}]
  /\ text \in [Inodes -> Blocks]
  /\ writer \in [Writers -> Writer]
  /\ \A w \in Writers : /\ writer[w].pc \in {"first", "second"} <=> writer[w].file \in Inodes
                        /\ writer[w].pc # "idle" => writer[w].change > 0
  /\ told \in Nat /\ saved \in Nat
  /\ doubt \in SUBSET Doubts

Init ==
  /\ memory = 0
  /\ entry = [e \in {"tmp", "target"} |-> NoInode]
  /\ text = [i \in Inodes |-> Empty]
  /\ writer = [w \in Writers |-> Idle]
  /\ told = 0 /\ saved = 0 /\ doubt = {}

Step(w, from, new) == /\ writer[w].pc = from
                      /\ writer' = [writer EXCEPT ![w] = new]

\* add_inner, remove, set_role, set_password; create, revoke, verify;
\* trust_cert, untrust_cert, trust_hostkey, untrust_hostkey.
Change(w) ==
  /\ memory < MaxChanges
  /\ memory' = memory + 1
  /\ \E quiet \in BOOLEAN :
       Step(w, "idle", [pc |-> "serialise", change |-> memory + 1, body |-> 0, file |-> NoInode,
                        quiet |-> quiet, alone |-> FALSE])
  /\ UNCHANGED <<entry, text, told, saved, doubt>>

\* The threads in the middle of a save, but for w.
Others(w) == {v \in Writers \ {w} : writer[v].pc \in Saving}

\* w makes its text of the list as the change n left it.
Texted(w, n) ==
  /\ writer[w].pc = "serialise"
  /\ writer' = [v \in Writers |->
       IF v = w THEN [writer[w] EXCEPT !.pc = "open", !.body = n, !.alone = Others(w) = {}]
       ELSE [writer[v] EXCEPT !.alone = FALSE]]
  /\ doubt' = IF Others(w) = {} THEN doubt ELSE doubt \cup {"crossed"}
  /\ UNCHANGED <<memory, entry, text, told, saved>>

\* Mutant of Serialise: the text is made before the change.
SerialiseBefore(w) == Texted(w, memory - 1)

Serialise(w) == Texted(w, memory)

\* Mutant of OpenTmp: no temporary file, the target is written in place.
OpenTarget(w) ==
  /\ \E i \in Inodes :
       /\ IF entry["target"] # NoInode THEN i = entry["target"]
          ELSE i # entry["tmp"] /\ \A v \in Writers : writer[v].file # i
       /\ entry' = [entry EXCEPT !["target"] = i, !["tmp"] = i]
       /\ text' = [text EXCEPT ![i] = Empty]
       /\ Step(w, "open", [writer[w] EXCEPT !.pc = "first", !.file = i])
  /\ UNCHANGED <<memory, told, saved, doubt>>

\* fs::write(tmp): create or truncate, then write the blocks in order.  The
\* handle keeps the inode whatever becomes of its name.
OpenTmp(w) ==
  /\ \E i \in Inodes :
       /\ IF entry["tmp"] # NoInode THEN i = entry["tmp"]
          ELSE i # entry["target"] /\ \A v \in Writers : writer[v].file # i
       /\ entry' = [entry EXCEPT !["tmp"] = i]
       /\ text' = [text EXCEPT ![i] = Empty]
       /\ Step(w, "open", [writer[w] EXCEPT !.pc = "first", !.file = i])
  /\ UNCHANGED <<memory, told, saved, doubt>>

WriteFirst(w) ==
  /\ Step(w, "first", [writer[w] EXCEPT !.pc = "second"])
  /\ text' = [text EXCEPT ![writer[w].file][1] = writer[w].body]
  /\ UNCHANGED <<memory, entry, told, saved, doubt>>

WriteSecond(w) ==
  /\ Step(w, "second", [writer[w] EXCEPT !.pc = "rename", !.file = NoInode])
  /\ text' = [text EXCEPT ![writer[w].file][2] = writer[w].body]
  /\ UNCHANGED <<memory, entry, told, saved, doubt>>

Newer(a, b) == IF a > b THEN a ELSE b
Older(a, b) == IF a > b THEN b ELSE a

(***************************************************************************)
(* The disk is full, the directory read-only, the rename refused: the save *)
(* ends there, and a caller that is not told of it takes it for done.      *)
(***************************************************************************)
WriteFails(w) ==
  /\ writer[w].pc \in Saving
  /\ writer' = [writer EXCEPT ![w] = Idle]
  /\ IF writer[w].quiet
       THEN told' = Newer(told, writer[w].change) /\ doubt' = doubt \cup {"dropped"}
       ELSE UNCHANGED <<told, doubt>>
  /\ UNCHANGED <<memory, entry, text, saved>>

\* rename(tmp, target): whatever tmp names by now.
Rename(w) ==
  /\ entry["tmp"] # NoInode
  /\ Step(w, "rename", Idle)
  /\ entry' = [tmp |-> NoInode, target |-> entry["tmp"]]
  /\ told' = Newer(told, writer[w].change)
  /\ saved' = Newer(saved, writer[w].change)
  /\ doubt' = IF writer[w].alone THEN {} ELSE doubt
  /\ UNCHANGED <<memory, text>>

Whole(i) == text[i][1] = text[i][2] /\ text[i][1] # 0

\* What open() makes of the file: a list that does not parse is no list.
Loaded == IF entry["target"] = NoInode THEN 0
          ELSE IF Whole(entry["target"]) THEN text[entry["target"]][1] ELSE 0

\* The next start reads list n.  What its callers were told in vain is lost with the memory.
Started(n) ==
  /\ memory' = n
  /\ writer' = [w \in Writers |-> Idle]
  /\ told' = IF doubt = {} THEN told ELSE Older(told, n)
  /\ saved' = IF "crossed" \in doubt THEN Older(saved, n) ELSE saved
  /\ UNCHANGED <<entry, text, doubt>>

\* Mutant of Restart: the start does not find the file it left.
RestartEmpty == Started(0)

Restart == Started(Loaded)

Save(w) == \/ Serialise(w) \/ OpenTmp(w) \/ WriteFirst(w) \/ WriteSecond(w)
           \/ WriteFails(w) \/ Rename(w)

Next == (\E w \in Writers : Change(w) \/ Save(w)) \/ Restart

Spec == Init /\ [][Next]_vars

-----------------------------------------------------------------------------
(* "A crash mid-write must not leave an accounts file that locks everybody *)
(* out" (UserStore::save): the target always parses.  Two saves at once    *)
(* share the temporary file and break it: the run store_file_race.         *)
TargetParses == entry["target"] # NoInode => Whole(entry["target"])

(* At every moment the process could stop the target parses, from the      *)
(* start, or from a save that nobody crossed, to the next two that cross.  *)
CrashLeavesTheList == "crossed" \notin doubt => TargetParses

(* A change whose save went through is in the file, through every later    *)
(* change, failed save and restart, and so is one whose save failed and    *)
(* whose caller was told nothing of it, from the next save that goes       *)
(* through, if the process has not stopped before.  A save that nobody     *)
(* crosses puts right what crossing ones have left.                        *)
AnsweredIsSaved ==
  /\ "crossed" \notin doubt => saved <= Loaded
  /\ doubt = {} => told <= Loaded

Cell == INSTANCE AtomicCell WITH list <- memory, cell <- Loaded, promised <- saved,
                                 mixed <- "crossed" \in doubt

(* Whatever stops or fails between them, the steps of a save come to one   *)
(* step of a cell, at the rename (AtomicCell): what a start reads is the   *)
(* list as it was when the text was made, never an older one than before,  *)
(* and nothing else, save while two crossed and none went through since.   *)
SavesAreAtomic == Cell!CellSpec

=============================================================================
