---------------------------- MODULE ConfigEditor -----------------------------
(***************************************************************************)
(* Changing the config from the pages (ui/config-editor.js).  A dialog     *)
(* takes the raw config once, when it opens; Save changes that object,     *)
(* and then writes whatever config is in service at that moment.  Between  *)
(* the two a reload may have put another object in service.  Secrets are   *)
(* sealed under the master password of this session, which is asked for    *)
(* when there is none and checked against nothing.                         *)
(*                                                                         *)
(* A config is, for each cluster name, None or the master its secret is    *)
(* sealed under.                                                           *)
(***************************************************************************)
CONSTANTS
  Name,       \* clusters an operator may add
  Master,     \* master passwords a person may type
  None

VARIABLES
  file,       \* the JSON file
  raw,        \* state.config.raw, the config in service
  master,     \* masterInMemory
  dialog,     \* None, or the editor that is open and the config it took
  saving,     \* saveRaw under way: the write to come, or the reading back
  saved,      \* history: what the last change of each name made of it, if it was saved
  loose,      \* history: names whose save was reported as failed, or changed on a config
              \* that was out of service
  others,     \* history: somebody else has written the file
  guessed     \* history: a master password was taken that opens none of the secrets there are

vars == <<file, raw, master, dialog, saving, saved, loose, others, guessed>>

Masters(cs) == {cs[n] : n \in Name} \ {None}
Single(cs) == \A m, k \in Masters(cs) : m = k

Empty == [n \in Name |-> None]

Init ==
  /\ file \in {cs \in [Name -> {None} \cup Master] : Single(cs)}
  /\ raw = file /\ master = None /\ dialog = None /\ saving = None
  /\ saved = [n \in Name |-> None] /\ loose = {} /\ others = FALSE /\ guessed = FALSE

\* editCluster, to add a name or to remove one: the object is taken here.
Open(n) ==
  /\ dialog = None /\ saving = None
  /\ dialog' = [name |-> n, own |-> None, to |-> IF raw[n] = None THEN "in" ELSE "out"]
  /\ UNCHANGED <<file, raw, master, saving, saved, loose, others, guessed>>

Cancel ==
  /\ dialog # None /\ saving = None
  /\ dialog' = None
  /\ UNCHANGED <<file, raw, master, saving, saved, loose, others, guessed>>

\* The config a dialog works on: the one in service, or the one that was when it opened.
Held == IF dialog.own = None THEN raw ELSE dialog.own

\* setConfig puts cs in service; an open dialog keeps what it had.
InService(cs) ==
  /\ raw' = cs
  /\ dialog' = IF dialog = None THEN None ELSE [dialog EXCEPT !.own = Held]

\* The window gets the focus back after the file has changed.
Focused ==
  /\ raw # file
  /\ InService(file)
  /\ UNCHANGED <<file, master, saving, saved, loose, others, guessed>>

-----------------------------------------------------------------------------
\* unlockSealed: one master password opens everything, or nothing is opened with it.
Unlock(m) ==
  /\ master = None /\ Masters(raw) # {} /\ Masters(raw) = {m}
  /\ master' = m
  /\ UNCHANGED <<file, raw, dialog, saving, saved, loose, others, guessed>>

\* Mutant of Sealing: the password is asked for every secret.
SealingAfresh(m) ==
  /\ master' = m
  /\ guessed' = (guessed \/ (master = None /\ ~(Masters(raw) \cup Masters(file) \subseteq {m})))

\* seal: under the master of this session, or one asked for now, which becomes it.  Asked
\* twice where nothing is sealed yet, and once where something is; opened with it nothing.
Sealing(m) ==
  /\ master \in {None, m}
  /\ master' = m
  /\ guessed' = (guessed \/ ~(Masters(raw) \cup Masters(file) \subseteq {m}))

\* The dialog's object becomes cs, and that of the config in service if it is the same.
Changed(cs) ==
  /\ IF dialog.own = None THEN raw' = cs /\ UNCHANGED dialog
     ELSE dialog' = [dialog EXCEPT !.own = cs] /\ UNCHANGED raw
  /\ saved' = [saved EXCEPT ![dialog.name] = None]

\* Save: a name that is taken is refused, among them the one a failed save left behind.
Save(m) ==
  /\ dialog # None /\ saving = None
  /\ dialog.to = "in" /\ Held[dialog.name] = None
  /\ Sealing(m)
  /\ Changed([Held EXCEPT ![dialog.name] = m])
  /\ saving' = "write"
  /\ UNCHANGED <<file, loose, others>>

\* Remove, confirmed; a second press removes nothing more and writes again.
Remove ==
  /\ dialog # None /\ saving = None /\ dialog.to = "out"
  /\ Changed([Held EXCEPT ![dialog.name] = None])
  /\ saving' = "write"
  /\ UNCHANGED <<file, master, loose, others, guessed>>

Failed ==
  /\ saving' = None
  /\ loose' = loose \cup {dialog.name}
  /\ UNCHANGED <<raw, dialog, saved>>

\* Mutant of Write: what the core answers is not looked at.
WriteUnchecked ==
  /\ saving = "write"
  /\ file' \in {raw, file} /\ saving' = "read"
  /\ UNCHANGED <<raw, dialog, saved, loose, master, others, guessed>>

\* CONFIG_WRITE, of the config in service.
Write ==
  /\ saving = "write"
  /\ \/ file' = raw /\ saving' = "read" /\ UNCHANGED <<raw, dialog, saved, loose>>
     \/ UNCHANGED file /\ Failed
  /\ UNCHANGED <<master, others, guessed>>

\* readPath, setConfig: the raw object stays the one that was written.
ReadBack ==
  /\ saving = "read"
  /\ \/ /\ saving' = None /\ dialog' = None
        /\ saved' = [saved EXCEPT ![dialog.name] = dialog.to]
        /\ loose' = IF dialog.own = None THEN loose ELSE loose \cup {dialog.name}
        /\ UNCHANGED raw
     \/ Failed
  /\ UNCHANGED <<file, master, others, guessed>>

\* Another operator's page, or an editor on the machine.
WrittenElsewhere(cs) ==
  /\ ~others /\ cs # file /\ \A m, k \in Masters(cs) \cup Masters(file) : m = k
  /\ file' = cs /\ others' = TRUE
  /\ UNCHANGED <<raw, master, dialog, saving, saved, loose, guessed>>

Next ==
  \/ \E n \in Name : Open(n)
  \/ \E m \in Master : Save(m) \/ Unlock(m)
  \/ Cancel \/ Focused \/ Remove \/ Write \/ ReadBack
  \/ \E cs \in [Name -> {None} \cup Master] : WrittenElsewhere(cs)

Spec == Init /\ [][Next]_vars

-----------------------------------------------------------------------------
(***************************************************************************)
(* A dialog that closed as saved has done to the file what it said, and    *)
(* no later one undoes it.  Three things alone do: somebody else's write;  *)
(* a reload while the dialog was open, after which it changes a config     *)
(* nobody writes; and a save that was reported as failed, whose change     *)
(* stays in memory and goes out with the next one.                         *)
(***************************************************************************)
SavedMeansWritten ==
  ~others => \A n \in Name \ loose :
    /\ saved[n] = "in" => file[n] # None
    /\ saved[n] = "out" => file[n] = None

(***************************************************************************)
(* One master password opens every secret of the file, as unlocking needs  *)
(* it to (a single value that does not open stops it), unless one was once *)
(* sealed under a password that opened none of those already there.        *)
(***************************************************************************)
OneMasterOpensAll == ~guessed => Single(file)

-----------------------------------------------------------------------------
(* The inductive invariants behind them (ConsoleProofs). *)
Config == [Name -> {None} \cup Master]
Editor == [name : Name, own : {None} \cup Config, to : {"in", "out"}]
Typed ==
  /\ file \in Config /\ raw \in Config /\ saved \in [Name -> {None, "in", "out"}]
  /\ dialog # None => dialog \in Editor
  /\ saving \in {None, "write", "read"} /\ (saving # None => dialog # None)

\* What cs must have of a name that was put in, or taken out.
Has(cs, n, to) == IF to = "in" THEN cs[n] # None ELSE to = "out" => cs[n] = None

\* A change in the config that is in service is in it when it is written, and what was saved
\* is in both, so that neither a write nor a reload undoes it.
SavedInv ==
  /\ Typed
  /\ saving # None /\ dialog.own = None => Has(raw, dialog.name, dialog.to)
  /\ saving = "read" /\ dialog.own = None /\ ~others => Has(file, dialog.name, dialog.to)
  /\ ~others => \A n \in Name \ loose : Has(raw, n, saved[n]) /\ Has(file, n, saved[n])

\* Neither the file nor what is in service, which may be written over it, has two masters.
MastersInv == ~guessed => Single(raw) /\ Single(file)
=============================================================================
