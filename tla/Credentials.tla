----------------------------- MODULE Credentials -----------------------------
(***************************************************************************)
(* Which credential each cluster is reached with.  The file may hold one   *)
(* in the clear, one sealed under a master password, or none; the operator *)
(* may type one for the session, or have one remembered in the OS vault.   *)
(* The config can be reloaded while a master password is being tried or    *)
(* the vault is being asked, and neither looks whether it was.             *)
(***************************************************************************)
CONSTANTS Cluster, None

VARIABLES
  file,        \* what the config in service holds for each cluster
  conf,        \* state.config.clusters: how each one is reached
  typed,       \* state.js: sessionCred
  vault,       \* external: what the OS vault remembers for this config
  opening,     \* unlockSealed under way: the sealed values it set out with
  seeking,     \* tryVaultCredential under way
  outdated,    \* history: clusters an unlocking stamped after their file had changed
  overridden   \* history: clusters a typed credential was meant to take from the file

vars == <<file, conf, typed, vault, opening, seeking, outdated, overridden>>

Holds == {"own", "sealedA", "sealedB", "bare"}
Opened == [sealedA |-> "openA", sealedB |-> "openB"]
Typed == {"x", "y"}

Stamp(header, source) == [header |-> header, source |-> source, needs |-> FALSE, anonymous |-> FALSE]
Unusable == [header |-> None, source |-> "none", needs |-> TRUE, anonymous |-> FALSE]

\* normalize: a sealed secret is not usable until the master password opens it.
Parsed(f) == [c \in Cluster |-> IF f[c] = "own" THEN Stamp("own", "file") ELSE Unusable]

\* Mutant of Applied: a cluster that already has the typed credential keeps it.
AppliedOnce(cs, cred, overrideAll) ==
  [c \in Cluster |-> IF cred # None /\ (cs[c].needs \/ overrideAll)
                     THEN Stamp(cred, "session") ELSE cs[c]]

\* applySessionCredential
Applied(cs, cred, overrideAll) ==
  [c \in Cluster |-> IF cred # None /\ (cs[c].needs \/ cs[c].source = "session" \/ overrideAll)
                     THEN Stamp(cred, "session") ELSE cs[c]]

Needing == {c \in Cluster : conf[c].needs /\ ~conf[c].anonymous}

\* Start, a reload or a save: setConfig.
Init ==
  /\ file \in [Cluster -> Holds] /\ conf = Parsed(file)
  /\ typed = None /\ vault \in {None, "x"}
  /\ opening = <<>> /\ seeking = FALSE /\ outdated = {} /\ overridden = {}

SetConfig(f) ==
  /\ file' = f
  /\ conf' = Applied(Parsed(f), typed, FALSE)
  /\ outdated' = {} /\ overridden' = {}
  /\ UNCHANGED <<typed, vault, opening, seeking>>

\* unlockSealed: by hand, or with the master password of this session.
Unlock ==
  /\ opening = <<>>
  /\ LET sealed == {c \in Cluster : file[c] \in DOMAIN Opened /\ conf[c].needs}
     IN  sealed # {} /\ opening' = [c \in sealed |-> file[c]]
  /\ UNCHANGED <<file, conf, typed, vault, seeking, outdated, overridden>>

\* tryMaster, answered: every value opens and every cluster is stamped, or none is.
Unlocked ==
  /\ opening # <<>>
  /\ opening' = <<>>
  /\ \/ /\ conf' = [c \in Cluster |-> IF c \in DOMAIN opening
                                      THEN Stamp(Opened[opening[c]], "file") ELSE conf[c]]
        /\ outdated' = (outdated \ DOMAIN opening)
                         \cup {c \in DOMAIN opening : file[c] # opening[c]}
        /\ overridden' = overridden \ DOMAIN opening
     \/ UNCHANGED <<conf, outdated, overridden>>
  /\ UNCHANGED <<file, typed, vault, seeking>>

-----------------------------------------------------------------------------
SetSessionCredential(cred, overrideAll) ==
  /\ typed' = cred
  /\ conf' = Applied(conf, cred, overrideAll)
  /\ overridden' = IF overrideAll THEN Cluster ELSE overridden
  /\ UNCHANGED <<file, opening, outdated>>

\* The dialog's Connect: remembered or forgotten before anybody has tried it.
Connect(cred, overrideAll, remember) ==
  /\ SetSessionCredential(cred, overrideAll)
  /\ vault' = IF remember THEN cred ELSE None
  /\ UNCHANGED seeking

\* tryVaultCredential, at start and after a reload, when something is missing.
Seek ==
  /\ ~seeking /\ Needing # {} /\ seeking' = TRUE
  /\ UNCHANGED <<file, conf, typed, vault, opening, outdated, overridden>>

Found ==
  /\ seeking /\ seeking' = FALSE
  /\ \/ vault # None /\ SetSessionCredential(vault, FALSE)
     \/ UNCHANGED <<file, conf, typed, opening, outdated, overridden>>
  /\ UNCHANGED vault

ContinueAnonymously ==
  /\ Needing # {}
  /\ conf' = [c \in Cluster |-> [conf[c] EXCEPT !.anonymous = @ \/ conf[c].needs]]
  /\ UNCHANGED <<file, typed, vault, opening, seeking, outdated, overridden>>

\* The credential of the file, where an override had replaced it, does not come back.
ClearSessionCredential ==
  /\ typed # None /\ typed' = None
  /\ conf' = [c \in Cluster |-> IF conf[c].source = "session" THEN Unusable ELSE conf[c]]
  /\ UNCHANGED <<file, vault, opening, seeking, outdated, overridden>>

Next ==
  \/ \E f \in [Cluster -> Holds] : SetConfig(f)
  \/ Unlock \/ Unlocked \/ Seek \/ Found
  \/ \E cred \in Typed, overrideAll \in BOOLEAN, remember \in BOOLEAN :
       Connect(cred, overrideAll, remember)
  \/ ContinueAnonymously \/ ClearSessionCredential

Spec == Init /\ [][Next]_vars

-----------------------------------------------------------------------------
(***************************************************************************)
(* No cluster is reached with a credential nobody meant for it.  A typed   *)
(* one is everywhere the same, is gone once it is cleared, and replaces    *)
(* the file's only where it was told to; the file's is the one the config  *)
(* in service holds, unless an unlocking that began before a reload ends   *)
(* after it; and a cluster without one is known to need one.               *)
(***************************************************************************)
CredentialsAreWhereTheyBelong ==
  \A c \in Cluster :
    /\ conf[c].source = "session" => typed # None /\ conf[c].header = typed
    /\ conf[c].source = "file" /\ c \notin outdated =>
         conf[c].header = IF file[c] = "own" THEN "own" ELSE Opened[file[c]]
    /\ file[c] = "own" /\ conf[c].source # "file" => c \in overridden
    /\ conf[c].needs <=> conf[c].header = None

\* Inductive (ConsoleProofs): what a cluster is reached with from the file needs nothing more,
\* and what an unlocking set out with is sealed.
Reached == [header : {None, "own", "openA", "openB"} \cup Typed, source : {"none", "file", "session"},
            needs : BOOLEAN, anonymous : BOOLEAN]
CredentialsInv ==
  /\ conf \in [Cluster -> Reached]
  /\ typed \in {None} \cup Typed /\ vault \in {None} \cup Typed
  /\ DOMAIN opening \subseteq Cluster /\ \A c \in DOMAIN opening : opening[c] \in DOMAIN Opened
  /\ \A c \in Cluster : conf[c].source = "file" => ~conf[c].needs
  /\ CredentialsAreWhereTheyBelong
=============================================================================
