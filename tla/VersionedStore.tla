--------------------------- MODULE VersionedStore ---------------------------
(***************************************************************************)
(* The versioned documents of state/daemon_self.py and                     *)
(* state/daemon_relational.py: one file with the current version, a        *)
(* directory with the versions before it, and the process that seeds and   *)
(* updates the document, stops or crashes anywhere, and starts again.      *)
(*                                                                         *)
(* Path.write_text truncates the file and then writes it, so each write of *)
(* a file is two steps.  A truncated file exists and loads as the          *)
(* document of all default values, Blank.                                  *)
(***************************************************************************)
EXTENDS Naturals, FiniteSets

CONSTANTS None,        \* a file that does not exist
          MaxEdits,    \* bound on the documents written
          MaxStops,    \* bound on the stops and crashes of the process
          MaxReseeds   \* bound on the starts with --force-reseed

ASSUME BoundsAssumption == MaxEdits \in Nat /\ MaxStops \in Nat /\ MaxReseeds \in Nat

\* A document is its version and, standing for its text, which edit made it.
Doc   == [version : Nat, edit : Nat]
Blank == [version |-> 0, edit |-> 0]

ASSUME NoneAssumption == None \notin Doc

VARIABLES
    kind,      \* which document this is: only DAEMON_SELF is seeded
    file,      \* the current file
    history,   \* the history directory: [name, doc], name N standing for vN.yaml
    pc,        \* the next step of the process
    current,   \* write()'s local of that name
    new,       \* the document write() is about to write
    edits, stops, reseeds,  \* count what the bounds bound
    log,       \* history: every document whose write finished
    whole,     \* history: no crash has hit a file between truncation and write
    reseeded   \* history: --force-reseed has deleted the document

counters == <<edits, stops, reseeds>>
vars == <<kind, file, history, pc, current, new, counters, log, whole, reseeded>>

Step == {"down", "seed", "idle", "think", "load", "archive", "copy", "replace", "store"}
Archive == [name : Nat, doc : Doc]

TypeOK ==
    /\ kind \in {"self", "relational"}
    /\ file \in Doc \cup {None} /\ history \in SUBSET Archive
    /\ pc \in Step
    /\ current \in Doc \cup {None} /\ new \in Doc \cup {None}
    /\ edits \in Nat /\ stops \in Nat /\ reseeds \in Nat
    /\ log \in SUBSET Doc
    /\ whole \in BOOLEAN /\ reseeded \in BOOLEAN

Init ==
    /\ kind \in {"self", "relational"}
    /\ file = None /\ history = {}
    /\ pc = "down" /\ current = None /\ new = None
    /\ edits = 0 /\ stops = 0 /\ reseeds = 0
    /\ log = {} /\ whole = TRUE /\ reseeded = FALSE

-----------------------------------------------------------------------------
(* The process                                                              *)

\* main() and the no_daemon_self condition, which is load() is None: a file that
\* exists, whatever it holds, needs no seeding.
Start ==
    /\ pc = "down"
    /\ pc' = IF kind = "self" /\ file = None THEN "seed" ELSE "idle"
    /\ UNCHANGED <<kind, file, history, current, new, counters, log, whole, reseeded>>

\* main() with --force-reseed unlinks the current file first.
StartReseeding ==
    /\ pc = "down" /\ kind = "self" /\ reseeds < MaxReseeds
    /\ reseeds' = reseeds + 1
    /\ reseeded' = (reseeded \/ file # None)
    /\ file' = None
    /\ pc' = "seed"
    /\ UNCHANGED <<kind, history, current, new, edits, stops, log, whole>>

\* daemon_seeding: the model answers, and write() begins; a failure of the model
\* leaves no document, and seeding is not tried again before the next start.
Seed ==
    /\ pc = "seed"
    /\ pc' \in {"load", "idle"}
    /\ UNCHANGED <<kind, file, history, current, new, counters, log, whole, reseeded>>

\* relational_update and daemon_integration: load, ask the model, write().
BeginUpdate ==
    /\ pc = "idle"
    /\ pc' = "think"
    /\ UNCHANGED <<kind, file, history, current, new, counters, log, whole, reseeded>>

Update ==
    /\ pc = "think"
    /\ pc' \in {"load", "idle"}
    /\ UNCHANGED <<kind, file, history, current, new, counters, log, whole, reseeded>>

\* The process stops, or is killed, at any point.
Stop ==
    /\ pc # "down" /\ stops < MaxStops
    /\ pc' = "down" /\ current' = None /\ new' = None
    /\ stops' = stops + 1
    /\ whole' = (whole /\ pc \notin {"copy", "store"})
    /\ UNCHANGED <<kind, file, history, edits, reseeds, log, reseeded>>

-----------------------------------------------------------------------------
(* write()                                                                  *)

\* Mutant: the version of the current document is stamped on the new one.
SameVersion == IF file = None THEN 1 ELSE file.version

NextVersion == IF file = None THEN 1 ELSE file.version + 1

\* Load the current document, stamp the new one.
Load ==
    /\ pc = "load" /\ edits < MaxEdits
    /\ current' = file
    /\ new' = [version |-> NextVersion, edit |-> edits + 1]
    /\ edits' = edits + 1
    /\ pc' = "archive"
    /\ UNCHANGED <<kind, file, history, stops, reseeds, log, whole, reseeded>>

\* Mutants: an existing archive is written again; one archive stands for all;
\* the archive is named after the version before its own.
NeverArchived(v) == FALSE /\ v \in Nat
ArchivedOne(v)   == history # {} /\ v \in Nat
NameBefore       == current.version - 1

Archived(v) == \E h \in history : h.name = v

ArchiveName == current.version

\* Archive the current file unless there is an archive of its name.
TruncateArchive ==
    /\ pc = "archive"
    /\ IF file = None \/ Archived(current.version)
       THEN pc' = "replace" /\ UNCHANGED history
       ELSE /\ pc' = "copy"
            /\ history' = {h \in history : h.name # ArchiveName}
                           \cup {[name |-> ArchiveName, doc |-> Blank]}
    /\ UNCHANGED <<kind, file, current, new, counters, log, whole, reseeded>>

WriteArchive ==
    /\ pc = "copy"
    /\ history' = {h \in history : h.name # ArchiveName}
                   \cup {[name |-> ArchiveName, doc |-> file]}
    /\ pc' = "replace"
    /\ UNCHANGED <<kind, file, current, new, counters, log, whole, reseeded>>

TruncateFile ==
    /\ pc = "replace"
    /\ file' = Blank
    /\ pc' = "store"
    /\ UNCHANGED <<kind, history, current, new, counters, log, whole, reseeded>>

\* The embedding that follows is best-effort and read by nothing modelled here.
WriteFile ==
    /\ pc = "store"
    /\ file' = new /\ log' = log \cup {new}
    /\ pc' = "idle"
    /\ UNCHANGED <<kind, history, current, new, counters, whole, reseeded>>

Write == Load \/ TruncateArchive \/ WriteArchive \/ TruncateFile \/ WriteFile

Next == Start \/ StartReseeding \/ Seed \/ BeginUpdate \/ Update \/ Stop \/ Write

Spec == Init /\ [][Next]_vars
-----------------------------------------------------------------------------
(* Properties                                                               *)

Kept(d) == file = d \/ \E h \in history : h.doc = d

\* A stop at any point of write() is harmless unless it hits a file between its
\* truncation and its write: every version ever written is the current one or is
\* in the history directory.
VersionsKept == whole /\ ~reseeded => \A d \in log : Kept(d)

\* Under the same condition the current file is the newest version and no two
\* versions share a number, although a write cut short before the replacement
\* has archived its predecessor and is made again.
NewestIsCurrent ==
    whole /\ ~reseeded /\ pc # "store" =>
        /\ log # {} => file \in log
        /\ \A d \in log : d # file => d.version < file.version

\* daemon_self.py:214-216.  vN.yaml holds version N, or was left blank by a crash.
ArchivesAreNamed == \A h \in history : h.doc.version \in {h.name, 0}

\* test_daemon_self.py:112-123.  An archive, once written, never changes, not even
\* when a new seeding or a torn file makes the versions start again at 1.
ArchivesNeverChange == [][\A h \in history : h.doc # Blank => h \in history']_vars
=============================================================================
