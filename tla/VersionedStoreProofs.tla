------------------------ MODULE VersionedStoreProofs ------------------------
(***************************************************************************)
(* What VersionedStore promises for any number of edits, stops and         *)
(* reseedings: the archives are named and never change, and no version is  *)
(* lost unless a crash tears a file or a reseeding deletes one.            *)
(***************************************************************************)
EXTENDS VersionedStore, TLAPS

Clean == whole /\ ~reseeded

Writing == {"archive", "copy", "replace", "store"}

\* write()'s locals, between its steps; a version written is not the blank one.
Locals ==
    /\ pc \in {"archive", "copy", "replace"} => file = current
    /\ pc \in Writing => new \in Doc /\ new.version > 0
    /\ \A d \in log : d.version > 0
    /\ pc = "copy" => /\ current # None
                      /\ \A h \in history : h.name = current.version => h.doc = Blank

FileIsNewest ==
    Clean /\ pc # "store" =>
        \/ file = None /\ log = {}
        \/ file \in log /\ \A d \in log : d # file => d.version < file.version

NewIsNewer == Clean /\ pc \in Writing => \A d \in log : d.version < new.version

\* Every archive but the one being made holds the logged version of its name.
ArchivesAreLogged ==
    Clean => \A h \in history : \/ h.doc \in log /\ h.doc.version = h.name
                                \/ pc = "copy" /\ h.name = current.version

AllArchived ==
    Clean /\ pc \in {"replace", "store"} => \A d \in log : \E h \in history : h.doc = d

IInv == /\ TypeOK /\ ArchivesAreNamed /\ Locals /\ FileIsNewest /\ NewIsNewer
        /\ ArchivesAreLogged /\ AllArchived /\ VersionsKept

-----------------------------------------------------------------------------
LEMMA InitIInv == ASSUME Init PROVE IInv
  <1> USE DEF Init
  <1>1. TypeOK
    BY DEF TypeOK, Step
  <1>2. ArchivesAreNamed /\ Locals /\ ArchivesAreLogged
    BY DEF ArchivesAreNamed, Locals, ArchivesAreLogged, Writing
  <1>3. FileIsNewest /\ NewIsNewer /\ AllArchived /\ VersionsKept
    BY DEF FileIsNewest, NewIsNewer, AllArchived, VersionsKept
  <1> QED BY <1>1, <1>2, <1>3 DEF IInv

\* The steps outside write() touch no file but by reseeding.
LEMMA OutsideWrite ==
    ASSUME IInv, Start \/ StartReseeding \/ Seed \/ BeginUpdate \/ Update \/ Stop
    PROVE  IInv'
  <1> USE NoneAssumption DEF IInv, TypeOK, Step, Archive, Doc, counters
  <1>1. CASE Start
    BY <1>1 DEF Start, ArchivesAreNamed, Locals, FileIsNewest, NewIsNewer,
       ArchivesAreLogged, AllArchived, VersionsKept, Kept, Clean, Writing
  <1>2. CASE StartReseeding
    BY <1>2 DEF StartReseeding, ArchivesAreNamed, Locals, FileIsNewest, NewIsNewer,
       ArchivesAreLogged, AllArchived, VersionsKept, Kept, Clean, Writing
  <1>3. CASE Seed
    BY <1>3 DEF Seed, ArchivesAreNamed, Locals, FileIsNewest, NewIsNewer,
       ArchivesAreLogged, AllArchived, VersionsKept, Kept, Clean, Writing
  <1>4. CASE BeginUpdate
    BY <1>4 DEF BeginUpdate, ArchivesAreNamed, Locals, FileIsNewest, NewIsNewer,
       ArchivesAreLogged, AllArchived, VersionsKept, Kept, Clean, Writing
  <1>5. CASE Update
    BY <1>5 DEF Update, ArchivesAreNamed, Locals, FileIsNewest, NewIsNewer,
       ArchivesAreLogged, AllArchived, VersionsKept, Kept, Clean, Writing
  <1>6. CASE Stop
    BY <1>6 DEF Stop, ArchivesAreNamed, Locals, FileIsNewest, NewIsNewer,
       ArchivesAreLogged, AllArchived, VersionsKept, Kept, Clean, Writing
  <1> QED BY <1>1, <1>2, <1>3, <1>4, <1>5, <1>6

LEMMA LoadIInv == ASSUME IInv, Load PROVE IInv'
  <1> USE NoneAssumption DEF IInv, TypeOK, Step, Archive, Doc, counters, Load
  <1>1. NextVersion \in Nat /\ NextVersion > 0
    BY DEF NextVersion
  <1>2. TypeOK' /\ ArchivesAreNamed' /\ Locals' /\ FileIsNewest' /\ ArchivesAreLogged'
    BY <1>1 DEF ArchivesAreNamed, Locals, FileIsNewest, ArchivesAreLogged, Clean, Writing
  <1>3. NewIsNewer'
    BY DEF FileIsNewest, NewIsNewer, NextVersion, Clean, Writing
  <1>4. AllArchived' /\ VersionsKept'
    BY DEF AllArchived, VersionsKept, Kept, Clean
  <1> QED BY <1>2, <1>3, <1>4

LEMMA TruncateArchiveIInv == ASSUME IInv, TruncateArchive PROVE IInv'
  <1> USE NoneAssumption DEF IInv, TypeOK, Step, Archive, Doc, counters, TruncateArchive
  <1>0. Blank \in Doc /\ Blank.version = 0
    BY DEF Blank
  <1>1. CASE file = None \/ Archived(current.version)
    <2>1. AllArchived'
      BY <1>1 DEF AllArchived, Archived, Locals, FileIsNewest, ArchivesAreLogged, Clean,
         VersionsKept, Kept
    <2> QED BY <1>1, <2>1 DEF ArchivesAreNamed, Locals, FileIsNewest, NewIsNewer,
               ArchivesAreLogged, VersionsKept, Kept, Clean, Writing
  <1>2. CASE ~(file = None \/ Archived(current.version))
    <2>1. history' = history \cup {[name |-> current.version, doc |-> Blank]}
      BY <1>2 DEF Archived, ArchiveName
    <2>2. TypeOK' /\ ArchivesAreNamed'
      BY <1>0, <1>2, <2>1 DEF ArchivesAreNamed, Locals
    <2>3. Locals'
      BY <1>2, <2>1 DEF Archived, Locals, Writing
    <2>4. ArchivesAreLogged' /\ VersionsKept'
      BY <1>2, <2>1 DEF ArchivesAreLogged, VersionsKept, Kept, Clean
    <2> QED BY <1>2, <2>1, <2>2, <2>3, <2>4
            DEF FileIsNewest, NewIsNewer, AllArchived, Clean, Writing
  <1> QED BY <1>1, <1>2

LEMMA WriteArchiveIInv == ASSUME IInv, WriteArchive PROVE IInv'
  <1> USE NoneAssumption DEF IInv, TypeOK, Step, Archive, Doc, counters, WriteArchive
  <1>1. file = current /\ file # None /\ file \in Doc
    BY DEF Locals
  <1>2. history' = {h \in history : h.name # file.version}
                    \cup {[name |-> file.version, doc |-> file]}
    BY <1>1 DEF ArchiveName
  <1>3. TypeOK' /\ ArchivesAreNamed' /\ Locals'
    BY <1>1, <1>2 DEF ArchivesAreNamed, Locals, Writing
  <1>4. ArchivesAreLogged'
    BY <1>1, <1>2 DEF ArchivesAreLogged, FileIsNewest, Clean
  <1>5. Clean => \A d \in log : \E h \in history' : h.doc = d
    <2> SUFFICES ASSUME Clean, NEW d \in log PROVE \E h \in history' : h.doc = d
      OBVIOUS
    <2>1. CASE d = file
      <3> DEFINE a == [name |-> file.version, doc |-> file]
      <3>1. a \in history' /\ a.doc = d
        BY <1>2, <2>1
      <3> QED BY <3>1
    <2>2. CASE d # file
      <3>1. PICK h \in history : h.doc = d
        BY <2>2 DEF VersionsKept, Kept, Clean
      <3>2. h.name # file.version
        BY <1>1, <3>1 DEF Blank, Locals
      <3>3. h \in history'
        BY <1>2, <3>1, <3>2
      <3> QED BY <3>1, <3>3
    <2> QED BY <2>1, <2>2
  <1>6. AllArchived' /\ VersionsKept'
    BY <1>5 DEF AllArchived, VersionsKept, Kept, Clean
  <1> QED BY <1>3, <1>4, <1>6 DEF FileIsNewest, NewIsNewer, Clean, Writing

LEMMA TruncateFileIInv == ASSUME IInv, TruncateFile PROVE IInv'
  <1> USE NoneAssumption DEF IInv, TypeOK, Step, Archive, Doc, counters, TruncateFile
  <1>1. TypeOK' /\ ArchivesAreNamed' /\ Locals' /\ ArchivesAreLogged'
    BY DEF Blank, ArchivesAreNamed, Locals, ArchivesAreLogged, Clean, Writing
  <1>2. FileIsNewest' /\ NewIsNewer' /\ AllArchived'
    BY DEF FileIsNewest, NewIsNewer, AllArchived, Clean, Writing
  <1>3. VersionsKept'
    BY DEF VersionsKept, Kept, AllArchived, Clean
  <1> QED BY <1>1, <1>2, <1>3

LEMMA WriteFileIInv == ASSUME IInv, WriteFile PROVE IInv'
  <1> USE NoneAssumption DEF IInv, TypeOK, Step, Archive, Doc, counters, WriteFile
  <1>1. new \in Doc
    BY DEF Locals, Writing
  <1>2. TypeOK' /\ ArchivesAreNamed' /\ Locals' /\ ArchivesAreLogged'
    BY <1>1 DEF ArchivesAreNamed, Locals, ArchivesAreLogged, Clean, Writing
  <1>3. FileIsNewest'
    BY <1>1 DEF FileIsNewest, NewIsNewer, Clean, Writing
  <1>4. NewIsNewer' /\ AllArchived'
    BY DEF NewIsNewer, AllArchived, Clean, Writing
  <1>5. VersionsKept'
    BY DEF VersionsKept, Kept, AllArchived, Clean
  <1> QED BY <1>2, <1>3, <1>4, <1>5

LEMMA NextIInv == ASSUME IInv, [Next]_vars PROVE IInv'
  <1>1. CASE UNCHANGED vars
    BY <1>1 DEF vars, counters, IInv, TypeOK, ArchivesAreNamed, Locals, FileIsNewest,
       NewIsNewer, ArchivesAreLogged, AllArchived, VersionsKept, Kept, Clean, Writing
  <1>2. CASE Write
    BY <1>2, LoadIInv, TruncateArchiveIInv, WriteArchiveIInv, TruncateFileIInv,
       WriteFileIInv DEF Write
  <1>3. CASE Next /\ ~Write
    BY <1>3, OutsideWrite DEF Next
  <1> QED BY <1>1, <1>2, <1>3

THEOREM StoreInvariant == Spec => []IInv
  BY InitIInv, NextIInv, PTL DEF Spec

-----------------------------------------------------------------------------
\* Every variable of the store keeps its type.
THEOREM StoreTypeCorrect == Spec => []TypeOK
  <1>1. IInv => TypeOK
    BY DEF IInv
  <1> QED BY <1>1, StoreInvariant, PTL

\* Short of a torn file and of a reseeding, no version is ever lost, wherever the
\* process stops (daemon_self.py:211-264, daemon_relational.py:202-255).
THEOREM StoreKeepsVersions == Spec => []VersionsKept
  <1>1. IInv => VersionsKept
    BY DEF IInv
  <1> QED BY <1>1, StoreInvariant, PTL

\* Short of the same, the current file is the newest of all the versions and no
\* version number is used twice.
THEOREM StoreKeepsOrder == Spec => []NewestIsCurrent
  <1>1. IInv => NewestIsCurrent
    BY NoneAssumption DEF IInv, FileIsNewest, NewestIsCurrent, Clean
  <1> QED BY <1>1, StoreInvariant, PTL

\* Whatever happens, vN.yaml holds version N or nothing.
THEOREM StoreNamesArchives == Spec => []ArchivesAreNamed
  <1>1. IInv => ArchivesAreNamed
    BY DEF IInv
  <1> QED BY <1>1, StoreInvariant, PTL

\* Whatever happens, an archive that has been written is never written again:
\* write() makes an archive only under a name that has none.
THEOREM StoreArchivesFixed == Spec => ArchivesNeverChange
  <1>1. ASSUME IInv, [Next]_vars PROVE \A h \in history : h.doc # Blank => h \in history'
    <2>1. CASE TruncateArchive
      BY <2>1 DEF TruncateArchive, Archived, ArchiveName
    <2>2. CASE WriteArchive
      BY <2>2, <1>1 DEF WriteArchive, ArchiveName, IInv, Locals
    <2>3. CASE UNCHANGED history
      BY <2>3
    <2> QED BY <2>1, <2>2, <2>3, <1>1 DEF Next, Start, StartReseeding, Seed, BeginUpdate,
               Update, Stop, Write, Load, TruncateFile, WriteFile, vars
  <1> QED BY <1>1, StoreInvariant, PTL DEF Spec, ArchivesNeverChange
=============================================================================
