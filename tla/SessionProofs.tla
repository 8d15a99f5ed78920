---------------------------- MODULE SessionProofs ----------------------------
(***************************************************************************)
(* What holds of a session and its end for any number of turns, threads    *)
(* and attempts: turn ids are unique, the files are consistent at every    *)
(* moment, finished records are complete, and the end of the session keeps *)
(* the promise of SessionContract.                                         *)
(***************************************************************************)
EXTENDS Session, FiniteSetTheorems, TLAPS

-----------------------------------------------------------------------------
(* The inductive invariant                                                  *)

Begun == {t \in Turn : number[t] # 0}

\* turnCount is the number of turns begun, each with a number of its own, and a turn has
\* at most one note.
Numbered ==
    /\ turnCount = Cardinality(Begun)
    /\ \A t \in Turn : at[t] = "sent" => number[t] = 0
    /\ \A t \in Turn : at[t] \in {"retrieving", "responding", "noting", "answered"} => number[t] # 0
    /\ \A t, u \in Turn : number[t] = number[u] /\ number[t] # 0 => t = u
    /\ \A n \in notes : at[n.turn] = "answered" /\ n.number = number[n.turn]
    /\ \A m, n \in notes : m.turn = n.turn => m = n

\* An attempt is between its snapshot and its end.
Attempting == ender \in {"relational", "flush", "clear"}

\* Notes are never taken back, and the flush runs within an attempt.
Ending ==
    /\ flush \in FlushStep => ender \in {"relational", "flush"}
    /\ ender # "idle" => session = "live"
    /\ asked \subseteq notes /\ snapshot \subseteq notes
    /\ Attempting => asked \subseteq snapshot
    /\ ender = "clear" => flush = "succeeded"

\* What the files do not hold yet of the current attempt.
Fresh ==
    /\ \A e \in episodes : e.attempt <= ends
    /\ \A r \in records : r.attempt <= ends
    /\ \A i \in index : i <= ends
    /\ ender = "snapshot" \/ flush = "compile" => \A e \in episodes : e.attempt # ends
    /\ ender = "snapshot" \/ flush \in FlushStep \ {"index"} => \A r \in records : r.attempt # ends
    /\ ender = "snapshot" \/ flush \in FlushStep => ends \notin index

\* And what they do.
Written ==
    /\ FilesRefer
    /\ flush = "record" => ends \in handoffs
    /\ flush = "index" \/ (flush = "succeeded" /\ Attempting) =>
         /\ \E r \in records : r.attempt = ends
         /\ \A r \in records : r.attempt = ends => r.turns = TurnsOf(snapshot)
    /\ flush = "succeeded" /\ Attempting => ends \in index
    /\ index # {} => \E i \in index : \A j \in index : j <= i

IInv == TypeOK /\ Numbered /\ Ending /\ Fresh /\ Written

-----------------------------------------------------------------------------
(* Lemmas                                                                   *)

LEMMA TurnsOfType == ASSUME NEW S \in SUBSET Note PROVE TurnsOf(S) \in SUBSET Turn
  BY DEF TurnsOf, Note

LEMMA TurnsOfGrows == ASSUME NEW S, NEW T, S \subseteq T PROVE TurnsOf(S) \subseteq TurnsOf(T)
  BY DEF TurnsOf

LEMMA TurnsOfUnion == ASSUME NEW S, NEW n PROVE TurnsOf(S \cup {n}) = TurnsOf(S) \cup {n.turn}
  BY DEF TurnsOf

\* No more turns can be begun than there are.
LEMMA BegunBound ==
    ASSUME number \in [Turn -> Nat]
    PROVE  /\ IsFiniteSet(Begun) /\ Cardinality(Begun) \in Nat
           /\ Cardinality(Begun) <= Cardinality(Turn)
  <1>1. IsFiniteSet(Turn) /\ Begun \in SUBSET Turn
    BY SessionAssumption DEF Begun
  <1> QED BY <1>1, FS_Subset, FS_CardinalityType

LEMMA InitIInv == Init => IInv
  <1> SUFFICES ASSUME Init PROVE IInv
    OBVIOUS
  <1>1. Cardinality(Turn) \in Nat
    BY SessionAssumption, FS_CardinalityType
  <1>2. TypeOK
    BY <1>1 DEF Init, TypeOK
  <1>3. Begun = {} /\ Cardinality({}) = 0
    BY FS_EmptySet DEF Begun, Init
  <1>4. Numbered
    BY <1>3 DEF Init, Numbered
  <1> QED BY <1>2, <1>4 DEF Init, IInv, Ending, Attempting, Fresh, Written, FilesRefer, FlushStep

-----------------------------------------------------------------------------
(* The turns                                                                *)

\* A step that leaves the turns alone.
LEMMA SameTurns == IInv /\ UNCHANGED turnVars => Numbered'
  BY DEF IInv, Numbered, turnVars, Begun

LEMMA BeginTurnStep ==
    ASSUME IInv, NEW t \in Turn, BeginTurn(t)
    PROVE  /\ turnCount' \in 0..Cardinality(Turn) /\ number' \in [Turn -> 0..turnCount']
           /\ Numbered'
  <1>1. /\ number \in [Turn -> 0..turnCount] /\ turnCount \in Nat /\ number[t] = 0
        /\ at \in [Turn -> {"sent", "retrieving", "responding", "noting", "answered", "failed"}]
    BY DEF IInv, TypeOK, Numbered, BeginTurn
  <1>2. number' = [number EXCEPT ![t] = turnCount + 1] /\ turnCount' = turnCount + 1
        /\ notes' = notes
        /\ at' \in {[at EXCEPT ![t] = "retrieving"], [at EXCEPT ![t] = "responding"]}
    BY DEF BeginTurn, Goto
  <1>3. number' \in [Turn -> 0..turnCount']
    BY <1>1, <1>2
  <1>4. turnCount' = Cardinality(Begun')
    <2>1. Begun' = Begun \cup {t} /\ t \notin Begun
      BY <1>1, <1>2 DEF Begun
    <2>2. IsFiniteSet(Begun)
      BY <1>1, BegunBound
    <2> QED BY <1>2, <2>1, <2>2, FS_AddElement DEF IInv, Numbered
  <1>5. turnCount' \in 0..Cardinality(Turn)
    <2>1. Begun' \in SUBSET Turn /\ IsFiniteSet(Turn)
      BY SessionAssumption DEF Begun
    <2>2. Cardinality(Begun') <= Cardinality(Turn) /\ Cardinality(Turn) \in Nat
      BY <2>1, FS_Subset, FS_CardinalityType
    <2> QED BY <1>1, <1>2, <1>4, <2>2
  <1>6. \A u, v \in Turn : number'[u] = number'[v] /\ number'[u] # 0 => u = v
    BY <1>1, <1>2 DEF IInv, Numbered
  <1>7. \A n \in notes : n.turn \in Turn /\ n.turn # t
    BY DEF IInv, TypeOK, Note, Numbered, BeginTurn
  <1>8. \A n \in notes' : at'[n.turn] = "answered" /\ n.number = number'[n.turn]
    BY <1>1, <1>2, <1>7 DEF IInv, Numbered
  <1>9. /\ \A u \in Turn : at'[u] = "sent" => number'[u] = 0
        /\ \A u \in Turn : at'[u] \in {"retrieving", "responding", "noting", "answered"}
                           => number'[u] # 0
    BY <1>1, <1>2 DEF IInv, Numbered
  <1> QED BY <1>2, <1>3, <1>4, <1>5, <1>6, <1>8, <1>9 DEF IInv, Numbered

LEMMA MoveTurnStep ==
    ASSUME IInv, NEW t \in Turn, RefuseTurn(t) \/ ResumeTurn(t) \/ Respond(t)
    PROVE  Numbered'
  <1>1. /\ at[t] \notin {"answered", "failed"} /\ number' = number /\ turnCount' = turnCount
        /\ notes' = notes /\ Begun' = Begun
        /\ at' \in [Turn -> {"sent", "retrieving", "responding", "noting", "answered", "failed"}]
    BY DEF RefuseTurn, ResumeTurn, Respond, Goto, IInv, TypeOK, Begun
  <1>2. \A u \in Turn : at'[u] = at[u] \/ (u = t /\ at'[u] \in {"responding", "noting", "failed"})
    BY DEF RefuseTurn, ResumeTurn, Respond, Goto, IInv, TypeOK
  <1>3. at'[t] # "failed" => number[t] # 0
    BY DEF RefuseTurn, ResumeTurn, Respond, Goto, IInv, TypeOK, Numbered
  <1>4. \A n \in notes : n.turn \in Turn
    BY DEF IInv, TypeOK, Note
  <1> QED BY <1>1, <1>2, <1>3, <1>4 DEF IInv, Numbered

\* The new note is the first of its turn.
LEMMA CommitNoteStep ==
    ASSUME IInv, NEW t \in Turn, CommitNote(t)
    PROVE  /\ notes' \in SUBSET Note /\ Numbered'
           /\ \E x \in Note : notes' = notes \cup {x} /\ x.turn = t /\ \A n \in notes : n.turn # t
  <1>1. PICK topics \in SUBSET Topic :
          notes' = notes \cup {[turn |-> t, number |-> number[t], topics |-> topics]}
    BY DEF CommitNote, TurnNumber
  <1> DEFINE x == [turn |-> t, number |-> number[t], topics |-> topics]
  <1>2. x \in Note /\ x.turn = t /\ x.number = number[t]
    BY <1>1 DEF Note, IInv, TypeOK
  <1>3. /\ at[t] = "noting" /\ number' = number /\ turnCount' = turnCount /\ Begun' = Begun
        /\ at' = [at EXCEPT ![t] = "answered"]
    BY DEF CommitNote, Goto, Begun
  <1>4. \A n \in notes : n.turn \in Turn /\ n.turn # t
    BY <1>3 DEF IInv, TypeOK, Note, Numbered
  <1>5. notes' = notes \cup {x}
    BY <1>1
  <1> HIDE DEF x
  <1>6. notes' \in SUBSET Note
    BY <1>2, <1>5 DEF IInv, TypeOK
  <1>7. at \in [Turn -> {"sent", "retrieving", "responding", "noting", "answered", "failed"}]
    BY DEF IInv, TypeOK
  <1>8. Numbered'
    BY <1>2, <1>3, <1>4, <1>5, <1>7 DEF IInv, Numbered
  <1> QED BY <1>2, <1>4, <1>5, <1>6, <1>8

LEMMA NextNumbered == IInv /\ [Next]_vars => Numbered'
  <1> SUFFICES ASSUME IInv, [Next]_vars PROVE Numbered'
    OBVIOUS
  <1>1. CASE BeginSession
    BY <1>1, SameTurns DEF BeginSession
  <1>2. ASSUME NEW t \in Turn, BeginTurn(t) PROVE Numbered'
    BY <1>2, BeginTurnStep
  <1>3. ASSUME NEW t \in Turn, RefuseTurn(t) \/ ResumeTurn(t) \/ Respond(t) PROVE Numbered'
    BY <1>3, MoveTurnStep
  <1>4. ASSUME NEW t \in Turn, CommitNote(t) PROVE Numbered'
    BY <1>4, CommitNoteStep
  <1>5. CASE EndSession \/ Ender \/ RelationalUpdate
    BY <1>5, SameTurns
       DEF EndSession, Ender, TakeSnapshot, CollectRelational, CollectFlush, ClearMemory,
           RelationalUpdate
  <1>6. CASE Flush
    BY <1>6, SameTurns
       DEF Flush, Compile, WriteEpisode, UpdateCooccurrence, WriteHandoff, WriteRecord, WriteIndex,
           FlushRaises
  <1>7. CASE UNCHANGED vars
    BY <1>7, SameTurns DEF vars
  <1> QED BY <1>1, <1>2, <1>3, <1>4, <1>5, <1>6, <1>7 DEF Next, EventLoop

-----------------------------------------------------------------------------
(* The types                                                                *)

LEMMA NextTypes == IInv /\ [Next]_vars => TypeOK'
  <1> SUFFICES ASSUME IInv, [Next]_vars PROVE TypeOK'
    OBVIOUS
  <1>0. TypeOK
    BY DEF IInv
  <1>1. CASE BeginSession
    BY <1>0, <1>1 DEF BeginSession, TypeOK, turnVars, endVars, fileVars
  <1>2. ASSUME NEW t \in Turn, BeginTurn(t) PROVE TypeOK'
    <2>1. at' \in {[at EXCEPT ![t] = "retrieving"], [at EXCEPT ![t] = "responding"]}
          /\ loop' \in {loop, t}
      BY <1>2 DEF BeginTurn, Goto
    <2> QED BY <1>0, <1>2, <2>1, BeginTurnStep DEF BeginTurn, TypeOK, endVars, fileVars
  <1>3. ASSUME NEW t \in Turn, RefuseTurn(t) \/ ResumeTurn(t) \/ Respond(t) PROVE TypeOK'
    BY <1>0, <1>3 DEF RefuseTurn, ResumeTurn, Respond, Goto, TypeOK, endVars, fileVars
  <1>4. ASSUME NEW t \in Turn, CommitNote(t) PROVE TypeOK'
    <2>1. notes' \in SUBSET Note
      BY <1>4, CommitNoteStep
    <2>2. at' = [at EXCEPT ![t] = "answered"] /\ loop' = None
          /\ UNCHANGED <<session, turnCount, number, endVars, relational, flush, unwritten,
                         fileVars>>
      BY <1>4 DEF CommitNote, Goto
    <2> QED BY <1>0, <2>1, <2>2 DEF TypeOK, endVars, fileVars
  <1>5. CASE EndSession \/ Ender \/ RelationalUpdate
    <2> USE <1>0 DEF TypeOK, turnVars, endVars, fileVars, FlushStep
    <2>1. CASE EndSession
      BY <2>1 DEF EndSession
    <2>2. CASE TakeSnapshot
      BY <2>2 DEF TakeSnapshot
    <2>3. CASE CollectRelational
      BY <2>3 DEF CollectRelational
    <2>4. CASE CollectFlush
      BY <2>4 DEF CollectFlush, AfterFlush
    <2>5. CASE ClearMemory
      BY <2>5 DEF ClearMemory
    <2>6. CASE RelationalUpdate
      BY <2>6 DEF RelationalUpdate
    <2> QED BY <1>5, <2>1, <2>2, <2>3, <2>4, <2>5, <2>6 DEF Ender
  <1>6. CASE Compile
    <2>1. UNION {n.topics : n \in snapshot} \in SUBSET Topic
      BY <1>0 DEF TypeOK, Note
    <2> QED BY <1>0, <1>6, <2>1
            DEF Compile, StepAfter, TypeOK, turnVars, endVars, fileVars, FlushStep
  <1>7. CASE WriteEpisode
    <2>1. PICK topic \in unwritten : /\ episodes' = episodes \cup {Episode(topic)}
                                    /\ unwritten' = unwritten \ {topic}
      BY <1>7 DEF WriteEpisode
    <2>2. Episode(topic) \in ThreadEpisode
      <3>1. TurnsOf({n \in snapshot : topic \in n.topics}) \in SUBSET Turn
        BY <1>0, TurnsOfType DEF TypeOK
      <3> QED BY <1>0, <2>1, <3>1 DEF Episode, ThreadEpisode, TypeOK
    <2> QED BY <1>0, <1>7, <2>1, <2>2 DEF WriteEpisode, TypeOK, turnVars, endVars
  <1>8. CASE UpdateCooccurrence \/ WriteHandoff \/ WriteIndex \/ FlushRaises
    <2> USE <1>0 DEF TypeOK, turnVars, endVars, fileVars, FlushStep
    <2>1. CASE UpdateCooccurrence
      BY <2>1 DEF UpdateCooccurrence, StepAfter
    <2>2. CASE WriteHandoff
      BY <2>2 DEF WriteHandoff, StepAfter
    <2>3. CASE WriteIndex
      BY <2>3 DEF WriteIndex, StepAfter
    <2>4. CASE FlushRaises
      BY <2>4 DEF FlushRaises
    <2> QED BY <1>8, <2>1, <2>2, <2>3, <2>4
  <1>9. CASE WriteRecord
    <2>1. [attempt |-> ends, turns |-> TurnsOf(snapshot)] \in SessionRecord
      BY <1>0, TurnsOfType DEF SessionRecord, TypeOK
    <2> QED BY <1>0, <1>9, <2>1 DEF WriteRecord, StepAfter, TypeOK, turnVars, endVars, FlushStep
  <1>10. CASE UNCHANGED vars
    BY <1>0, <1>10 DEF vars, TypeOK, turnVars, endVars, fileVars
  <1> QED BY <1>1, <1>2, <1>3, <1>4, <1>5, <1>6, <1>7, <1>8, <1>9, <1>10
          DEF Next, EventLoop, Flush

-----------------------------------------------------------------------------
(* The end of the session and the files                                     *)

\* What the steps of the turns leave alone.
LEMMA LoopStep ==
    ASSUME IInv, EventLoop
    PROVE  /\ notes \subseteq notes'
           /\ session' = session \/ (session = "none" /\ session' = "live")
           /\ UNCHANGED <<endVars, relational, flush, unwritten, fileVars>>
  BY CommitNoteStep
     DEF EventLoop, BeginSession, BeginTurn, RefuseTurn, ResumeTurn, Respond, CommitNote, turnVars

LEMMA NextEnding == IInv /\ [Next]_vars => Ending'
  <1> SUFFICES ASSUME IInv, [Next]_vars PROVE Ending'
    OBVIOUS
  <1> USE DEF Ending, Attempting
  <1>0. Ending
    BY DEF IInv
  <1>1. CASE EventLoop
    BY <1>0, <1>1, LoopStep DEF endVars
  <1>2. CASE EndSession \/ Ender \/ RelationalUpdate
    BY <1>0, <1>2
       DEF EndSession, Ender, TakeSnapshot, CollectRelational, CollectFlush, ClearMemory,
           AfterFlush, RelationalUpdate, turnVars, endVars, FlushStep
  <1>3. CASE Flush
    <2>1. ender \in {"relational", "flush"}
      BY <1>0, <1>3
         DEF Flush, Compile, WriteEpisode, UpdateCooccurrence, WriteHandoff, WriteRecord,
             WriteIndex, FlushRaises, FlushStep
    <2>2. UNCHANGED <<session, turnVars, endVars>>
      BY <1>3
         DEF Flush, Compile, WriteEpisode, UpdateCooccurrence, WriteHandoff, WriteRecord,
             WriteIndex, FlushRaises
    <2> QED BY <1>0, <2>1, <2>2 DEF turnVars, endVars
  <1>4. CASE UNCHANGED vars
    BY <1>0, <1>4 DEF vars, turnVars, endVars
  <1> QED BY <1>1, <1>2, <1>3, <1>4 DEF Next

LEMMA NextFresh == IInv /\ [Next]_vars => Fresh'
  <1> SUFFICES ASSUME IInv, [Next]_vars PROVE Fresh'
    OBVIOUS
  <1> USE DEF Fresh, FlushStep
  <1>0. /\ Fresh /\ Ending /\ ends \in Nat /\ index \in SUBSET Nat
        /\ \A e \in episodes : e.attempt \in Nat
        /\ \A r \in records : r.attempt \in Nat
    BY DEF IInv, TypeOK, ThreadEpisode, SessionRecord
  <1>1. CASE EventLoop
    BY <1>0, <1>1, LoopStep DEF endVars, fileVars
  <1>2. CASE EndSession
    BY <1>0, <1>2 DEF EndSession, Ending, fileVars
  <1>3. CASE Ender \/ RelationalUpdate
    BY <1>0, <1>3
       DEF Ender, TakeSnapshot, CollectRelational, CollectFlush, ClearMemory, AfterFlush,
           RelationalUpdate, endVars, fileVars
  <1>4. CASE Compile
    BY <1>0, <1>4 DEF Compile, Ending, StepAfter, endVars, fileVars
  <1>5. CASE WriteEpisode
    BY <1>0, <1>5 DEF WriteEpisode, Episode, Ending, endVars
  <1>6. CASE UpdateCooccurrence \/ WriteHandoff \/ FlushRaises
    <2> USE <1>0 DEF Ending, StepAfter, endVars, fileVars
    <2>1. CASE UpdateCooccurrence
      BY <2>1 DEF UpdateCooccurrence
    <2>2. CASE WriteHandoff
      BY <2>2 DEF WriteHandoff
    <2>3. CASE FlushRaises
      BY <2>3 DEF FlushRaises
    <2> QED BY <1>6, <2>1, <2>2, <2>3
  <1>7. CASE WriteRecord
    BY <1>0, <1>7 DEF WriteRecord, Ending, StepAfter, endVars
  <1>8. CASE WriteIndex
    BY <1>0, <1>8 DEF WriteIndex, Ending, StepAfter, endVars
  <1>9. CASE UNCHANGED vars
    BY <1>0, <1>9 DEF vars, endVars, fileVars
  <1> QED BY <1>1, <1>2, <1>3, <1>4, <1>5, <1>6, <1>7, <1>8, <1>9 DEF Next, Flush

LEMMA NextWritten == IInv /\ [Next]_vars => Written'
  <1> SUFFICES ASSUME IInv, [Next]_vars PROVE Written'
    OBVIOUS
  <1> USE DEF Written, FilesRefer, Attempting, FlushStep
  <1>0. Written /\ Fresh /\ Ending /\ ends \in Nat /\ index \in SUBSET Nat
    BY DEF IInv, TypeOK
  <1>1. CASE EventLoop
    BY <1>0, <1>1, LoopStep DEF endVars, fileVars
  <1>2. CASE EndSession
    BY <1>0, <1>2 DEF EndSession, Ending, fileVars
  <1>3. CASE TakeSnapshot
    BY <1>0, <1>3 DEF TakeSnapshot, fileVars
  <1>4. CASE CollectRelational \/ CollectFlush \/ ClearMemory \/ RelationalUpdate
    BY <1>0, <1>4
       DEF CollectRelational, CollectFlush, ClearMemory, AfterFlush, RelationalUpdate, endVars,
           fileVars
  <1>5. CASE Compile \/ WriteEpisode \/ UpdateCooccurrence \/ FlushRaises
    <2> USE <1>0 DEF StepAfter, endVars, fileVars
    <2>1. CASE Compile
      BY <2>1 DEF Compile
    <2>2. CASE WriteEpisode
      BY <2>2 DEF WriteEpisode
    <2>3. CASE UpdateCooccurrence
      BY <2>3 DEF UpdateCooccurrence
    <2>4. CASE FlushRaises
      BY <2>4 DEF FlushRaises
    <2> QED BY <1>5, <2>1, <2>2, <2>3, <2>4
  <1>6. CASE WriteHandoff
    BY <1>0, <1>6 DEF WriteHandoff, StepAfter, endVars
  <1>7. CASE WriteRecord
    <2> DEFINE new == [attempt |-> ends, turns |-> TurnsOf(snapshot)]
    <2>1. /\ records' = records \cup {new} /\ flush = "record" /\ flush' = "index"
          /\ UNCHANGED <<ends, ender, snapshot, handoffs, index>>
      BY <1>7 DEF WriteRecord, StepAfter, endVars
    <2>2. /\ new.attempt = ends /\ new.turns = TurnsOf(snapshot)
          /\ TurnsOf(snapshot)' = TurnsOf(snapshot)
      BY <2>1 DEF TurnsOf
    <2>3. \A r \in records : r.attempt # ends
      BY <1>0, <2>1 DEF Fresh
    <2> HIDE DEF new
    <2>4. FilesRefer'
      BY <1>0, <2>1, <2>2
    <2>5. /\ \E r \in records' : r.attempt = ends'
          /\ \A r \in records' : r.attempt = ends' => r.turns = TurnsOf(snapshot)'
      BY <2>1, <2>2, <2>3
    <2> QED BY <1>0, <2>1, <2>4, <2>5
  <1>8. CASE WriteIndex
    <2>1. index' = index \cup {ends} /\ flush = "index" /\ flush' = "succeeded"
          /\ UNCHANGED <<ends, ender, snapshot, handoffs, records>>
      BY <1>8 DEF WriteIndex, StepAfter, endVars
    <2>2. \A j \in index' : j <= ends
      BY <1>0, <2>1 DEF Fresh
    <2> QED BY <1>0, <2>1, <2>2 DEF TurnsOf
  <1>9. CASE UNCHANGED vars
    BY <1>0, <1>9 DEF vars, endVars, fileVars
  <1> QED BY <1>1, <1>2, <1>3, <1>4, <1>5, <1>6, <1>7, <1>8, <1>9 DEF Next, Flush, Ender

LEMMA Inductive == Spec => []IInv
  <1>1. IInv /\ [Next]_vars => IInv'
    BY NextTypes, NextNumbered, NextEnding, NextFresh, NextWritten DEF IInv
  <1> QED BY InitIInv, <1>1, PTL DEF Spec

\* The types of a session's state, for any number of turns, threads and attempts; that
\* no turn has a number beyond the count is where the counting matters.
THEOREM SessionTypeCorrect == Spec => []TypeOK
  <1>1. IInv => TypeOK
    BY DEF IInv
  <1> QED BY Inductive, <1>1, PTL

\* personal_assistant.py:743-744.  Turn ids never collide, however turns overtake one another at
\* the await of their retrieval, while the session ends or after it.
THEOREM NumbersAreUnique == Spec => []TurnIdsAreUnique
  <1>1. IInv => TurnIdsAreUnique
    <2> SUFFICES ASSUME IInv, NEW m \in notes, NEW n \in notes, m.number = n.number
                 PROVE  m = n
      BY DEF TurnIdsAreUnique
    <2>1. /\ m.turn \in Turn /\ n.turn \in Turn
          /\ number[m.turn] = number[n.turn] /\ number[m.turn] # 0
      BY DEF IInv, TypeOK, Note, Numbered
    <2> QED BY <2>1 DEF IInv, Numbered
  <1> QED BY Inductive, <1>1, PTL

\* episodic_flush.py:14-21.  Whatever step of whatever attempt fails, the files name only
\* what is there.
THEOREM FilesStayConsistent == Spec => []FilesRefer
  <1>1. IInv => FilesRefer
    BY DEF IInv, Written
  <1> QED BY Inductive, <1>1, PTL

-----------------------------------------------------------------------------
(* The episodes of a record                                                 *)

EpisodesOf(attempt, topic) ==
    {e.turns : e \in {f \in episodes : f.attempt = attempt /\ f.topic = topic}}

NotedIn(topic, S) == {n.turn : n \in {m \in notes : topic \in m.topics /\ m.turn \in S}}

Whole(topic, S) == IF NotedIn(topic, S) = {} THEN {} ELSE {NotedIn(topic, S)}

\* A record has its episodes, and so has the current attempt but for those unwritten.
Compiled ==
    /\ flush = "episodes" => unwritten \subseteq UNION {n.topics : n \in snapshot}
    /\ flush \in {"handoff", "record"} => unwritten = {}
    /\ flush \in {"episodes", "handoff", "record"} =>
         \A topic \in Topic :
           EpisodesOf(ends, topic) =
             IF topic \in unwritten THEN {} ELSE Whole(topic, TurnsOf(snapshot))
    /\ \A r \in records :
         /\ r.turns \subseteq TurnsOf(notes)
         /\ \A topic \in Topic : EpisodesOf(r.attempt, topic) = Whole(topic, r.turns)

\* The notes of the turns in the snapshot are those in it, whatever has been noted since.
LEMMA SnapshotIsNoted ==
    ASSUME IInv, NEW topic
    PROVE  NotedIn(topic, TurnsOf(snapshot)) = TurnsOf({n \in snapshot : topic \in n.topics})
  <1>1. \A m \in notes : m.turn \in TurnsOf(snapshot) <=> m \in snapshot
    BY DEF IInv, Ending, Numbered, TurnsOf
  <1>2. snapshot \subseteq notes
    BY DEF IInv, Ending
  <1>3. {m \in notes : topic \in m.topics /\ m.turn \in TurnsOf(snapshot)}
        = {n \in snapshot : topic \in n.topics}
    BY <1>1, <1>2
  <1> QED BY <1>3 DEF NotedIn, TurnsOf

\* A new note says nothing of turns noted before.
LEMMA NotedStays ==
    ASSUME IInv, EventLoop, NEW topic, NEW S \in SUBSET TurnsOf(notes)
    PROVE  NotedIn(topic, S)' = NotedIn(topic, S) /\ S \subseteq TurnsOf(notes)'
  <1>1. CASE notes' = notes
    BY <1>1 DEF NotedIn, TurnsOf
  <1>2. ASSUME NEW t \in Turn, CommitNote(t)
        PROVE  NotedIn(topic, S)' = NotedIn(topic, S) /\ S \subseteq TurnsOf(notes)'
    <2>1. PICK x : notes' = notes \cup {x} /\ x.turn = t /\ \A n \in notes : n.turn # t
      BY <1>2, CommitNoteStep
    <2>2. x.turn \notin S
      BY <2>1 DEF TurnsOf
    <2>3. {m \in notes' : topic \in m.topics /\ m.turn \in S}
          = {m \in notes : topic \in m.topics /\ m.turn \in S}
      BY <2>1, <2>2
    <2>4. TurnsOf(notes)' = TurnsOf(notes) \cup {t}
      BY <2>1, TurnsOfUnion DEF TurnsOf
    <2> QED BY <2>3, <2>4 DEF NotedIn
  <1> QED BY <1>1, <1>2
          DEF EventLoop, BeginSession, BeginTurn, RefuseTurn, ResumeTurn, Respond, turnVars

\* A step that writes neither episodes nor records.
LEMMA CompiledStays ==
    ASSUME Compiled, UNCHANGED <<notes, snapshot, ends, episodes, records, unwritten>>,
           flush' \in {"episodes", "handoff", "record"} =>
             flush \in {"episodes", "handoff", "record"} /\ (unwritten = {} \/ flush' = flush)
    PROVE  Compiled'
  <1>1. \A topic, S : Whole(topic, S)' = Whole(topic, S)
    BY DEF Whole, NotedIn
  <1>2. \A a, topic : EpisodesOf(a, topic)' = EpisodesOf(a, topic)
    BY DEF EpisodesOf
  <1>3. TurnsOf(notes)' = TurnsOf(notes) /\ TurnsOf(snapshot)' = TurnsOf(snapshot)
    BY DEF TurnsOf
  <1> QED BY <1>1, <1>2, <1>3 DEF Compiled

LEMMA NextCompiled == IInv /\ Compiled /\ [Next]_vars => Compiled'
  <1> SUFFICES ASSUME IInv, Compiled, [Next]_vars PROVE Compiled'
    OBVIOUS
  <1>0. Ending /\ Fresh
    BY DEF IInv
  <1>1. CASE EventLoop
    <2>1. UNCHANGED <<snapshot, ends, episodes, records, unwritten, flush>>
      BY <1>1, LoopStep DEF endVars, fileVars
    <2>2. TurnsOf(snapshot) \in SUBSET TurnsOf(notes)
      BY <1>0, TurnsOfGrows DEF Ending
    <2>3. \A topic : Whole(topic, TurnsOf(snapshot))' = Whole(topic, TurnsOf(snapshot))
      <3> TAKE topic
      <3>1. NotedIn(topic, TurnsOf(snapshot))' = NotedIn(topic, TurnsOf(snapshot))
        <4> DEFINE S == TurnsOf(snapshot)
        <4>1. S' = S
          BY <2>1 DEF TurnsOf
        <4>2. {n.turn : n \in {m \in notes' : topic \in m.topics /\ m.turn \in S}}
              = {n.turn : n \in {m \in notes : topic \in m.topics /\ m.turn \in S}}
          <5> HIDE DEF S
          <5> QED BY <1>1, <2>2, NotedStays DEF NotedIn, S
        <4> QED BY <4>1, <4>2 DEF NotedIn
      <3> QED BY <3>1 DEF Whole
    <2>4. ASSUME NEW r \in records, NEW topic \in Topic
          PROVE  /\ r.turns \subseteq TurnsOf(notes)'
                 /\ EpisodesOf(r.attempt, topic)' = Whole(topic, r.turns)'
      <3>1. /\ r.turns \in SUBSET TurnsOf(notes)
            /\ EpisodesOf(r.attempt, topic) = Whole(topic, r.turns)
        BY DEF Compiled
      <3>2. NotedIn(topic, r.turns)' = NotedIn(topic, r.turns) /\ r.turns \subseteq TurnsOf(notes)'
        BY <1>1, <3>1, NotedStays
      <3> QED BY <2>1, <3>1, <3>2 DEF Whole, EpisodesOf
    <2>5. \A r \in records : r.turns \subseteq TurnsOf(notes)'
      BY <1>1, LoopStep, TurnsOfGrows DEF Compiled, TurnsOf
    <2> QED BY <2>1, <2>3, <2>4, <2>5 DEF Compiled, EpisodesOf
  <1>2. CASE EndSession
    <2>1. /\ UNCHANGED <<notes, snapshot, episodes, records, unwritten, flush>>
          /\ flush \notin FlushStep
      BY <1>0, <1>2 DEF EndSession, turnVars, fileVars, Ending
    <2> QED BY <2>1 DEF Compiled, FlushStep, Whole, NotedIn, EpisodesOf, TurnsOf
  <1>3. CASE TakeSnapshot
    <2>1. UNCHANGED <<notes, episodes, records>> /\ flush' = "compile"
      BY <1>3 DEF TakeSnapshot, turnVars, fileVars
    <2> QED BY <2>1 DEF Compiled, Whole, NotedIn, EpisodesOf, TurnsOf
  <1>4. CASE CollectRelational \/ CollectFlush \/ ClearMemory \/ RelationalUpdate
    BY <1>4, CompiledStays
       DEF CollectRelational, CollectFlush, ClearMemory, RelationalUpdate, turnVars, endVars,
           fileVars
  <1>5. CASE UpdateCooccurrence \/ WriteHandoff \/ WriteIndex \/ FlushRaises
    <2> USE CompiledStays DEF turnVars, endVars, fileVars, StepAfter
    <2>1. CASE UpdateCooccurrence
      BY <2>1 DEF UpdateCooccurrence
    <2>2. CASE WriteHandoff
      BY <2>2 DEF WriteHandoff, Compiled
    <2>3. CASE WriteIndex
      BY <2>3 DEF WriteIndex
    <2>4. CASE FlushRaises
      BY <2>4 DEF FlushRaises
    <2> QED BY <1>5, <2>1, <2>2, <2>3, <2>4
  <1>6. CASE Compile
    <2>1. /\ UNCHANGED <<notes, snapshot, ends, episodes, records>> /\ flush = "compile"
          /\ flush' = "episodes" /\ unwritten' = UNION {n.topics : n \in snapshot}
      BY <1>6 DEF Compile, StepAfter, turnVars, endVars, fileVars
    <2>2. \A topic : EpisodesOf(ends, topic) = {}
      BY <1>0, <2>1 DEF Fresh, EpisodesOf
    <2>3. \A topic : topic \notin unwritten' => Whole(topic, TurnsOf(snapshot)) = {}
      BY <2>1, SnapshotIsNoted DEF Whole, TurnsOf
    <2>4. /\ \A u, S : Whole(u, S)' = Whole(u, S)
          /\ \A a, u : EpisodesOf(a, u)' = EpisodesOf(a, u)
          /\ TurnsOf(snapshot)' = TurnsOf(snapshot) /\ TurnsOf(notes)' = TurnsOf(notes)
      BY <2>1 DEF Whole, NotedIn, EpisodesOf, TurnsOf
    <2> QED BY <2>1, <2>2, <2>3, <2>4 DEF Compiled
  <1>7. CASE WriteEpisode
    <2>1. PICK topic \in unwritten : /\ episodes' = episodes \cup {Episode(topic)}
                                    /\ unwritten' = unwritten \ {topic}
      BY <1>7 DEF WriteEpisode
    <2>2. UNCHANGED <<notes, snapshot, ends, records, flush>> /\ flush = "episodes"
      BY <1>7 DEF WriteEpisode, turnVars, endVars
    <2>3. /\ Episode(topic).attempt = ends /\ Episode(topic).topic = topic
          /\ {Episode(topic).turns} = Whole(topic, TurnsOf(snapshot))
      <3>1. Episode(topic).turns = NotedIn(topic, TurnsOf(snapshot))
        BY SnapshotIsNoted DEF Episode
      <3>2. NotedIn(topic, TurnsOf(snapshot)) # {}
        <4>1. PICK n \in snapshot : topic \in n.topics
          BY <2>1, <2>2 DEF Compiled
        <4>2. n.turn \in TurnsOf({m \in snapshot : topic \in m.topics})
          BY <4>1 DEF TurnsOf
        <4> QED BY <4>2, SnapshotIsNoted
      <3> QED BY <3>1, <3>2 DEF Whole, Episode
    <2>4. \A r \in records : r.attempt # ends
      BY <1>0, <2>2 DEF Fresh, FlushStep
    <2>5. \A a, u : a # ends \/ u # topic => EpisodesOf(a, u)' = EpisodesOf(a, u)
      BY <2>1, <2>3 DEF EpisodesOf
    <2>6. EpisodesOf(ends, topic)' = Whole(topic, TurnsOf(snapshot))
      <3>1. topic \in Topic
        BY <2>1 DEF IInv, TypeOK
      <3>2. EpisodesOf(ends, topic) = {}
        BY <2>1, <2>2, <3>1 DEF Compiled
      <3>3. EpisodesOf(ends, topic)' = EpisodesOf(ends, topic) \cup {Episode(topic).turns}
        BY <2>1, <2>2, <2>3 DEF EpisodesOf
      <3> QED BY <2>3, <3>2, <3>3
    <2>7. \A u, S : Whole(u, S)' = Whole(u, S)
      BY <2>2 DEF Whole, NotedIn
    <2>8. TurnsOf(snapshot)' = TurnsOf(snapshot) /\ TurnsOf(notes)' = TurnsOf(notes)
      BY <2>2 DEF TurnsOf
    <2> HIDE DEF EpisodesOf
    <2> QED BY <2>1, <2>2, <2>4, <2>5, <2>6, <2>7, <2>8 DEF Compiled
  <1>8. CASE WriteRecord
    <2> DEFINE new == [attempt |-> ends, turns |-> TurnsOf(snapshot)]
    <2>1. /\ records' = records \cup {new} /\ flush = "record" /\ flush' = "index"
          /\ new.attempt = ends /\ new.turns = TurnsOf(snapshot)
          /\ UNCHANGED <<notes, snapshot, ends, episodes, unwritten>>
      BY <1>8 DEF WriteRecord, StepAfter, turnVars, endVars
    <2> HIDE DEF new
    <2>2. TurnsOf(snapshot) \subseteq TurnsOf(notes)
      BY <1>0, TurnsOfGrows DEF Ending
    <2>3. \A topic \in Topic : EpisodesOf(ends, topic) = Whole(topic, TurnsOf(snapshot))
      BY <2>1 DEF Compiled
    <2>4. \A r \in records' : /\ r.turns \subseteq TurnsOf(notes)
                              /\ \A topic \in Topic :
                                   EpisodesOf(r.attempt, topic) = Whole(topic, r.turns)
      BY <2>1, <2>2, <2>3 DEF Compiled
    <2> QED BY <2>1, <2>4 DEF Compiled, Whole, NotedIn, EpisodesOf, TurnsOf
  <1>9. CASE UNCHANGED vars
    BY <1>9, CompiledStays DEF vars, turnVars, endVars, fileVars
  <1> QED BY <1>1, <1>2, <1>3, <1>4, <1>5, <1>6, <1>7, <1>8, <1>9 DEF Next, Ender, Flush

\* episodic_flush.py:504-522.  In a finished record every notable turn is in the episode of each
\* of its threads, for any number of attempts over one another's leftovers.
THEOREM RecordsAreWhole == Spec => []EpisodesMatchRecord
  <1>1. Init => Compiled
    BY DEF Init, Compiled
  <1>2. IInv /\ Compiled => EpisodesMatchRecord
    BY DEF Compiled, EpisodesMatchRecord, EpisodesOf, Whole, NotedIn
  <1> QED BY <1>1, <1>2, Inductive, NextCompiled, PTL DEF Spec

-----------------------------------------------------------------------------
(* The promise of SessionContract                                           *)

LEMMA InitContract == Init => Contract!Init
  BY DEF Init, Contract!Init, TurnsOf, Saved

\* Saved depends on the index and on the records of the attempt it names last.
LEMMA SavedStays ==
    ASSUME IInv, index' = index,
           \/ records' = records
           \/ \E r : records' = records \cup {r} /\ r.attempt \notin index
    PROVE  Saved' = Saved
  <1>1. CASE index = {}
    BY <1>1 DEF Saved
  <1>2. CASE index # {}
    <2>1. Last \in index /\ Last' = Last
      BY <1>2 DEF IInv, Written, Last
    <2>2. {r.turns : r \in {q \in records' : q.attempt = Last}}
          = {r.turns : r \in {q \in records : q.attempt = Last}}
      BY <2>1
    <2> QED BY <1>2, <2>1, <2>2 DEF Saved
  <1> QED BY <1>1, <1>2

\* Once the index names the current attempt, what is saved is the snapshot.
LEMMA SavedByAttempt ==
    ASSUME ends \in Nat, index \subseteq Nat, \A i \in index : i <= ends, ends \in index,
           \E r \in records : r.attempt = ends,
           \A r \in records : r.attempt = ends => r.turns = TurnsOf(snapshot)
    PROVE  Saved = TurnsOf(snapshot)
  <1>1. Last = ends
    <2>1. \A i \in index : (\A j \in index : j <= i) <=> i = ends
      OBVIOUS
    <2> QED BY <2>1 DEF Last
  <1>2. {r.turns : r \in {q \in records : q.attempt = Last}} = {TurnsOf(snapshot)}
    BY <1>1
  <1> QED BY <1>2 DEF Saved

contractVars == <<TurnsOf(notes), TurnsOf(asked), Saved, session = "cleared">>

\* Each step of the session is a step of the contract, or changes nothing it speaks of.
LEMMA StepContract == IInv /\ IInv' /\ [Next]_vars => [Contract!Next]_contractVars
  <1> SUFFICES ASSUME IInv, IInv', [Next]_vars PROVE Contract!Next \/ UNCHANGED contractVars
    OBVIOUS
  <1>0. Ending /\ Ending'
    BY DEF IInv
  <1>1. ASSUME UNCHANGED <<notes, asked, index, records>>, session' = session \/ session' = "live",
               session # "cleared"
        PROVE  UNCHANGED contractVars
    BY <1>1, SavedStays DEF contractVars, TurnsOf
  <1>2. ASSUME UNCHANGED <<notes, asked, index, records, session>> PROVE UNCHANGED contractVars
    BY <1>2, SavedStays DEF contractVars, TurnsOf
  <1>3. CASE BeginSession
    BY <1>1, <1>3 DEF BeginSession, turnVars, endVars, fileVars
  <1>4. ASSUME NEW t \in Turn, BeginTurn(t) \/ RefuseTurn(t) \/ ResumeTurn(t) \/ Respond(t)
        PROVE  UNCHANGED contractVars
    BY <1>2, <1>4 DEF BeginTurn, RefuseTurn, ResumeTurn, Respond, endVars, fileVars
  <1>5. ASSUME NEW t \in Turn, CommitNote(t) PROVE Contract!Note(t)
    <2>1. TurnsOf(notes)' = TurnsOf(notes) \cup {t}
      <3>1. PICK x \in Note : notes' = notes \cup {x} /\ x.turn = t
        BY <1>5, CommitNoteStep
      <3> QED BY <3>1, TurnsOfUnion DEF TurnsOf
    <2>2. UNCHANGED <<asked, index, records, session>>
      BY <1>5 DEF CommitNote, endVars, fileVars
    <2> QED BY <2>1, <2>2, SavedStays DEF Contract!Note, TurnsOf
  <1>6. CASE EndSession
    <2>1. /\ session = "live" /\ asked' = notes
          /\ UNCHANGED <<notes, index, records, session>>
      BY <1>6 DEF EndSession, turnVars, fileVars
    <2> QED BY <2>1, SavedStays DEF Contract!Next, Contract!AskEnd, TurnsOf
  <1>7. CASE TakeSnapshot \/ CollectRelational \/ CollectFlush \/ RelationalUpdate
    BY <1>2, <1>7
       DEF TakeSnapshot, CollectRelational, CollectFlush, RelationalUpdate, turnVars, endVars,
           fileVars
  <1>8. CASE ClearMemory
    <2>1. /\ ender = "clear" /\ session' = "cleared"
          /\ UNCHANGED <<notes, asked, index, records>>
      BY <1>8 DEF ClearMemory, turnVars, fileVars
    <2>2. session = "live" /\ flush = "succeeded" /\ asked \subseteq snapshot
      BY <1>0, <2>1 DEF Ending, Attempting
    <2>3. Saved = TurnsOf(snapshot)
      BY <2>1, <2>2, SavedByAttempt DEF IInv, TypeOK, Fresh, Written, Attempting
    <2>4. TurnsOf(asked) \subseteq Saved
      BY <2>2, <2>3, TurnsOfGrows
    <2> QED BY <2>1, <2>2, <2>4, SavedStays DEF Contract!Next, Contract!Clear, TurnsOf
  <1>9. CASE Compile \/ WriteEpisode \/ UpdateCooccurrence \/ WriteHandoff \/ FlushRaises
    BY <1>2, <1>9
       DEF Compile, WriteEpisode, UpdateCooccurrence, WriteHandoff, FlushRaises, turnVars,
           endVars, fileVars
  <1>10. CASE WriteRecord
    <2> DEFINE new == [attempt |-> ends, turns |-> TurnsOf(snapshot)]
    <2>1. /\ records' = records \cup {new} /\ new.attempt = ends
          /\ flush = "record" /\ UNCHANGED <<notes, asked, index, session>>
      BY <1>10 DEF WriteRecord, turnVars, endVars
    <2> HIDE DEF new
    <2>2. ends \notin index
      BY <2>1 DEF IInv, Fresh, FlushStep
    <2> QED BY <2>1, <2>2, SavedStays DEF contractVars, TurnsOf
  <1>11. CASE WriteIndex
    <2>1. /\ flush = "index" /\ flush' = "succeeded" /\ index' = index \cup {ends}
          /\ UNCHANGED <<session, notes, asked, snapshot, ender, ends, records>>
      BY <1>11 DEF WriteIndex, StepAfter, turnVars, endVars
    <2>2. session = "live" /\ asked \subseteq snapshot /\ snapshot \subseteq notes
      BY <1>0, <2>1 DEF Ending, Attempting, FlushStep
    <2>3. Saved' = TurnsOf(snapshot)
      <3>1. ends \in Nat /\ index' \subseteq Nat /\ ends \in index' /\ \A i \in index' : i <= ends
        BY <2>1 DEF IInv, TypeOK, Fresh
      <3>2. /\ \E r \in records : r.attempt = ends
            /\ \A r \in records : r.attempt = ends => r.turns = TurnsOf(snapshot)
        BY <2>1 DEF IInv, Written
      <3>3. Last' = ends
        <4>1. \A i \in index' : (\A j \in index' : j <= i) <=> i = ends
          BY <3>1
        <4> QED BY <3>1, <4>1 DEF Last
      <3>4. {r.turns : r \in {q \in records : q.attempt = ends}} = {TurnsOf(snapshot)}
        BY <3>2
      <3> QED BY <2>1, <3>1, <3>3, <3>4 DEF Saved
    <2>4. TurnsOf(asked) \subseteq TurnsOf(snapshot) /\ TurnsOf(snapshot) \subseteq TurnsOf(notes)
      BY <2>2, TurnsOfGrows
    <2> QED BY <2>1, <2>2, <2>3, <2>4 DEF Contract!Next, Contract!Save, TurnsOf
  <1>12. CASE UNCHANGED vars
    BY <1>2, <1>12 DEF vars, turnVars, endVars, fileVars
  <1> QED BY <1>3, <1>4, <1>5, <1>6, <1>7, <1>8, <1>9, <1>10, <1>11, <1>12
          DEF Next, EventLoop, Ender, Flush, Contract!Next

\* session_end.py:9-21.  Working memory is let go only after a complete record of every turn
\* noted before the end was asked for, although turns go on, either workflow may fail
\* and the end may be asked for again: the session implements SessionContract.
THEOREM SessionKeepsContract == Spec => ImplementsContract
  <1>1. Init /\ [][Next]_vars /\ []IInv => Contract!Init /\ [][Contract!Next]_contractVars
    BY InitContract, StepContract, PTL
  <1> QED BY <1>1, Inductive, PTL DEF Spec, ImplementsContract, Contract!Spec, contractVars
=============================================================================
