------------------------------- MODULE Session -------------------------------
(***************************************************************************)
(* One conversation: the turns that the server's event loop interleaves    *)
(* (workflows/personal_assistant.py), and the end of the session, in which *)
(* a thread takes a snapshot of working memory and two pool threads run    *)
(* relational_update and the six steps of episodic_flush from it           *)
(* (workflows/session_end.py, workflows/episodic_flush.py).  The server    *)
(* keeps answering while the session ends, and a failed end may be tried   *)
(* again.                                                                  *)
(***************************************************************************)
EXTENDS Naturals, FiniteSets

CONSTANTS Turn,     \* the messages sent to the server
          Topic,    \* the conversation threads that may be on the stack during a turn
          None,     \* no turn
          MaxEnds   \* bound on the calls of end_session

ASSUME SessionAssumption ==
    None \notin Turn /\ IsFiniteSet(Turn) /\ MaxEnds \in Nat

VARIABLES
    session,    \* PersonalAssistant._working_memory: not begun, live or None again
    turnCount,  \* its turn_count
    notes,      \* its turn_notes; a turn in progress holds on to them
    loop,       \* the turn the event loop is running, between two awaits
    at,         \* where each turn is in handle_turn
    number,     \* each turn's local turn_number
    ender,      \* where the thread that runs end_session is
    ends,       \* the calls of end_session, and the current one's number
    asked,      \* history: the notes there were when end_session was called
    snapshot,   \* the deepcopy both workflows read
    relational, \* the state of relational_update
    flush,      \* the next step of episodic_flush
    unwritten,  \* the topics whose episode it has still to write
    episodes, cooccurrence, handoffs, records, index   \* what is in the files

turnVars == <<turnCount, notes, loop, at, number>>
fileVars == <<episodes, cooccurrence, handoffs, records, index>>
endVars  == <<ender, ends, asked, snapshot>>
vars == <<session, turnVars, endVars, relational, flush, unwritten, fileVars>>

Note == [turn : Turn, number : Nat, topics : SUBSET Topic]

\* The number of the attempt is history: in the files the rows of all attempts carry the
\* one session_id, and the record an id of its own.
ThreadEpisode == [attempt : Nat, topic : Topic, turns : SUBSET Turn]
SessionRecord == [attempt : Nat, turns : SUBSET Turn]
FlushStep == {"compile", "episodes", "handoff", "record", "index"}

\* A turn is counted once, and no turn has a number that was not counted.
TypeOK ==
    /\ session \in {"none", "live", "cleared"}
    /\ turnCount \in 0..Cardinality(Turn) /\ notes \in SUBSET Note
    /\ loop \in Turn \cup {None}
    /\ at \in [Turn -> {"sent", "retrieving", "responding", "noting", "answered", "failed"}]
    /\ number \in [Turn -> 0..turnCount]
    /\ ender \in {"idle", "snapshot", "relational", "flush", "clear"}
    /\ ends \in Nat /\ asked \in SUBSET Note /\ snapshot \in SUBSET Note
    /\ relational \in {"idle", "running", "succeeded", "failed"}
    /\ flush \in FlushStep \cup {"idle", "succeeded", "failed"}
    /\ unwritten \in SUBSET Topic
    /\ episodes \in SUBSET ThreadEpisode /\ records \in SUBSET SessionRecord
    /\ cooccurrence \in SUBSET Nat /\ handoffs \in SUBSET Nat /\ index \in SUBSET Nat

Init ==
    /\ session = "none" /\ turnCount = 0 /\ notes = {}
    /\ loop = None
    /\ at = [t \in Turn |-> "sent"] /\ number = [t \in Turn |-> 0]
    /\ ender = "idle" /\ ends = 0 /\ asked = {} /\ snapshot = {}
    /\ relational = "idle" /\ flush = "idle" /\ unwritten = {}
    /\ episodes = {} /\ cooccurrence = {} /\ handoffs = {} /\ records = {} /\ index = {}

-----------------------------------------------------------------------------
(* The event loop: handle_turn                                              *)

Goto(t, place) == at' = [at EXCEPT ![t] = place]

\* _get_assistant: the first request begins the session.
BeginSession ==
    /\ session = "none" /\ loop = None
    /\ session' = "live"
    /\ UNCHANGED <<turnVars, endVars, relational, flush, unwritten, fileVars>>

\* The turn is numbered; then it may be suspended at the await of the retrieval,
\* with other turns running meanwhile.  With no memory client nothing is awaited.
BeginTurn(t) ==
    /\ loop = None /\ at[t] = "sent" /\ session = "live"
    /\ turnCount' = turnCount + 1
    /\ number' = [number EXCEPT ![t] = turnCount + 1]
    /\ \/ Goto(t, "retrieving") /\ UNCHANGED loop
       \/ Goto(t, "responding") /\ loop' = t
    /\ UNCHANGED <<session, notes, endVars, relational, flush, unwritten, fileVars>>

\* handle_turn raises RuntimeError once working memory has been cleared.
RefuseTurn(t) ==
    /\ loop = None /\ at[t] = "sent" /\ session = "cleared"
    /\ Goto(t, "failed")
    /\ UNCHANGED <<session, turnCount, notes, loop, number, endVars, relational, flush,
                   unwritten, fileVars>>

ResumeTurn(t) ==
    /\ loop = None /\ at[t] = "retrieving"
    /\ Goto(t, "responding") /\ loop' = t
    /\ UNCHANGED <<session, turnCount, notes, number, endVars, relational, flush,
                   unwritten, fileVars>>

\* The inference, the stack update and the discharge check; an exception of any
\* of them leaves the turn counted and without a note.
Respond(t) ==
    /\ loop = t /\ at[t] = "responding"
    /\ \/ Goto(t, "noting") /\ UNCHANGED loop
       \/ Goto(t, "failed") /\ loop' = None
    /\ UNCHANGED <<session, turnCount, notes, number, endVars, relational, flush,
                   unwritten, fileVars>>

\* Mutant: the number is read from working memory when the note is written.
NumberAtNote(t) == IF loop = t THEN turnCount ELSE number[t]

TurnNumber(t) == number[t]

\* Mutant: the turn is counted again when its note is written.
CountAndCommit(t) ==
    /\ loop = t /\ at[t] = "noting"
    /\ \E topics \in SUBSET Topic :
         notes' = notes \cup {[turn |-> t, number |-> TurnNumber(t), topics |-> topics]}
    /\ turnCount' = turnCount + 1
    /\ Goto(t, "answered") /\ loop' = None
    /\ UNCHANGED <<session, number, endVars, relational, flush, unwritten, fileVars>>

\* The note is appended to the working memory the turn began with, even if the
\* session has let go of it.  topics are the threads on the stack, if it is notable.
CommitNote(t) ==
    /\ loop = t /\ at[t] = "noting"
    /\ \E topics \in SUBSET Topic :
         notes' = notes \cup {[turn |-> t, number |-> TurnNumber(t), topics |-> topics]}
    /\ Goto(t, "answered") /\ loop' = None
    /\ UNCHANGED <<session, turnCount, number, endVars, relational, flush, unwritten,
                   fileVars>>

-----------------------------------------------------------------------------
(* The thread of end_session                                                *)

\* It raises RuntimeError, and changes nothing, when working memory is cleared.
EndSession ==
    /\ ender = "idle" /\ session = "live" /\ ends < MaxEnds
    /\ ender' = "snapshot" /\ ends' = ends + 1 /\ asked' = notes
    /\ UNCHANGED <<session, turnVars, snapshot, relational, flush, unwritten, fileVars>>

\* take_snapshot, and both workflows are submitted to the pool.
TakeSnapshot ==
    /\ ender = "snapshot"
    /\ snapshot' = notes
    /\ relational' = "running" /\ flush' = "compile"
    /\ ender' = "relational"
    /\ UNCHANGED <<session, turnVars, ends, asked, unwritten, fileVars>>

\* Mutant: an exception of relational_update is not caught.
CollectOrRaise ==
    /\ ender = "relational" /\ relational \in {"succeeded", "failed"}
    /\ ender' = IF relational = "succeeded" THEN "flush" ELSE "idle"
    /\ UNCHANGED <<session, turnVars, ends, asked, snapshot, relational, flush, unwritten,
                   fileVars>>

\* Its result or its exception is kept, and changes nothing for the flush.
CollectRelational ==
    /\ ender = "relational" /\ relational \in {"succeeded", "failed"}
    /\ ender' = "flush"
    /\ UNCHANGED <<session, turnVars, ends, asked, snapshot, relational, flush, unwritten,
                   fileVars>>

\* Mutant: working memory is cleared whatever became of the flush.
ClearAnyway == "clear"

AfterFlush == IF flush = "succeeded" THEN "clear" ELSE "idle"

CollectFlush ==
    /\ ender = "flush" /\ flush \in {"succeeded", "failed"}
    /\ ender' = AfterFlush
    /\ UNCHANGED <<session, turnVars, ends, asked, snapshot, relational, flush, unwritten,
                   fileVars>>

ClearMemory ==
    /\ ender = "clear"
    /\ session' = "cleared"
    /\ ender' = "idle"
    /\ UNCHANGED <<turnVars, ends, asked, snapshot, relational, flush, unwritten, fileVars>>

-----------------------------------------------------------------------------
(* The pool threads                                                         *)

RelationalUpdate ==
    /\ relational = "running"
    /\ relational' \in {"succeeded", "failed"}
    /\ UNCHANGED <<session, turnVars, endVars, flush, unwritten, fileVars>>

\* Mutant: the index rows come before the record.
IndexFirst ==
    [compile |-> "episodes", episodes |-> "handoff", handoff |-> "index",
     index |-> "record", record |-> "succeeded"]

\* The order of the steps; the record names the handoff note.
StepAfter ==
    [compile |-> "episodes", episodes |-> "handoff", handoff |-> "record",
     record |-> "index", index |-> "succeeded"]

TurnsOf(S) == {n.turn : n \in S}

\* Step 1: one episode per thread with notable turns.
Compile ==
    /\ flush = "compile" /\ flush' = StepAfter[flush]
    /\ unwritten' = UNION {n.topics : n \in snapshot}
    /\ UNCHANGED <<session, turnVars, endVars, relational, fileVars>>

\* Mutant: the notable turns are not grouped by thread.
EpisodeOfAll(topic) ==
    [attempt |-> ends, topic |-> topic, turns |-> TurnsOf({n \in snapshot : n.topics # {}})]

Episode(topic) ==
    [attempt |-> ends, topic |-> topic, turns |-> TurnsOf({n \in snapshot : topic \in n.topics})]

\* Step 2, one episode.
WriteEpisode ==
    /\ flush = "episodes"
    /\ \E topic \in unwritten :
         /\ episodes' = episodes \cup {Episode(topic)}
         /\ unwritten' = unwritten \ {topic}
    /\ UNCHANGED <<session, turnVars, endVars, relational, flush, cooccurrence, handoffs,
                   records, index>>

\* Step 3; no preemption context is wired in, so the cooperation point after it
\* does nothing.
UpdateCooccurrence ==
    /\ flush = "episodes" /\ unwritten = {} /\ flush' = StepAfter[flush]
    /\ cooccurrence' = cooccurrence \cup {ends}
    /\ UNCHANGED <<session, turnVars, endVars, relational, unwritten, episodes, handoffs,
                   records, index>>

\* Step 4.
WriteHandoff ==
    /\ flush = "handoff" /\ flush' = StepAfter[flush]
    /\ handoffs' = handoffs \cup {ends}
    /\ UNCHANGED <<session, turnVars, endVars, relational, unwritten, episodes,
                   cooccurrence, records, index>>

\* Step 5.
WriteRecord ==
    /\ flush = "record" /\ flush' = StepAfter[flush]
    /\ records' = records \cup {[attempt |-> ends, turns |-> TurnsOf(snapshot)]}
    /\ UNCHANGED <<session, turnVars, endVars, relational, unwritten, episodes,
                   cooccurrence, handoffs, index>>

\* Step 6.
WriteIndex ==
    /\ flush = "index" /\ flush' = StepAfter[flush]
    /\ index' = index \cup {ends}
    /\ UNCHANGED <<session, turnVars, endVars, relational, unwritten, episodes,
                   cooccurrence, handoffs, records>>

\* The model, an embedding or a write of any step raises.
FlushRaises ==
    /\ flush \in FlushStep /\ flush' = "failed"
    /\ UNCHANGED <<session, turnVars, endVars, relational, unwritten, fileVars>>

-----------------------------------------------------------------------------
EventLoop ==
    \/ BeginSession
    \/ \E t \in Turn : \/ BeginTurn(t) \/ RefuseTurn(t) \/ ResumeTurn(t) \/ Respond(t)
                       \/ CommitNote(t)

Ender == TakeSnapshot \/ CollectRelational \/ CollectFlush \/ ClearMemory

Flush == \/ Compile \/ WriteEpisode \/ UpdateCooccurrence \/ WriteHandoff \/ WriteRecord
         \/ WriteIndex \/ FlushRaises

Next == EventLoop \/ EndSession \/ Ender \/ RelationalUpdate \/ Flush

Spec == Init /\ [][Next]_vars

\* The threads of a session end keep running; no one has to send a message or to
\* end the session.
FairSpec == Spec /\ WF_vars(Ender) /\ WF_vars(RelationalUpdate) /\ WF_vars(Flush)
-----------------------------------------------------------------------------
(* Properties                                                               *)

\* Turn ids are made from turn numbers: no two notes share one, however the awaits
\* interleave the turns (they may be appended out of order).
TurnIdsAreUnique == \A m, n \in notes : m.number = n.number => m = n

\* At every moment, and so after a crash at any moment, the files name only what
\* is there: a session record a handoff note, the index a session that has a record.
FilesRefer ==
    /\ \A r \in records : r.attempt \in handoffs
    /\ \A i \in index : \E r \in records : r.attempt = i

\* episodic_flush.py:214-279, 561-580.  What one attempt has written in full goes together:
\* every notable turn of the record is in the episode of each of its threads of the same
\* attempt, whatever turns were noted while the flush compiled.  (A reader who joins by
\* session_id also finds the episodes of attempts that failed.)
EpisodesMatchRecord ==
    \A r \in records : r.attempt \in index =>
        \A topic \in Topic :
            LET noted == {n.turn : n \in {m \in notes : topic \in m.topics /\ m.turn \in r.turns}}
            IN  {e.turns : e \in {f \in episodes : f.attempt = r.attempt /\ f.topic = topic}}
                = IF noted = {} THEN {} ELSE {noted}

\* session_end.py:9-21.  What the working memory's owner is promised.
Last == CHOOSE i \in index : \A j \in index : j <= i

Saved == IF index = {} THEN {} ELSE UNION {r.turns : r \in {q \in records : q.attempt = Last}}

Contract == INSTANCE SessionContract WITH
    held <- TurnsOf(notes), promised <- TurnsOf(asked), saved <- Saved,
    cleared <- (session = "cleared")

\* The session implements that promise: working memory is let go only after a
\* complete record of every turn answered before the end was asked for.
ImplementsContract == Contract!Spec

\* session_end.py:15.  The two workflows are independent: once the flush succeeds,
\* working memory is let go even if the relational update fails.
FlushedIsCleared == (flush = "succeeded" /\ ender # "idle") ~> (session = "cleared")

\* episodic_flush.py:16-21.  All six steps complete or there is no record at all.
NoPartialRecord ==
    flush = "failed" =>
        /\ \A e \in episodes : e.attempt # ends
        /\ ends \notin cooccurrence \cup handoffs
        /\ \A r \in records : r.attempt # ends
=============================================================================
