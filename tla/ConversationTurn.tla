--------------------------- MODULE ConversationTurn ---------------------------
(***************************************************************************)
(* What a turn of the conversation does to the state that outlives it      *)
(* (workflows/personal_assistant.py, handle_turn): it infers the register, *)
(* retrieves, ranks the thread stack, surfaces at most one item of the     *)
(* holding store and takes a correction of an earlier register.  Turns run *)
(* on one event loop and may be suspended at the two awaits, of the        *)
(* retrieval and of the contradiction record.  Beside it the action server *)
(* settles items in a HoldingStore of its own over the same file, and the  *)
(* workflow contradiction_detection adds items with one that it loads when *)
(* it starts.  The first two are not loaded again before the process       *)
(* restarts.                                                               *)
(***************************************************************************)
EXTENDS Integers, Sequences, FiniteSets, ThreadStack, RegisterInference, Discharge, Retrieval

CONSTANTS
    Turn,       \* the turns, numbered in the order in which they are sent
    Thread,     \* threads that may be put on the stack
    Item,       \* the ids of holding items, in the order of the dictionary
    Kind,       \* what register each asks for, and whether it is a contradiction
    Scenario    \* the inputs there are; each is explored on its own

Items == {Item[i] : i \in DOMAIN Item}
NoThread == "none"

ASSUME TurnAssumption ==
    /\ Turn \in SUBSET (Nat \ {0}) /\ None \notin Turn /\ Item \in Seq(Items)
    /\ Kind \in [Items -> [needed : Register \cup {"any"}, contradiction : BOOLEAN]]
    /\ Nothing \notin Items /\ NoThread \notin Thread
    /\ \A s \in Scenario :
         /\ s.maxTurns \in Nat /\ s.maxSuspended \in Nat
         /\ s.messages \subseteq Message /\ s.threads \subseteq Thread
         /\ s.items \subseteq Items /\ s.scores \subseteq [Items -> Nat]
         /\ s.client \subseteq BOOLEAN /\ s.failures \subseteq BOOLEAN /\ s.maxRestarts \in Nat

VARIABLES
    scenario,
    client,     \* whether there is a memory client, and so awaits
    busy,       \* the turn on the event loop between its awaits, or None
    at,         \* where each turn is in handle_turn
    local,      \* its local variables: the turn number, the register inferred, the threads
                \* whose stance it has noted (pre_turn_stances) and the item selected
    turnCount, stack, floating,   \* in working memory
    update,     \* history: the last call of update_stack, with the threads of the stack it names
    items,      \* the assistant's HoldingStore: each item's state
    theirs,     \* the action server's
    detection,  \* whether contradiction_detection runs, its store, and the item of the
                \* contradiction it has recorded and not yet written
    file,       \* holding.yaml
    overwritten,\* history: a save has dropped what another store had saved
    stale,      \* history: and a store was loaded after it had
    shown,      \* history: the turns whose answer showed each item
    past,       \* history: the turns sent after a restart that followed its surfacing by the
                \* assistant or its settling by a client, of each item
    log,        \* register_inference.jsonl
    history,    \* _correction_history
    restarts    \* counts what a scenario's maxRestarts bounds

loopVars  == <<client, busy, at, local>>
stackVars == <<turnCount, stack, floating, update>>
storeVars == <<items, theirs, detection, file, overwritten, stale, shown, past>>
logVars   == <<log, history>>
vars == <<scenario, loopVars, stackVars, storeVars, logVars, restarts>>

ItemState == {"absent", "open", "surfaced"}
Locals == [number : Nat, register : Register, known : SUBSET Thread,
           candidate : Items \cup {Nothing}]
NoLocals == [number |-> 0, register |-> "casual", known |-> {}, candidate |-> Nothing]
Dictionary == [Items -> ItemState]
NoDetection == [runs |-> FALSE, store |-> [i \in Items |-> "absent"], recorded |-> Nothing]
NoUpdate == [turn |-> 0, referenced |-> {}]

\* The entries have scores within bounds, however turns are delayed.
TypeOK ==
    /\ scenario \in Scenario /\ client \in BOOLEAN /\ busy \in Turn \cup {None}
    /\ at \in [Turn -> {"sent", "retrieving", "responding", "hydrating", "surfacing", "noting",
                        "answered", "failed"}]
    /\ local \in [Turn -> Locals]
    /\ turnCount \in Nat /\ stack \in Seq(Entry(Thread)) /\ floating \in Seq(Entry(Thread))
    /\ \A i \in DOMAIN stack : stack[i].salience <= One
    /\ update \in [turn : Nat, referenced : SUBSET Thread]
    /\ items \in Dictionary /\ theirs \in Dictionary /\ file \in Dictionary
    /\ detection \in [runs : BOOLEAN, store : Dictionary, recorded : Items \cup {Nothing}]
    /\ overwritten \in BOOLEAN /\ stale \in BOOLEAN /\ shown \in [Items -> SUBSET Turn]
    /\ past \in [Items -> SUBSET Turn]
    /\ log \in Seq(Correction) /\ history \in Seq(Correction) /\ restarts \in Nat

ThreadsOf(entries) == {entries[i].thread : i \in DOMAIN entries}

\* begin_session: working memory is empty, and run_conversation_server passes an
\* empty correction history.
Init ==
    /\ scenario \in Scenario
    /\ client \in scenario.client
    /\ busy = None
    /\ at = [t \in Turn |-> "sent"] /\ local = [t \in Turn |-> NoLocals]
    /\ turnCount = 0 /\ stack = <<>> /\ floating = <<>> /\ update = NoUpdate
    /\ \E held \in SUBSET scenario.items :
         file = [i \in Items |-> IF i \in held THEN "open" ELSE "absent"]
    /\ items = file /\ theirs = file /\ detection = NoDetection
    /\ overwritten = FALSE /\ stale = FALSE /\ shown = [i \in Items |-> {}]
    /\ past = [i \in Items |-> {}]
    /\ log = <<>> /\ history = <<>> /\ restarts = 0

Goto(t, place) == at' = [at EXCEPT ![t] = place]

\* The turn returns, or raises; its locals are gone.
Leave(t, place) == Goto(t, place) /\ busy' = None /\ local' = [local EXCEPT ![t] = NoLocals]

-----------------------------------------------------------------------------
(* A turn                                                                   *)

\* The turn is counted, and its register inferred.  The retrieval is awaited.
BeginTurn(t, m) ==
    /\ busy = None /\ at[t] = "sent"
    /\ t <= scenario.maxTurns /\ \A u \in Turn : u < t => at[u] # "sent"
    /\ Cardinality({u \in Turn : at[u] \in {"retrieving", "hydrating"}}) < scenario.maxSuspended
    /\ turnCount' = turnCount + 1
    /\ local' = [local EXCEPT ![t] =
         [NoLocals EXCEPT !.number = turnCount + 1, !.known = ThreadsOf(stack),
                          !.register = InferRegister(m, history)]]
    /\ IF client THEN Goto(t, "retrieving") /\ UNCHANGED busy
                 ELSE Goto(t, "responding") /\ busy' = t
    /\ UNCHANGED <<scenario, client, stack, floating, update, storeVars, logVars, restarts>>

\* The memory client has answered, or failed.
Retrieve(t) ==
    /\ busy = None /\ at[t] = "retrieving"
    /\ Goto(t, "responding") /\ busy' = t
    /\ UNCHANGED <<scenario, client, local, stackVars, storeVars, logVars, restarts>>

\* An exception of the model, or of a store: the turn stays counted.
FailTurn(t) ==
    /\ busy = t /\ at[t] \in {"responding", "noting"}
    /\ TRUE \in scenario.failures
    /\ Leave(t, "failed")
    /\ UNCHANGED <<scenario, client, stackVars, storeVars, logVars, restarts>>

\* The threads named by the documents retrieved that are not pending.
Referenced(primary, secondary) ==
    LET semantic == ConversationalRetrieval(primary, secondary).semantic
    IN {semantic[i].thread : i \in DOMAIN semantic} \ {NoThread}

\* list_unsurfaced
Unsurfaced ==
    LET held == Sublist(Item, {n \in DOMAIN Item : items[Item[n]] = "open"})
    IN [n \in DOMAIN held |->
          [id |-> held[n], surfaced |-> FALSE, needed |-> Kind[held[n]].needed,
           contradiction |-> Kind[held[n]].contradiction]]

\* The answer is generated, the stack updated, and an item selected; the record of a
\* contradiction is awaited, if there is a client to ask.  moved are threads whose
\* stance is not what it was when the turn began.
Respond(t, primary, secondary, moved, score) ==
    /\ busy = t /\ at[t] = "responding"
    /\ moved \subseteq local[t].known \cap ThreadsOf(stack)
    /\ ~client => primary = Unavailable
    /\ secondary # Unavailable => Cardinality(local[t].known \cup ThreadsOf(stack)) > 1
    /\ LET referenced == Referenced(primary, secondary)
           selected == SelectCandidate(Unsurfaced, local[t].register, score)
       IN /\ stack' = UpdateStack(stack, local[t].number, referenced, moved)
          /\ floating' = UpdateFloating(floating, local[t].number)
          /\ update' = [turn |-> local[t].number, referenced |-> referenced \cap ThreadsOf(stack)]
          /\ local' = [local EXCEPT ![t].candidate = selected]
          /\ IF selected = Nothing THEN Goto(t, "noting") /\ UNCHANGED busy
             ELSE IF client /\ Kind[selected].contradiction
             THEN Goto(t, "hydrating") /\ busy' = None
             ELSE Goto(t, "surfacing") /\ UNCHANGED busy
    /\ UNCHANGED <<scenario, client, turnCount, storeVars, logVars, restarts>>

\* hydrate_contradiction returns, with a record or without.
Hydrate(t) ==
    /\ busy = None /\ at[t] = "hydrating"
    /\ Goto(t, "surfacing") /\ busy' = t
    /\ UNCHANGED <<scenario, client, local, stackVars, storeVars, logVars, restarts>>

\* Mutant: discharge() of an item that was discharged while the turn was suspended.
AnyItem(i) == items[i] # "absent"

CanDischarge(i) == items[i] = "open"

\* _save writes the whole dictionary, over whatever other stores have saved.
Save(dictionary) ==
    /\ file' = dictionary
    /\ overwritten' = (overwritten \/ \E i \in Items : file[i] \notin {"absent", dictionary[i]}
                                                    /\ dictionary[i] # "surfaced")

\* HoldingStore.discharge: it raises for an item that was surfaced since it was selected.
Surface(t) ==
    /\ busy = t /\ at[t] = "surfacing"
    /\ LET i == local[t].candidate
       IN IF CanDischarge(i)
          THEN /\ items' = [items EXCEPT ![i] = "surfaced"]
               /\ Save([items EXCEPT ![i] = "surfaced"])
               /\ Goto(t, "noting") /\ UNCHANGED <<busy, local>>
          ELSE Leave(t, "failed") /\ UNCHANGED <<items, file, overwritten>>
    /\ UNCHANGED <<scenario, client, stackVars, theirs, detection, stale, shown, past, logVars,
                   restarts>>

\* Mutant: the correction is logged before it is validated.
ApplyAny(c) ==
    IF c # None THEN log' = Append(log, c) /\ history' = Append(log, c) ELSE UNCHANGED logVars

\* apply_correction logs a valid correction, and the whole log is read again.
ApplyCorrection(c) ==
    IF c # None /\ c \in Correction
    THEN log' = Append(log, c) /\ history' = Append(log, c)
    ELSE UNCHANGED logVars

\* The note is committed and the turn answered.
FinishTurn(t, c) ==
    /\ busy = t /\ at[t] = "noting"
    /\ ApplyCorrection(c)
    /\ shown' = [i \in Items |-> IF i = local[t].candidate THEN shown[i] \cup {t} ELSE shown[i]]
    /\ Leave(t, "answered")
    /\ UNCHANGED <<scenario, client, stackVars, items, theirs, detection, file, overwritten, stale,
                   past, restarts>>

-----------------------------------------------------------------------------
(* The rest of the process                                                  *)

\* A thread comes up, or is set afloat.
AddThreadToStack(thread) ==
    /\ busy = None /\ turnCount > 0
    /\ thread \notin ThreadsOf(stack) \cup ThreadsOf(floating)
    /\ \/ stack' = AddThread(stack, thread, turnCount) /\ UNCHANGED floating
       \/ floating' = AddFloating(floating, thread, turnCount) /\ UNCHANGED stack
    /\ UNCHANGED <<scenario, loopVars, turnCount, update, storeVars, logVars, restarts>>

\* A client of the action server resolves or dismisses a contradiction, which its store
\* must hold open.
SettleItem(i) ==
    /\ Kind[i].contradiction /\ theirs[i] = "open"
    /\ theirs' = [theirs EXCEPT ![i] = "surfaced"]
    /\ Save([theirs EXCEPT ![i] = "surfaced"])
    /\ UNCHANGED <<scenario, loopVars, stackVars, items, detection, stale, shown, past, logVars,
                   restarts>>

detectionUnchanged == <<scenario, loopVars, stackVars, items, theirs, stale, shown, past, logVars,
                        restarts>>

\* contradiction_detection starts, if there is a contradiction to be found, and loads
\* its store.
StartDetection ==
    /\ ~detection.runs
    /\ \E i \in scenario.items : file[i] = "absent" /\ Kind[i].contradiction
    /\ detection' = [runs |-> TRUE, store |-> file, recorded |-> Nothing]
    /\ UNCHANGED <<detectionUnchanged, file, overwritten>>

\* A conflict is confirmed, and its record created in the memory server.
RecordContradiction(i) ==
    /\ detection.runs /\ detection.recorded = Nothing
    /\ Kind[i].contradiction /\ \A d \in {items, theirs, detection.store, file} : d[i] = "absent"
    /\ detection' = [detection EXCEPT !.recorded = i]
    /\ UNCHANGED <<detectionUnchanged, file, overwritten>>

\* _write_contradiction_holding_item
WriteHoldingItem ==
    /\ detection.runs /\ detection.recorded # Nothing
    /\ LET written == [detection.store EXCEPT ![detection.recorded] = "open"]
       IN detection' = [runs |-> TRUE, store |-> written, recorded |-> Nothing] /\ Save(written)
    /\ UNCHANGED detectionUnchanged

\* It returns, is cancelled or raises, perhaps between the record and the item.
EndDetection ==
    /\ detection.runs
    /\ detection' = NoDetection
    /\ UNCHANGED <<detectionUnchanged, file, overwritten>>

\* The process is stopped and started: working memory is gone, the stores are loaded
\* from the file, and the correction history is empty until the next correction.
Restart ==
    /\ restarts < scenario.maxRestarts /\ restarts' = restarts + 1
    /\ busy' = None
    /\ at' = [t \in Turn |-> IF at[t] \in {"sent", "answered"} THEN at[t] ELSE "failed"]
    /\ local' = [t \in Turn |-> NoLocals]
    /\ turnCount' = 0 /\ stack' = <<>> /\ floating' = <<>> /\ update' = NoUpdate
    /\ items' = file /\ theirs' = file /\ detection' = NoDetection
    /\ stale' = (stale \/ overwritten)
    /\ past' = [i \in Items |-> IF "surfaced" \in {items[i], theirs[i]}
                               THEN {t \in Turn : at[t] = "sent"} ELSE past[i]]
    /\ history' = <<>>
    /\ UNCHANGED <<scenario, client, file, overwritten, shown, log>>

Next ==
    \/ \E t \in Turn :
         \/ \E m \in scenario.messages : BeginTurn(t, m)
         \/ Retrieve(t) \/ FailTurn(t) \/ Hydrate(t) \/ Surface(t)
         \/ \E primary \in scenario.primary, secondary \in scenario.secondary,
               moved \in SUBSET scenario.moving, score \in scenario.scores :
              Respond(t, primary, secondary, moved, score)
         \/ \E c \in scenario.corrections \cup {None} : FinishTurn(t, c)
    \/ \E thread \in scenario.threads : AddThreadToStack(thread)
    \/ \E i \in scenario.items : SettleItem(i) \/ RecordContradiction(i)
    \/ StartDetection \/ WriteHoldingItem \/ EndDetection
    \/ Restart

Spec == Init /\ [][Next]_vars
-----------------------------------------------------------------------------
(* Properties                                                               *)

\* thread_stack.py:3-9.  The stack holds at most two threads, and the foreground is
\* the one with the highest salience, whatever the order in which delayed turns
\* update it and threads come up.
ForegroundLeads ==
    /\ Len(stack) <= 2
    /\ stack # <<>> =>
         \E i \in DOMAIN stack :
            /\ stack[i].state = "foreground"
            /\ \A j \in DOMAIN stack \ {i} : /\ stack[j].state = "peripheral"
                                            /\ stack[j].salience <= stack[i].salience

\* The salience that a thread has once its recency has decayed to this is enough.
InView(decayed, depth) ==
    Blend(Salience.recencyFloor + Times(One - Salience.recencyFloor, decayed), depth)
      >= Salience.dropThreshold

\* What the parameters have to keep to for a reference to save a thread: a thread touched in
\* this very turn is in view, and of one that was in view a turn ago a reference makes up for
\* the turn.
ReferenceSaves ==
    /\ Salience.recencyWeight >= Salience.dropThreshold
    /\ \A decayed \in 1..One, depth \in 0..One,
          boost \in {Salience.depthBoostReference, Salience.depthBoostStance} :
         InView(decayed, depth) => InView(NextPower(decayed), Cap(depth + boost))

\* And for a floating thread to be removed by time only: its recency alone keeps it.
FloorSaves ==
    Times(Salience.recencyWeight, Salience.floatingRecencyFloor) >= Salience.floatingDropThreshold

\* A thread the user has just come back to is not dropped, although the recency that
\* update_salience takes is that before the reference: as long as no turn is missing
\* between this update and the one before.
ReferencedIsKept ==
    [][update'.turn = update.turn + 1 =>
         \A i \in DOMAIN stack : stack[i].thread \in update'.referenced =>
                                 stack[i].thread \in ThreadsOf(stack')]_vars

\* A floating thread is removed by time only, more than
\* floating_max_turns_unresolved turns after it was added.
FloatingKept ==
    [][\A i \in DOMAIN floating :
         \/ floating[i].thread \in ThreadsOf(floating')
         \/ update'.turn > floating[i].touched + Salience.floatingMaxTurnsUnresolved
         \/ restarts' # restarts]_vars

\* discharge.py:14, api.py:35.  Of the turns that select an item while others wait for
\* its contradiction record, one shows it; and after a restart no turn shows an item
\* that a turn had surfaced or that a client had resolved or dismissed: unless a store
\* was loaded from a file in which one store had overwritten what another had saved.
ShownOnce ==
    ~stale => \A i \in Items : Cardinality(shown[i]) <= 1 /\ (shown[i] \cap past[i] = {})

Margin(m, c, h) ==
    LET scores == Adjusted(BaseScores(m), h) IN scores[c.corrected] - scores[c.inferred]

\* register_inference.py:255.  A correction moves every message towards the register
\* the user meant, also when it pushes the oldest out of the window, unless that one
\* said the same; and if the history was up to date.  After a restart it is not: the
\* first correction brings back the whole log.
CorrectionHelps ==
    [][log' # log /\ history = log =>
         LET c == log'[Len(log')]
             repeats == Len(log) >= Window /\ log[Len(log) - Window + 1] = c
         IN c.inferred = c.corrected \/
            \A m \in scenario.messages :
              IF repeats THEN Margin(m, c, history') = Margin(m, c, history)
                         ELSE Margin(m, c, history') > Margin(m, c, history)]_vars
=============================================================================
