---------------------------- MODULE ActionServer ----------------------------
(***************************************************************************)
(* The stores that keep a dictionary in memory and save it as a whole to   *)
(* one file: the holding store and the borderline pool, whose items the    *)
(* handler threads of api.py settle, and the scratch space of the          *)
(* workflows (state/holding.py, borderline.py and scratch.py); and         *)
(* restarts.  Nothing locks a store, so that two handlers may have one     *)
(* item in hand, and two saves may overlap; _save dumps the dictionary,    *)
(* truncates the file and writes it.                                       *)
(***************************************************************************)
EXTENDS Naturals, Sequences

CONSTANTS Pool,         \* the stores there may be
          Item,         \* the items that may come to be in the store
          Handler,      \* the threads that use it
          None,         \* no item
          MaxRestarts   \* bound on the stops and crashes of the process

ASSUME RestartsAssumption == MaxRestarts \in Nat

Open == "open"   \* unsurfaced, pending, or active

VARIABLES
    pool,      \* which store this is
    made,      \* history: the items that have been written; an id is used once
    items,     \* _items: the state of each item, or None
    file,      \* the file, as the items that loading it gives
    at,        \* the next step of each handler
    request,   \* the items each handler has in hand, the state it is to give them, and
               \* whether its caller is told so
    data,      \* each handler's dump of the items, in _save
    answers,   \* history: the outcomes the callers were told, per item
    restarts,  \* counts what MaxRestarts bounds
    contested, \* history: the items that two handlers have had in hand at once
    serial,    \* history: no save has begun before another has ended
    whole      \* history: no restart has found a file that was being written, or that
               \* overlapping saves had written

vars == <<pool, made, items, file, at, request, data, answers, restarts, contested, serial,
          whole>>

\* A contradiction is resolved or dismissed, a borderline item is promoted or
\* discarded, and a note of the scratch space is archived.
Outcome == [holding |-> {"resolve", "dismiss"}, borderline |-> {"promoted", "discarded"},
            scratch |-> {"archived"}]

ASSUME PoolAssumption == Pool \subseteq DOMAIN Outcome

ASSUME NoneAssumption == /\ None \notin Item /\ None # Open
                         /\ \A p \in DOMAIN Outcome : None \notin Outcome[p]

State == {Open, None} \cup Outcome[pool]
Empty == [i \in Item |-> None]
NoRequest == [items |-> {}, outcome |-> None, told |-> FALSE]

Init ==
    /\ pool \in Pool
    /\ made = {} /\ items = Empty /\ file = Empty
    /\ at = [h \in Handler |-> "ready"]
    /\ request = [h \in Handler |-> NoRequest]
    /\ data = [h \in Handler |-> Empty]
    /\ answers = [i \in Item |-> <<>>]
    /\ restarts = 0 /\ contested = {} /\ serial = TRUE /\ whole = TRUE

Goto(h, step) == at' = [at EXCEPT ![h] = step]

\* Mutants: an item whose id exists is written again; a settled item is not
\* refused; the copy that was updated is not put back into the dictionary.
NewOrOld(i)    == items[i] \in State
SettledOrNot(i) == items[i] # None

\* An id is drawn afresh, so the test for an id in the dictionary refuses none.
IsNew(i) == i \notin made

CanSettle(i) == items[i] = Open

\* The handlers of api.py use a store at once.  The scratch space is used by workflows,
\* which the one worker of the engine runs one at a time.
MayUse(h) ==
    at[h] = "ready" /\ (pool = "scratch" => \A g \in Handler : at[g] = "ready")

\* HoldingStore.write, BorderlinePool.append and ScratchStore.write: a new item,
\* with a new id.
AddItem(h, i) ==
    /\ MayUse(h)
    /\ IsNew(i)
    /\ made' = made \cup {i}
    /\ items' = [items EXCEPT ![i] = Open]
    /\ Goto(h, "dump")
    /\ UNCHANGED <<pool, file, request, data, answers, restarts, contested, serial, whole>>

InHand(h) == IF at[h] = "update" THEN request[h].items ELSE {}

\* Items are read, and copies of them made that are in the new state.
Read(h, some, outcome, told) ==
    /\ MayUse(h)
    /\ request' = [request EXCEPT ![h] = [items |-> some, outcome |-> outcome, told |-> told]]
    /\ contested' = contested \cup (some \cap UNION {InHand(g) : g \in Handler})
    /\ Goto(h, "update")
    /\ UNCHANGED <<pool, made, items, file, data, answers, restarts, serial, whole>>

\* discharge, promote and discard, asked for by a client: refused (404 or 409), with
\* nothing changed, unless the item is there and open.
Check(h, i, outcome) ==
    pool # "scratch" /\ CanSettle(i) /\ Read(h, {i}, outcome, TRUE)

\* archive, which raises unless the note is there and active.
ArchiveNote(h, i) ==
    pool = "scratch" /\ CanSettle(i) /\ Read(h, {i}, "archived", TRUE)

\* expire_ttl: one archive(), and so one save, after the other, for any of the
\* active notes.
ExpireNote(h, i) ==
    pool = "scratch" /\ CanSettle(i) /\ Read(h, {i}, "archived", FALSE)

\* acknowledge and update_content: a note in either state is copied with other
\* content, and put back with the lifecycle it had when it was read.
ChangeNote(h, i) ==
    pool = "scratch" /\ items[i] # None /\ Read(h, {i}, items[i], FALSE)

\* expire_old: the pending items that are old enough, and one save for all.
ExpireOld(h, old) ==
    pool = "borderline" /\ (\A i \in old : CanSettle(i)) /\ Read(h, old, "discarded", FALSE)

UpdateCopy(h) ==
    /\ at[h] = "update"
    /\ Goto(h, "dump")
    /\ UNCHANGED <<pool, made, items, file, request, data, answers, restarts, contested,
                   serial, whole>>

Update(h) ==
    /\ at[h] = "update"
    /\ items' = [i \in Item |-> IF i \in InHand(h) THEN request[h].outcome ELSE items[i]]
    /\ Goto(h, "dump")
    /\ UNCHANGED <<pool, made, file, request, data, answers, restarts, contested, serial,
                   whole>>

Dump(h) ==
    /\ at[h] = "dump"
    /\ data' = [data EXCEPT ![h] = items]
    /\ serial' = (serial /\ \A g \in Handler \ {h} : at[g] \notin {"truncate", "write"})
    /\ Goto(h, "truncate")
    /\ UNCHANGED <<pool, made, items, file, request, answers, restarts, contested, whole>>

Truncate(h) ==
    /\ at[h] = "truncate"
    /\ file' = Empty
    /\ Goto(h, "write")
    /\ UNCHANGED <<pool, made, items, request, data, answers, restarts, contested, serial,
                   whole>>

\* The file is written; a client is answered 200, or the caller gets the item.  (What
\* two saves at once leave in the file may be worse; nobody reads it before a restart.)
Write(h) ==
    /\ at[h] = "write"
    /\ file' = data[h]
    /\ data' = [data EXCEPT ![h] = Empty]
    /\ answers' = [i \in Item |-> IF request[h].told /\ i \in request[h].items
                                  THEN Append(answers[i], request[h].outcome) ELSE answers[i]]
    /\ request' = [request EXCEPT ![h] = NoRequest]
    /\ Goto(h, "ready")
    /\ UNCHANGED <<pool, made, items, restarts, contested, serial, whole>>

\* A file that a stop cut short holds some of the items.  The last may be cut in two: in
\* the borderline pool it loads as pending when its status is missing, in the others the
\* fields that are required come later, and the store cannot be loaded before somebody
\* has repaired the file.
IsCutOff(f, h) ==
    \E last \in Item : \A i \in Item :
        \/ f[i] \in {None, data[h][i]}
        \/ i = last /\ pool = "borderline" /\ data[h][i] # None /\ f[i] = Open

Writing == {h \in Handler : at[h] = "write"}

Loadable == IF Writing = {} THEN {file}
            ELSE {f \in [Item -> State] : \E h \in Writing : IsCutOff(f, h)}

\* The process stops or crashes, and the store is loaded again.
Restart ==
    /\ restarts < MaxRestarts
    /\ restarts' = restarts + 1
    /\ \E f \in Loadable : items' = f /\ file' = f
    /\ at' = [h \in Handler |-> "ready"]
    /\ request' = [h \in Handler |-> NoRequest]
    /\ data' = [h \in Handler |-> Empty]
    /\ whole' = (whole /\ serial /\ Writing = {})
    /\ UNCHANGED <<pool, made, answers, contested, serial>>

Next ==
    \/ \E h \in Handler :
         \/ \E i \in Item : AddItem(h, i) \/ ArchiveNote(h, i) \/ ExpireNote(h, i) \/ ChangeNote(h, i)
         \/ \E i \in Item : \E outcome \in Outcome[pool] : Check(h, i, outcome)
         \/ \E old \in SUBSET Item \ {{}} : ExpireOld(h, old)
         \/ Update(h) \/ Dump(h) \/ Truncate(h) \/ Write(h)
    \/ Restart

Spec == Init /\ [][Next]_vars
-----------------------------------------------------------------------------
(* Properties                                                               *)

Answered(i) == answers[i] # <<>>

LastAnswer(i) == answers[i][Len(answers[i])]

\* api.py:35, scratch.py:6.  Of all the requests to settle an item, by any number of
\* threads, at most one caller is told that it succeeded and the others that there is a
\* conflict, also after restarts - unless two threads had the item in hand at once,
\* or a restart found a file that was not saved in one piece.
SettledOnce == whole => \A i \in Item \ contested : Len(answers[i]) <= 1

\* api.py:35 and holding.py:179.  An item already discharged is refused.
AnsweredOnce == \A i \in Item : Len(answers[i]) <= 1

\* holding.py:121-130.  What a caller was told is what the file holds, whenever nobody is
\* writing it, as long as saves do not overlap: other threads may be changing other items
\* meanwhile, and the process may stop at any moment at which the file is not being written.
AnsweredIsDurable ==
    whole /\ serial /\ Writing = {} =>
        \A i \in Item \ contested : Answered(i) => file[i] = LastAnswer(i)

\* An item that a caller was told is settled is not open again in memory, even if a save of
\* it has been overtaken by an older one; nor in the file, unless it was.
SettledStays ==
    whole => \A i \in Item \ contested :
        Answered(i) => items[i] # Open /\ (serial => file[i] # Open)
=============================================================================
