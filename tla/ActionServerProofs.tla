------------------------- MODULE ActionServerProofs -------------------------
(***************************************************************************)
(* The promises of the action server to its clients, for any items, any    *)
(* number of threads that use a store at once and any number of restarts,  *)
(* up to what two threads with one item in hand, or two overlapping saves, *)
(* may break.  The run ActionsConcurrent shows that they do.               *)
(***************************************************************************)
EXTENDS ActionServer, TLAPS

Settled == {"resolve", "dismiss", "promoted", "discarded", "archived"}
ItemStates == Settled \cup {Open, None}
Dictionary == [Item -> ItemStates]
Requests == [items : SUBSET Item, outcome : ItemStates, told : BOOLEAN]

Types ==
    /\ pool \in Pool /\ made \in SUBSET Item
    /\ items \in Dictionary /\ file \in Dictionary
    /\ at \in [Handler -> {"ready", "update", "dump", "truncate", "write"}]
    /\ request \in [Handler -> Requests]
    /\ data \in [Handler -> Dictionary]
    /\ answers \in [Item -> Seq(Settled)]
    /\ contested \in SUBSET Item /\ serial \in BOOLEAN /\ whole \in BOOLEAN

\* Nothing is anywhere before it is made.
MadeFirst ==
    \A i \in Item \ made :
        /\ items[i] = None /\ file[i] = None /\ answers[i] = <<>>
        /\ \A h \in Handler : data[h][i] = None /\ i \notin request[h].items

\* The items whose settling a caller of the handler waits for.
Claims(h) == IF request[h].told THEN request[h].items ELSE {}

\* Two threads have only contested items in hand, or to answer for, at once.
Apart ==
    \A g, h \in Handler : g # h =>
        /\ InHand(g) \cap InHand(h) \subseteq contested
        /\ Claims(g) \cap Claims(h) \subseteq contested

\* An item in hand is as it was read: open, or in the state it is to be put back in.  From
\* the update on it is in the state that the caller is to be told.
Requested ==
    \A h \in Handler :
        /\ at[h] = "ready" => ~request[h].told
        /\ request[h].told => request[h].outcome \in Settled
        /\ \A i \in InHand(h) \ contested :
              /\ items[i] \in {Open, request[h].outcome}
              /\ request[h].outcome = Open => items[i] = Open
              /\ request[h].told => items[i] = Open
        /\ \A i \in Claims(h) \ contested :
              /\ at[h] # "update" => items[i] = request[h].outcome
              /\ at[h] \in {"truncate", "write"} => data[h][i] = request[h].outcome
              /\ whole => answers[i] = <<>>

\* An item answered for is in the state told: in memory, in the dump that is being written
\* and, when none is, in the file.
Kept ==
    \A i \in Item \ contested : Answered(i) =>
        /\ whole => Len(answers[i]) = 1 /\ items[i] = LastAnswer(i)
        /\ whole /\ serial =>
             /\ \A h \in Handler : at[h] \in {"truncate", "write"} => data[h][i] = LastAnswer(i)
             /\ Writing = {} => file[i] = LastAnswer(i)

\* One save at a time, and nothing in the file in the middle of it.
OneSave ==
    serial => /\ \A g, h \in Handler :
                    (at[g] \in {"truncate", "write"} /\ at[h] \in {"truncate", "write"}) => g = h
              /\ Writing # {} => file = Empty

IInv == Types /\ MadeFirst /\ Apart /\ Requested /\ Kept /\ OneSave

LEMMA Outcomes == /\ \A p \in DOMAIN Outcome : Outcome[p] \subseteq Settled
                  /\ None \notin Settled /\ Open \notin Settled /\ None # Open
  BY NoneAssumption DEF Outcome, Settled, Open

LEMMA NothingAsked == NoRequest \in Requests /\ ~NoRequest.told /\ NoRequest.items = {}
  BY DEF NoRequest, Requests, ItemStates

LEMMA InitIInv == Init => IInv
  <1> SUFFICES ASSUME Init PROVE IInv
    OBVIOUS
  <1>1. items \in Dictionary /\ file \in Dictionary /\ \A i \in Item : items[i] = None /\ file[i] = None
    BY DEF Init, Empty, Dictionary, ItemStates
  <1>2. data \in [Handler -> Dictionary] /\ \A h \in Handler, i \in Item : data[h][i] = None
    BY DEF Init, Empty, Dictionary, ItemStates
  <1>3. answers \in [Item -> Seq(Settled)] /\ \A i \in Item : answers[i] = <<>>
    BY DEF Init
  <1>4. request \in [Handler -> Requests] /\ \A h \in Handler : request[h] = NoRequest
    BY NothingAsked DEF Init
  <1>5. /\ at \in [Handler -> {"ready", "update", "dump", "truncate", "write"}]
        /\ \A h \in Handler : at[h] = "ready"
        /\ pool \in Pool /\ made = {} /\ contested = {} /\ serial = TRUE /\ whole = TRUE
    BY DEF Init
  <1>6. Types /\ MadeFirst
    BY <1>1, <1>2, <1>3, <1>4, <1>5, NothingAsked DEF Types, MadeFirst
  <1>7. \A h \in Handler : InHand(h) = {} /\ Claims(h) = {}
    BY <1>4, <1>5, NothingAsked DEF InHand, Claims
  <1>8. Apart /\ Requested
    BY <1>4, <1>5, <1>7, NothingAsked DEF Apart, Requested
  <1>9. Kept
    BY <1>3 DEF Kept, Answered
  <1>10. OneSave
    <2>1. Writing = {}
      BY <1>5 DEF Writing
    <2> QED BY <1>5, <2>1 DEF OneSave
  <1> QED BY <1>6, <1>8, <1>9, <1>10 DEF IInv

\* Read, for each of the five reasons there are to read an item.
Reads(h, some, outcome, told) ==
    /\ Read(h, some, outcome, told)
    /\ some \in SUBSET Item /\ outcome \in ItemStates /\ told \in BOOLEAN
    /\ told => outcome \in Settled
    /\ \A i \in some : \/ items[i] = Open /\ outcome \in Settled
                       \/ items[i] = outcome /\ outcome # None /\ ~told

\* A step is one of these.
LEMMA Steps ==
    ASSUME IInv, [Next]_vars
    PROVE  \/ \E h \in Handler, i \in Item : AddItem(h, i)
           \/ \E h \in Handler : \E some, outcome, told : Reads(h, some, outcome, told)
           \/ \E h \in Handler : Update(h) \/ Dump(h) \/ Truncate(h) \/ Write(h)
           \/ Restart \/ UNCHANGED vars
  <1>1. Outcome[pool] \subseteq Settled /\ "archived" \in Settled /\ "discarded" \in Settled
        /\ Settled \subseteq ItemStates
    BY Outcomes, PoolAssumption DEF IInv, Types, Settled, ItemStates
  <1>2. \A i \in Item : items[i] \in ItemStates
    BY DEF IInv, Types, Dictionary
  <1>3. ASSUME NEW h \in Handler, NEW i \in Item, NEW outcome \in Outcome[pool], Check(h, i, outcome)
        PROVE  Reads(h, {i}, outcome, TRUE)
    BY <1>1, <1>3 DEF Check, CanSettle, Reads
  <1>4. ASSUME NEW h \in Handler, NEW i \in Item, ArchiveNote(h, i)
        PROVE  Reads(h, {i}, "archived", TRUE)
    BY <1>1, <1>4 DEF ArchiveNote, CanSettle, Reads
  <1>5. ASSUME NEW h \in Handler, NEW i \in Item, ExpireNote(h, i)
        PROVE  Reads(h, {i}, "archived", FALSE)
    BY <1>1, <1>5 DEF ExpireNote, CanSettle, Reads
  <1>6. ASSUME NEW h \in Handler, NEW i \in Item, ChangeNote(h, i)
        PROVE  Reads(h, {i}, items[i], FALSE)
    BY <1>2, <1>6 DEF ChangeNote, Reads
  <1>7. ASSUME NEW h \in Handler, NEW old \in SUBSET Item, ExpireOld(h, old)
        PROVE  Reads(h, old, "discarded", FALSE)
    BY <1>1, <1>7 DEF ExpireOld, CanSettle, Reads
  <1> QED BY <1>3, <1>4, <1>5, <1>6, <1>7 DEF Next

-----------------------------------------------------------------------------
\* What each step changes, item by item and thread by thread.

LEMMA ReadEffect ==
    ASSUME Types, NEW h \in Handler, NEW some, NEW outcome, NEW told, Reads(h, some, outcome, told)
    PROVE  /\ at[h] = "ready" /\ at' = [at EXCEPT ![h] = "update"]
           /\ request' = [request EXCEPT ![h] =
                            [items |-> some, outcome |-> outcome, told |-> told]]
           /\ request'[h].items = some /\ request'[h].outcome = outcome /\ request'[h].told = told
           /\ InHand(h)' = some /\ Claims(h)' = IF told THEN some ELSE {}
           /\ \A g \in Handler \ {h} :
                /\ at'[g] = at[g] /\ request'[g] = request[g]
                /\ InHand(g)' = InHand(g) /\ Claims(g)' = Claims(g)
           /\ contested' = contested \cup (some \cap UNION {InHand(g) : g \in Handler})
           /\ UNCHANGED <<pool, made, items, file, data, answers, restarts, serial, whole>>
  <1>1. /\ at[h] = "ready" /\ at' = [at EXCEPT ![h] = "update"]
        /\ request' = [request EXCEPT ![h] = [items |-> some, outcome |-> outcome, told |-> told]]
        /\ contested' = contested \cup (some \cap UNION {InHand(g) : g \in Handler})
        /\ UNCHANGED <<pool, made, items, file, data, answers, restarts, serial, whole>>
    BY DEF Reads, Read, MayUse, Goto
  <1>2. at'[h] = "update" /\ request'[h] = [items |-> some, outcome |-> outcome, told |-> told]
    BY <1>1 DEF Types
  <1>3. \A g \in Handler \ {h} : at'[g] = at[g] /\ request'[g] = request[g]
    BY <1>1 DEF Types
  <1> QED BY <1>1, <1>2, <1>3 DEF InHand, Claims

LEMMA UpdateEffect ==
    ASSUME Types, NEW h \in Handler, Update(h)
    PROVE  /\ at[h] = "update" /\ at' = [at EXCEPT ![h] = "dump"] /\ at'[h] = "dump"
           /\ InHand(h) = request[h].items
           /\ \A i \in Item : items'[i] = IF i \in request[h].items THEN request[h].outcome
                                          ELSE items[i]
           /\ items' \in Dictionary
           /\ InHand(h)' = {}
           /\ \A g \in Handler : Claims(g)' = Claims(g)
           /\ \A g \in Handler \ {h} : at'[g] = at[g] /\ InHand(g)' = InHand(g)
           /\ UNCHANGED <<pool, made, file, request, data, answers, restarts, contested, serial,
                          whole>>
  <1>1. /\ at[h] = "update" /\ at' = [at EXCEPT ![h] = "dump"]
        /\ items' = [i \in Item |-> IF i \in InHand(h) THEN request[h].outcome ELSE items[i]]
        /\ UNCHANGED <<pool, made, file, request, data, answers, restarts, contested, serial, whole>>
    BY DEF Update, Goto
  <1>2. InHand(h) = request[h].items /\ at'[h] = "dump"
    BY <1>1 DEF InHand, Types
  <1>3. \A g \in Handler \ {h} : at'[g] = at[g]
    BY <1>1 DEF Types
  <1>4. items' \in Dictionary
    BY <1>1 DEF Types, Dictionary, Requests
  <1> QED BY <1>1, <1>2, <1>3, <1>4 DEF InHand, Claims

LEMMA DumpEffect ==
    ASSUME Types, NEW h \in Handler, Dump(h) \/ Truncate(h)
    PROVE  /\ at'[h] \notin {"ready", "update"} /\ at[h] \notin {"ready", "update"}
           /\ at' = [at EXCEPT ![h] = at'[h]]
           /\ \A g \in Handler : InHand(g)' = InHand(g) /\ Claims(g)' = Claims(g)
           /\ \A g \in Handler \ {h} : at'[g] = at[g] /\ data'[g] = data[g]
           /\ Dump(h) => /\ at[h] = "dump" /\ at'[h] = "truncate"
                         /\ data' = [data EXCEPT ![h] = items] /\ data'[h] = items
                         /\ UNCHANGED file
                         /\ serial' = (serial /\ \A g \in Handler \ {h} :
                                         at[g] \notin {"truncate", "write"})
           /\ Truncate(h) => /\ at[h] = "truncate" /\ at'[h] = "write"
                             /\ file' = Empty /\ UNCHANGED <<data, serial>>
           /\ UNCHANGED <<pool, made, items, request, answers, restarts, contested, whole>>
  <1>1. CASE Dump(h)
    BY <1>1 DEF Dump, Truncate, Goto, InHand, Claims, Types
  <1>2. CASE Truncate(h)
    BY <1>2 DEF Dump, Truncate, Goto, InHand, Claims, Types
  <1> QED BY <1>1, <1>2

LEMMA WriteEffect ==
    ASSUME Types, NEW h \in Handler, Write(h)
    PROVE  /\ at[h] = "write" /\ at' = [at EXCEPT ![h] = "ready"] /\ at'[h] = "ready"
           /\ file' = data[h] /\ data' = [data EXCEPT ![h] = Empty]
           /\ request' = [request EXCEPT ![h] = NoRequest] /\ request'[h] = NoRequest
           /\ InHand(h)' = {} /\ Claims(h)' = {}
           /\ \A g \in Handler \ {h} :
                /\ at'[g] = at[g] /\ request'[g] = request[g] /\ data'[g] = data[g]
                /\ InHand(g)' = InHand(g) /\ Claims(g)' = Claims(g)
           /\ \A i \in Item : answers'[i] = IF i \in Claims(h) THEN Append(answers[i], request[h].outcome)
                                            ELSE answers[i]
           /\ DOMAIN answers' = Item /\ answers' = [i \in Item |-> answers'[i]]
           /\ UNCHANGED <<pool, made, items, restarts, contested, serial, whole>>
  <1>1. /\ at[h] = "write" /\ at' = [at EXCEPT ![h] = "ready"]
        /\ file' = data[h] /\ data' = [data EXCEPT ![h] = Empty]
        /\ request' = [request EXCEPT ![h] = NoRequest]
        /\ answers' = [i \in Item |-> IF request[h].told /\ i \in request[h].items
                                      THEN Append(answers[i], request[h].outcome) ELSE answers[i]]
        /\ UNCHANGED <<pool, made, items, restarts, contested, serial, whole>>
    BY DEF Write, Goto
  <1>2. at'[h] = "ready" /\ request'[h] = NoRequest
    BY <1>1 DEF Types
  <1>3. \A g \in Handler \ {h} : at'[g] = at[g] /\ request'[g] = request[g] /\ data'[g] = data[g]
    BY <1>1 DEF Types
  <1>4. \A i \in Item : answers'[i] = IF i \in Claims(h) THEN Append(answers[i], request[h].outcome)
                                      ELSE answers[i]
    BY <1>1 DEF Claims
  <1>5. InHand(h)' = {} /\ Claims(h)' = {}
    BY <1>2, NothingAsked DEF InHand, Claims
  <1>6. DOMAIN answers' = Item /\ answers' = [i \in Item |-> answers'[i]]
    BY <1>1
  <1>7. \A g \in Handler \ {h} : InHand(g)' = InHand(g) /\ Claims(g)' = Claims(g)
    BY <1>3 DEF InHand, Claims
  <1> QED BY <1>1, <1>2, <1>3, <1>4, <1>5, <1>6, <1>7

\* A file is loaded as it is, unless it was being written; nothing comes up in it that
\* was not made.
LEMMA RestartEffect ==
    ASSUME Types, MadeFirst, Restart
    PROVE  /\ items' \in Dictionary /\ file' = items'
           /\ whole' = (whole /\ serial /\ Writing = {})
           /\ whole' => items' = file
           /\ \A i \in Item \ made : items'[i] = None
           /\ \A h \in Handler : /\ at'[h] = "ready" /\ request'[h] = NoRequest /\ data'[h] = Empty
                                 /\ InHand(h)' = {} /\ Claims(h)' = {}
           /\ at' = [h \in Handler |-> "ready"] /\ request' = [h \in Handler |-> NoRequest]
           /\ data' = [h \in Handler |-> Empty]
           /\ UNCHANGED <<pool, made, answers, contested, serial>>
  <1>1. /\ whole' = (whole /\ serial /\ Writing = {})
        /\ at' = [h \in Handler |-> "ready"] /\ request' = [h \in Handler |-> NoRequest]
        /\ data' = [h \in Handler |-> Empty]
        /\ UNCHANGED <<pool, made, answers, contested, serial>>
    BY DEF Restart
  <1>2. PICK f \in Loadable : items' = f /\ file' = f
    BY DEF Restart
  <1>3. State \subseteq ItemStates
    BY Outcomes, PoolAssumption DEF State, ItemStates, Types
  <1>4. CASE Writing = {}
    <2>1. f = file
      BY <1>2, <1>4 DEF Loadable
    <2>2. items' \in Dictionary /\ \A i \in Item \ made : items'[i] = None
      BY <1>2, <2>1 DEF Types, MadeFirst
    <2> QED BY <1>1, <1>2, <2>1, <2>2, NothingAsked DEF InHand, Claims
  <1>5. CASE Writing # {}
    <2>1. PICK h \in Writing : f \in [Item -> State] /\ IsCutOff(f, h)
      BY <1>2, <1>5 DEF Loadable
    <2>2. f \in Dictionary
      BY <1>3, <2>1 DEF Dictionary
    <2>3. h \in Handler
      BY <2>1 DEF Writing
    <2>4. \A i \in Item \ made : data[h][i] = None
      BY <2>3 DEF MadeFirst
    <2>5. \A i \in Item \ made : f[i] = None
      BY <2>1, <2>4 DEF IsCutOff
    <2>6. ~whole'
      BY <1>1, <1>5
    <2> QED BY <1>1, <1>2, <2>2, <2>5, <2>6, NothingAsked DEF InHand, Claims
  <1> QED BY <1>4, <1>5

-----------------------------------------------------------------------------
LEMMA NextTypes == IInv /\ [Next]_vars => Types'
  <1> SUFFICES ASSUME IInv, [Next]_vars PROVE Types'
    OBVIOUS
  <1>0. Types /\ MadeFirst /\ Empty \in Dictionary
    BY DEF IInv, Empty, Dictionary, ItemStates
  <1>1. ASSUME NEW h \in Handler, NEW i \in Item, AddItem(h, i) PROVE Types'
    <2>1. items' \in Dictionary
      BY <1>0, <1>1 DEF AddItem, Types, Dictionary, ItemStates
    <2> QED BY <1>0, <1>1, <2>1 DEF AddItem, Types, Goto
  <1>2. ASSUME NEW h \in Handler, NEW some, NEW outcome, NEW told, Reads(h, some, outcome, told)
        PROVE  Types'
    <2>1. [items |-> some, outcome |-> outcome, told |-> told] \in Requests
      BY <1>2 DEF Reads, Requests
    <2>2. contested' \in SUBSET Item
      BY <1>0, <1>2, ReadEffect DEF Types, Reads
    <2>3. /\ at' = [at EXCEPT ![h] = "update"]
          /\ request' = [request EXCEPT ![h] = [items |-> some, outcome |-> outcome, told |-> told]]
          /\ UNCHANGED <<pool, made, items, file, data, answers, restarts, serial, whole>>
      BY <1>0, <1>2, ReadEffect
    <2> QED BY <1>0, <2>1, <2>2, <2>3 DEF Types
  <1>3. ASSUME NEW h \in Handler, Update(h) PROVE Types'
    BY <1>0, <1>3, UpdateEffect DEF Types
  <1>4. ASSUME NEW h \in Handler, Dump(h) PROVE Types'
    <2>1. serial' \in BOOLEAN
      BY <1>4 DEF Dump
    <2> QED BY <1>0, <1>4, <2>1 DEF Dump, Types, Goto
  <1>5. ASSUME NEW h \in Handler, Truncate(h) PROVE Types'
    BY <1>0, <1>5 DEF Truncate, Types, Goto
  <1>6. ASSUME NEW h \in Handler, Write(h) PROVE Types'
    <2>1. \A i \in Item : answers'[i] \in Seq(Settled)
      <3> SUFFICES ASSUME NEW i \in Item PROVE answers'[i] \in Seq(Settled)
        OBVIOUS
      <3>1. answers[i] \in Seq(Settled)
        BY <1>0 DEF Types
      <3>2. i \in Claims(h) => request[h].outcome \in Settled
        BY DEF IInv, Requested, Claims
      <3>3. answers'[i] = IF i \in Claims(h) THEN Append(answers[i], request[h].outcome)
                          ELSE answers[i]
        BY <1>0, <1>6, WriteEffect
      <3> QED BY <3>1, <3>2, <3>3
    <2>2. answers' \in [Item -> Seq(Settled)]
      BY <1>0, <1>6, <2>1, WriteEffect
    <2>3. /\ at' = [at EXCEPT ![h] = "ready"]
          /\ file' = data[h] /\ data' = [data EXCEPT ![h] = Empty]
          /\ request' = [request EXCEPT ![h] = NoRequest]
          /\ UNCHANGED <<pool, made, items, restarts, contested, serial, whole>>
      BY <1>0, <1>6, WriteEffect
    <2> QED BY <1>0, <2>2, <2>3, NothingAsked DEF Types
  <1>7. CASE Restart
    <2>1. whole' \in BOOLEAN
      BY <1>7 DEF Restart
    <2> QED BY <1>0, <1>7, <2>1, RestartEffect, NothingAsked DEF Types
  <1>8. CASE UNCHANGED vars
    BY <1>0, <1>8 DEF vars, Types
  <1> QED BY <1>1, <1>2, <1>3, <1>4, <1>5, <1>6, <1>7, <1>8, Steps

LEMMA NextMadeFirst == IInv /\ [Next]_vars => MadeFirst'
  <1> SUFFICES ASSUME IInv, [Next]_vars PROVE MadeFirst'
    OBVIOUS
  <1>0. Types /\ MadeFirst
    BY DEF IInv
  <1>1. ASSUME NEW h \in Handler, NEW i \in Item, AddItem(h, i) PROVE MadeFirst'
    BY <1>0, <1>1 DEF AddItem, MadeFirst, Types, Dictionary
  <1>2. ASSUME NEW h \in Handler, NEW some, NEW outcome, NEW told, Reads(h, some, outcome, told)
        PROVE  MadeFirst'
    <2>1. \A i \in some : items[i] # None
      BY <1>2, Outcomes DEF Reads
    <2> QED BY <1>0, <1>2, <2>1, ReadEffect DEF MadeFirst
  <1>3. ASSUME NEW h \in Handler, Update(h) PROVE MadeFirst'
    BY <1>0, <1>3, UpdateEffect DEF MadeFirst
  <1>4. ASSUME NEW h \in Handler, Dump(h) PROVE MadeFirst'
    BY <1>0, <1>4, DumpEffect DEF MadeFirst
  <1>5. ASSUME NEW h \in Handler, Truncate(h) PROVE MadeFirst'
    BY <1>0, <1>5, DumpEffect DEF MadeFirst, Empty
  <1>6. ASSUME NEW h \in Handler, Write(h) PROVE MadeFirst'
    <2>1. \A i \in Item \ made : i \notin Claims(h)
      BY <1>0 DEF MadeFirst, Claims
    <2>2. data'[h] = Empty
      BY <1>0, <1>6, WriteEffect DEF Types
    <2> QED BY <1>0, <1>6, <2>1, <2>2, WriteEffect, NothingAsked DEF MadeFirst, Empty
  <1>7. CASE Restart
    BY <1>0, <1>7, RestartEffect, NothingAsked DEF MadeFirst, Empty
  <1>8. CASE UNCHANGED vars
    BY <1>0, <1>8 DEF vars, MadeFirst
  <1> QED BY <1>1, <1>2, <1>3, <1>4, <1>5, <1>6, <1>7, <1>8, Steps

\* The steps at which no thread takes anything in hand.
LEMMA FewerHands ==
    ASSUME Apart, contested' = contested,
           \A g \in Handler : InHand(g)' \subseteq InHand(g) /\ Claims(g)' \subseteq Claims(g)
    PROVE  Apart'
  BY DEF Apart

LEMMA NextApart == IInv /\ [Next]_vars => Apart'
  <1> SUFFICES ASSUME IInv, [Next]_vars PROVE Apart'
    OBVIOUS
  <1>0. Types /\ MadeFirst /\ Apart /\ Requested
    BY DEF IInv
  <1>1. ASSUME NEW h \in Handler, NEW i \in Item, AddItem(h, i) PROVE Apart'
    <2>1. \A g \in Handler : InHand(g)' \subseteq InHand(g) /\ Claims(g)' \subseteq Claims(g)
      BY <1>0, <1>1 DEF AddItem, Goto, InHand, Claims, Types
    <2> QED BY <1>0, <1>1, <2>1, FewerHands DEF AddItem
  <1>2. ASSUME NEW h \in Handler, NEW some, NEW outcome, NEW told, Reads(h, some, outcome, told)
        PROVE  Apart'
    <2>1. \A g \in Handler \ {h} : InHand(g) \cap some \subseteq contested'
      BY <1>0, <1>2, ReadEffect
    <2>2. ASSUME NEW g \in Handler \ {h}, told, NEW i \in some, i \in Claims(g), i \notin contested'
          PROVE  FALSE
      <3>1. items[i] = Open
        BY <1>2, <2>2 DEF Reads
      <3>2. at[g] # "update"
        BY <2>1, <2>2 DEF InHand, Claims
      <3>3. i \notin contested
        BY <1>0, <1>2, <2>2, ReadEffect
      <3>4. items[i] = request[g].outcome /\ request[g].outcome \in Settled
        BY <1>0, <2>2, <3>2, <3>3 DEF Requested, Claims
      <3> QED BY <3>1, <3>4, Outcomes
    <2>3. \A g \in Handler \ {h} : Claims(g) \cap Claims(h)' \subseteq contested'
      BY <1>0, <1>2, <2>2, ReadEffect
    <2>4. /\ InHand(h)' = some /\ contested \subseteq contested'
          /\ \A g \in Handler \ {h} : InHand(g)' = InHand(g) /\ Claims(g)' = Claims(g)
      BY <1>0, <1>2, ReadEffect
    <2> QED BY <1>0, <2>1, <2>3, <2>4 DEF Apart
  <1>3. ASSUME NEW h \in Handler, Update(h) PROVE Apart'
    BY <1>0, <1>3, UpdateEffect, FewerHands
  <1>4. ASSUME NEW h \in Handler, Dump(h) \/ Truncate(h) PROVE Apart'
    BY <1>0, <1>4, DumpEffect, FewerHands
  <1>5. ASSUME NEW h \in Handler, Write(h) PROVE Apart'
    BY <1>0, <1>5, WriteEffect, FewerHands
  <1>6. CASE Restart
    BY <1>0, <1>6, RestartEffect, FewerHands
  <1>7. CASE UNCHANGED vars
    BY <1>0, <1>7, FewerHands DEF vars, InHand, Claims
  <1> QED BY <1>1, <1>2, <1>3, <1>4, <1>5, <1>6, <1>7, Steps

\* What Requested says of one thread.
RequestedOf(h) ==
    /\ at[h] = "ready" => ~request[h].told
    /\ request[h].told => request[h].outcome \in Settled
    /\ \A i \in InHand(h) \ contested :
          /\ items[i] \in {Open, request[h].outcome}
          /\ request[h].outcome = Open => items[i] = Open
          /\ request[h].told => items[i] = Open
    /\ \A i \in Claims(h) \ contested :
          /\ at[h] # "update" => items[i] = request[h].outcome
          /\ at[h] \in {"truncate", "write"} => data[h][i] = request[h].outcome
          /\ whole => answers[i] = <<>>

LEMMA RequestedIsOfEach == Requested <=> \A h \in Handler : RequestedOf(h)
  BY DEF Requested, RequestedOf

\* A thread's requests are left alone by a step that changes none of its items.
LEMMA LeftAlone ==
    ASSUME NEW g \in Handler, RequestedOf(g), at'[g] = at[g], request'[g] = request[g],
           data'[g] = data[g], contested \subseteq contested', whole' => whole,
           \A i \in (InHand(g) \cup Claims(g)) \ contested' : items'[i] = items[i],
           \A i \in Claims(g) \ contested' : answers'[i] = answers[i]
    PROVE  RequestedOf(g)'
  <1>1. InHand(g)' = InHand(g) /\ Claims(g)' = Claims(g)
    BY DEF InHand, Claims
  <1>2. ASSUME NEW i \in InHand(g) \ contested'
        PROVE  /\ items'[i] \in {Open, request'[g].outcome}
               /\ request'[g].outcome = Open => items'[i] = Open
               /\ request'[g].told => items'[i] = Open
    BY <1>2 DEF RequestedOf
  <1>3. ASSUME NEW i \in Claims(g) \ contested'
        PROVE  /\ at'[g] # "update" => items'[i] = request'[g].outcome
               /\ at'[g] \in {"truncate", "write"} => data'[g][i] = request'[g].outcome
               /\ whole' => answers'[i] = <<>>
    BY <1>3 DEF RequestedOf
  <1> QED BY <1>1, <1>2, <1>3 DEF RequestedOf

LEMMA NextRequested == IInv /\ [Next]_vars => Requested'
  <1> SUFFICES ASSUME IInv, [Next]_vars PROVE Requested'
    OBVIOUS
  <1>0. Types /\ MadeFirst /\ Apart /\ Kept /\ \A h \in Handler : RequestedOf(h)
    BY RequestedIsOfEach DEF IInv
  <1>r. SUFFICES ASSUME NEW k \in Handler PROVE RequestedOf(k)'
    BY DEF Requested, RequestedOf
  <1>1. ASSUME NEW h \in Handler, NEW i \in Item, AddItem(h, i) PROVE RequestedOf(k)'
    <2>1. /\ at[h] = "ready" /\ i \notin made /\ items' = [items EXCEPT ![i] = Open]
          /\ at' = [at EXCEPT ![h] = "dump"]
          /\ UNCHANGED <<pool, file, request, data, answers, restarts, contested, serial, whole>>
      BY <1>1 DEF AddItem, MayUse, IsNew, Goto
    <2>2. i \notin InHand(k) \cup Claims(k)
      BY <1>0, <2>1 DEF MadeFirst, InHand, Claims
    <2>3. \A j \in Item \ {i} : items'[j] = items[j]
      BY <1>0, <2>1 DEF Types, Dictionary
    <2>4. InHand(k) \cup Claims(k) \subseteq Item
      BY <1>0 DEF InHand, Claims, Types, Requests
    <2>5. CASE k # h
      <3>1. at'[k] = at[k]
        BY <1>0, <2>1, <2>5 DEF Types
      <3> QED BY <1>0, <2>1, <2>2, <2>3, <2>4, <3>1, LeftAlone
    <2>6. CASE k = h
      <3>1. at'[k] = "dump" /\ ~request'[k].told
        BY <1>0, <2>1, <2>6 DEF Types, RequestedOf
      <3>2. InHand(k)' = {} /\ Claims(k)' = {}
        BY <3>1 DEF InHand, Claims
      <3> QED BY <3>1, <3>2 DEF RequestedOf
    <2> QED BY <2>5, <2>6
  <1>2. ASSUME NEW h \in Handler, NEW some, NEW outcome, NEW told, Reads(h, some, outcome, told)
        PROVE  RequestedOf(k)'
    <2>1. contested \subseteq contested' /\ UNCHANGED <<items, data, answers, whole>>
      BY <1>0, <1>2, ReadEffect
    <2>2. CASE k # h
      <3>1. at'[k] = at[k] /\ request'[k] = request[k]
        BY <1>0, <1>2, <2>2, ReadEffect
      <3> QED BY <1>0, <2>1, <3>1, LeftAlone
    <2>3. CASE k = h
      <3>1. /\ request'[k].outcome = outcome /\ request'[k].told = told /\ at'[k] = "update"
            /\ InHand(k)' = some /\ Claims(k)' = IF told THEN some ELSE {}
        BY <1>0, <1>2, <2>3, ReadEffect DEF Types
      <3>2. ASSUME NEW i \in some
            PROVE  /\ items'[i] \in {Open, outcome} /\ (outcome = Open => items'[i] = Open)
                   /\ told => items'[i] = Open
        BY <1>2, <2>1, Outcomes DEF Reads
      <3>3. ASSUME told, NEW i \in some \ contested', whole PROVE answers[i] = <<>>
        <4>1. i \in Item \ contested /\ items[i] = Open
          BY <1>2, <2>1, <3>2, <3>3 DEF Reads
        <4>2. answers[i] \in Seq(Settled) /\ (Answered(i) => items[i] = LastAnswer(i) /\ Len(answers[i]) = 1)
          BY <1>0, <3>3, <4>1 DEF Types, Kept
        <4>3. Answered(i) => LastAnswer(i) \in Settled
          BY <4>2 DEF LastAnswer
        <4> QED BY <4>1, <4>2, <4>3, Outcomes DEF Answered
      <3>4. told => outcome \in Settled
        BY <1>2 DEF Reads
      <3>5. \A i \in Claims(k)' \ contested' : whole' => answers'[i] = <<>>
        BY <2>1, <3>1, <3>3
      <3> QED BY <3>1, <3>2, <3>4, <3>5 DEF RequestedOf
    <2> QED BY <2>2, <2>3
  <1>3. ASSUME NEW h \in Handler, Update(h) PROVE RequestedOf(k)'
    <2>1. UNCHANGED <<request, data, answers, contested, whole>>
      BY <1>0, <1>3, UpdateEffect
    <2>2. \A i \in Item : items'[i] = IF i \in request[h].items THEN request[h].outcome ELSE items[i]
      BY <1>0, <1>3, UpdateEffect
    <2>3. at[h] = "update" /\ InHand(h) = request[h].items /\ InHand(h) \subseteq Item
      BY <1>0, <1>3, UpdateEffect DEF Types, Requests
    <2>4. CASE k # h
      <3>1. at'[k] = at[k]
        BY <1>0, <1>3, <2>4, UpdateEffect
      <3>2. ASSUME NEW i \in (InHand(k) \cup Claims(k)) \ contested PROVE items'[i] = items[i]
        <4>0. i \in Item
          BY <1>0 DEF InHand, Claims, Types, Requests
        <4>1. CASE i \notin InHand(h)
          BY <2>2, <2>3, <4>0, <4>1
        <4>2. CASE i \in InHand(h)
          <5>1. i \notin InHand(k)
            BY <1>0, <2>4, <3>2, <4>2 DEF Apart
          <5>2. i \in Claims(k) /\ at[k] # "update"
            BY <3>2, <5>1 DEF InHand, Claims
          <5>3. items[i] = request[k].outcome /\ request[k].outcome \in Settled
            BY <1>0, <3>2, <5>2 DEF RequestedOf, Claims
          <5>4. items[i] = Open \/ items[i] = request[h].outcome
            BY <1>0, <3>2, <4>2 DEF RequestedOf
          <5> QED BY <2>2, <2>3, <4>0, <4>2, <5>3, <5>4, Outcomes
        <4> QED BY <4>1, <4>2
      <3> QED BY <1>0, <2>1, <3>1, <3>2, LeftAlone
    <2>5. CASE k = h
      <3>1. at'[k] = "dump" /\ InHand(k)' = {} /\ Claims(k)' = Claims(k)
        BY <1>0, <1>3, <2>5, UpdateEffect
      <3>2. \A i \in Claims(k) : items'[i] = request[k].outcome
        BY <2>2, <2>3, <2>5 DEF Claims
      <3> QED BY <1>0, <2>1, <3>1, <3>2 DEF RequestedOf
    <2> QED BY <2>4, <2>5
  <1>4. ASSUME NEW h \in Handler, Dump(h) \/ Truncate(h) PROVE RequestedOf(k)'
    <2>1. UNCHANGED <<items, request, answers, contested, whole>>
          /\ InHand(k)' = InHand(k) /\ Claims(k)' = Claims(k)
      BY <1>0, <1>4, DumpEffect
    <2>2. CASE k # h
      <3>1. at'[k] = at[k] /\ data'[k] = data[k]
        BY <1>0, <1>4, <2>2, DumpEffect
      <3> QED BY <1>0, <2>1, <3>1, LeftAlone
    <2>3. CASE k = h
      <3>1. at[k] \notin {"ready", "update"} /\ at'[k] \notin {"ready", "update"}
        BY <1>0, <1>4, <2>3, DumpEffect
      <3>2. \A i \in Claims(k) \ contested : items[i] = request[k].outcome
        BY <1>0, <3>1 DEF RequestedOf
      <3>3. data'[k] = items \/ (data' = data /\ at[k] = "truncate")
        BY <1>0, <1>4, <2>3, DumpEffect
      <3>4. \A i \in Claims(k) \ contested : data'[k][i] = request[k].outcome
        BY <1>0, <3>2, <3>3 DEF RequestedOf
      <3>5. InHand(k) = {}
        BY <3>1 DEF InHand
      <3> QED BY <1>0, <2>1, <3>1, <3>2, <3>4, <3>5 DEF RequestedOf
    <2> QED BY <2>2, <2>3
  <1>5. ASSUME NEW h \in Handler, Write(h) PROVE RequestedOf(k)'
    <2>1. UNCHANGED <<items, contested, whole>>
      BY <1>0, <1>5, WriteEffect
    <2>2. CASE k # h
      <3>1. at'[k] = at[k] /\ data'[k] = data[k] /\ request'[k] = request[k]
        BY <1>0, <1>5, <2>2, WriteEffect
      <3>2. \A i \in Claims(k) \ contested : i \in Item /\ i \notin Claims(h)
        BY <1>0, <2>2 DEF Apart, Claims, Types, Requests
      <3>3. \A i \in Claims(k) \ contested : answers'[i] = answers[i]
        BY <1>0, <1>5, <3>2, WriteEffect
      <3> QED BY <1>0, <2>1, <3>1, <3>3, LeftAlone
    <2>3. CASE k = h
      <3>1. request'[k] = NoRequest /\ InHand(k)' = {} /\ Claims(k)' = {}
        BY <1>0, <1>5, <2>3, WriteEffect
      <3> QED BY <3>1, NothingAsked DEF RequestedOf
    <2> QED BY <2>2, <2>3
  <1>6. CASE Restart
    <2>1. request'[k] = NoRequest /\ InHand(k)' = {} /\ Claims(k)' = {}
      BY <1>0, <1>6, RestartEffect
    <2> QED BY <2>1, NothingAsked DEF RequestedOf
  <1>7. CASE UNCHANGED vars
    BY <1>0, <1>7, LeftAlone DEF vars
  <1> QED BY <1>1, <1>2, <1>3, <1>4, <1>5, <1>6, <1>7, Steps

-----------------------------------------------------------------------------
LEMMA NextOneSave == IInv /\ [Next]_vars => OneSave'
  <1> SUFFICES ASSUME IInv, [Next]_vars PROVE OneSave'
    OBVIOUS
  <1>0. Types /\ MadeFirst /\ OneSave
    BY DEF IInv
  <1>1. ASSUME NEW h \in Handler, NEW i \in Item, AddItem(h, i) PROVE OneSave'
    BY <1>0, <1>1 DEF AddItem, MayUse, Goto, Types, OneSave, Writing
  <1>2. ASSUME NEW h \in Handler, NEW some, NEW outcome, NEW told, Reads(h, some, outcome, told)
        PROVE  OneSave'
    <2>1. /\ at[h] = "ready" /\ at'[h] = "update" /\ UNCHANGED <<file, serial>>
          /\ \A g \in Handler \ {h} : at'[g] = at[g]
      BY <1>0, <1>2, ReadEffect DEF Types
    <2> QED BY <1>0, <2>1 DEF OneSave, Writing, Empty
  <1>3. ASSUME NEW h \in Handler, Update(h) PROVE OneSave'
    BY <1>0, <1>3, UpdateEffect DEF Types, OneSave, Writing
  <1>4. ASSUME NEW h \in Handler, Dump(h) PROVE OneSave'
    <2>1. /\ at[h] = "dump" /\ at'[h] = "truncate" /\ UNCHANGED file
          /\ serial' => serial /\ \A g \in Handler \ {h} : at[g] \notin {"truncate", "write"}
          /\ \A g \in Handler \ {h} : at'[g] = at[g]
      BY <1>0, <1>4, DumpEffect
    <2> QED BY <1>0, <2>1 DEF OneSave, Writing
  <1>5. ASSUME NEW h \in Handler, Truncate(h) PROVE OneSave'
    <2>1. /\ at[h] = "truncate" /\ at'[h] = "write" /\ file' = Empty /\ serial' = serial
          /\ \A g \in Handler \ {h} : at'[g] = at[g]
      BY <1>0, <1>5, DumpEffect
    <2> QED BY <1>0, <2>1 DEF OneSave, Writing, Empty
  <1>6. ASSUME NEW h \in Handler, Write(h) PROVE OneSave'
    <2>1. /\ at[h] = "write" /\ at'[h] = "ready" /\ serial' = serial
          /\ \A g \in Handler \ {h} : at'[g] = at[g]
      BY <1>0, <1>6, WriteEffect
    <2>2. serial => \A g \in Handler : at'[g] \notin {"truncate", "write"}
      BY <1>0, <2>1 DEF OneSave
    <2>3. serial => Writing' = {}
      BY <2>2 DEF Writing
    <2> QED BY <2>1, <2>2, <2>3 DEF OneSave
  <1>7. CASE Restart
    <2>1. \A h \in Handler : at'[h] \notin {"truncate", "write"}
      BY <1>0, <1>7, RestartEffect
    <2>2. Writing' = {}
      BY <2>1 DEF Writing
    <2> QED BY <2>1, <2>2 DEF OneSave
  <1>8. CASE UNCHANGED vars
    BY <1>0, <1>8 DEF vars, OneSave, Writing, Empty
  <1> QED BY <1>1, <1>2, <1>3, <1>4, <1>5, <1>6, <1>7, <1>8, Steps

\* What Kept says of one item.
KeptOf(i) ==
    Answered(i) =>
        /\ whole => Len(answers[i]) = 1 /\ items[i] = LastAnswer(i)
        /\ whole /\ serial =>
             /\ \A h \in Handler : at[h] \in {"truncate", "write"} => data[h][i] = LastAnswer(i)
             /\ Writing = {} => file[i] = LastAnswer(i)

\* A step that answers nobody and writes nothing.
LEMMA StillKept ==
    ASSUME NEW i \in Item, KeptOf(i), UNCHANGED <<answers, file, serial, whole>>,
           Answered(i) /\ whole => items'[i] = items[i],
           \A h \in Handler : at'[h] \in {"truncate", "write"} =>
                                 at[h] = at'[h] /\ data'[h] = data[h],
           \A h \in Handler : at[h] = "write" => at'[h] = "write"
    PROVE  KeptOf(i)'
  <1>1. Answered(i)' <=> Answered(i)
    BY DEF Answered
  <1>2. LastAnswer(i)' = LastAnswer(i)
    BY DEF LastAnswer
  <1>3. Writing' = {} => Writing = {}
    BY DEF Writing
  <1> QED BY <1>1, <1>2, <1>3 DEF KeptOf

LEMMA NextKept == IInv /\ [Next]_vars => Kept'
  <1> SUFFICES ASSUME IInv, [Next]_vars PROVE Kept'
    OBVIOUS
  <1>0. Types /\ MadeFirst /\ Apart /\ Requested /\ OneSave /\ \A i \in Item \ contested : KeptOf(i)
    BY DEF IInv, Kept, KeptOf
  <1>r. SUFFICES ASSUME NEW i \in Item \ contested' PROVE KeptOf(i)'
    BY DEF Kept, KeptOf
  <1>1. ASSUME NEW h \in Handler, NEW j \in Item, AddItem(h, j) PROVE KeptOf(i)'
    <2>1. /\ at[h] = "ready" /\ j \notin made /\ items' = [items EXCEPT ![j] = Open]
          /\ at' = [at EXCEPT ![h] = "dump"]
          /\ UNCHANGED <<pool, file, request, data, answers, restarts, contested, serial, whole>>
      BY <1>1 DEF AddItem, MayUse, IsNew, Goto
    <2>2. Answered(i) => i # j
      BY <1>0, <2>1 DEF MadeFirst, Answered
    <2>3. Answered(i) => items'[i] = items[i]
      BY <1>0, <2>1, <2>2 DEF Types, Dictionary
    <2>4. \A g \in Handler : at'[g] \in {"truncate", "write"} => at[g] = at'[g]
      BY <1>0, <2>1 DEF Types
    <2>5. \A g \in Handler : at[g] = "write" => at'[g] = "write"
      BY <1>0, <2>1 DEF Types
    <2> QED BY <1>0, <2>1, <2>3, <2>4, <2>5, StillKept
  <1>2. ASSUME NEW h \in Handler, NEW some, NEW outcome, NEW told, Reads(h, some, outcome, told)
        PROVE  KeptOf(i)'
    <2>1. /\ at[h] = "ready" /\ at' = [at EXCEPT ![h] = "update"]
          /\ i \in Item \ contested /\ UNCHANGED <<items, file, data, answers, serial, whole>>
      BY <1>0, <1>2, ReadEffect
    <2>2. \A g \in Handler : at'[g] \in {"truncate", "write"} => at[g] = at'[g]
      BY <1>0, <2>1 DEF Types
    <2>3. \A g \in Handler : at[g] = "write" => at'[g] = "write"
      BY <1>0, <2>1 DEF Types
    <2> QED BY <1>0, <2>1, <2>2, <2>3, StillKept
  <1>3. ASSUME NEW h \in Handler, Update(h) PROVE KeptOf(i)'
    <2>1. /\ at[h] = "update" /\ at' = [at EXCEPT ![h] = "dump"] /\ i \in Item \ contested
          /\ InHand(h) = request[h].items
          /\ items'[i] = IF i \in request[h].items THEN request[h].outcome ELSE items[i]
          /\ UNCHANGED <<file, data, answers, serial, whole>>
      BY <1>0, <1>3, UpdateEffect
    <2>2. ASSUME Answered(i), whole PROVE items'[i] = items[i]
      <3>1. items[i] = LastAnswer(i) /\ Len(answers[i]) = 1
        BY <1>0, <2>1, <2>2 DEF KeptOf
      <3>2. items[i] \in Settled
        <4>1. answers[i] \in Seq(Settled)
          BY <1>0 DEF Types
        <4> QED BY <3>1, <4>1 DEF LastAnswer
      <3>3. i \in request[h].items => items[i] \in {Open, request[h].outcome}
        BY <1>0, <2>1 DEF Requested
      <3> QED BY <2>1, <3>2, <3>3, Outcomes
    <2>3. \A g \in Handler : at'[g] \in {"truncate", "write"} => at[g] = at'[g]
      BY <1>0, <2>1 DEF Types
    <2>4. \A g \in Handler : at[g] = "write" => at'[g] = "write"
      BY <1>0, <2>1 DEF Types
    <2> QED BY <1>0, <2>1, <2>2, <2>3, <2>4, StillKept
  <1>4. ASSUME NEW h \in Handler, Dump(h) PROVE KeptOf(i)'
    <2>1. /\ at[h] = "dump" /\ at'[h] = "truncate" /\ data'[h] = items
          /\ serial' => serial
          /\ i \in Item \ contested /\ UNCHANGED <<items, file, answers, whole>>
          /\ \A g \in Handler \ {h} : at'[g] = at[g] /\ data'[g] = data[g]
      BY <1>0, <1>4, DumpEffect
    <2>2. LastAnswer(i)' = LastAnswer(i) /\ (Answered(i)' <=> Answered(i))
      BY <2>1 DEF LastAnswer, Answered
    <2>3. Writing' = {} => Writing = {}
      BY <2>1 DEF Writing
    <2>4. Answered(i) /\ whole /\ serial => \A g \in Handler :
            at'[g] \in {"truncate", "write"} => data'[g][i] = LastAnswer(i)
      BY <1>0, <2>1 DEF KeptOf
    <2> QED BY <1>0, <2>1, <2>2, <2>3, <2>4 DEF KeptOf
  <1>5. ASSUME NEW h \in Handler, Truncate(h) PROVE KeptOf(i)'
    <2>1. /\ at[h] = "truncate" /\ at'[h] = "write"
          /\ i \in Item \ contested /\ UNCHANGED <<items, data, answers, serial, whole>>
          /\ \A g \in Handler \ {h} : at'[g] = at[g]
      BY <1>0, <1>5, DumpEffect
    <2>2. LastAnswer(i)' = LastAnswer(i) /\ (Answered(i)' <=> Answered(i))
      BY <2>1 DEF LastAnswer, Answered
    <2>3. Writing' # {}
      BY <2>1 DEF Writing
    <2>4. Answered(i) /\ whole /\ serial => \A g \in Handler :
            at'[g] \in {"truncate", "write"} => data'[g][i] = LastAnswer(i)
      BY <1>0, <2>1 DEF KeptOf
    <2> QED BY <1>0, <2>1, <2>2, <2>3, <2>4 DEF KeptOf
  <1>6. ASSUME NEW h \in Handler, Write(h) PROVE KeptOf(i)'
    <2>1. /\ at[h] = "write" /\ at'[h] = "ready" /\ file' = data[h]
          /\ i \in Item \ contested /\ UNCHANGED <<items, serial, whole>>
          /\ \A g \in Handler \ {h} : at'[g] = at[g]
          /\ answers'[i] = IF i \in Claims(h) THEN Append(answers[i], request[h].outcome)
                           ELSE answers[i]
      BY <1>0, <1>6, WriteEffect
    <2>2. serial => \A g \in Handler : at'[g] \notin {"truncate", "write"}
      BY <1>0, <2>1 DEF OneSave
    <2>3. CASE i \notin Claims(h)
      <3>1. answers'[i] = answers[i]
        BY <2>1, <2>3
      <3>2. LastAnswer(i)' = LastAnswer(i) /\ (Answered(i)' <=> Answered(i))
        BY <3>1 DEF LastAnswer, Answered
      <3>3. Answered(i) /\ whole /\ serial => data[h][i] = LastAnswer(i)
        BY <1>0, <2>1 DEF KeptOf
      <3> QED BY <1>0, <2>1, <2>2, <3>1, <3>2, <3>3 DEF KeptOf
    <2>4. CASE i \in Claims(h)
      <3>0. i \in Claims(h) \ contested /\ h \in Handler
        BY <2>1, <2>4
      <3>1. /\ whole => answers[i] = <<>>
            /\ items[i] = request[h].outcome /\ data[h][i] = request[h].outcome
        BY <1>0, <2>1, <3>0, RequestedIsOfEach DEF RequestedOf
      <3>2. whole => answers'[i] = Append(<<>>, request[h].outcome)
        BY <2>1, <2>4, <3>1
      <3>3. /\ Append(<<>>, request[h].outcome) = <<request[h].outcome>>
            /\ Len(<<request[h].outcome>>) = 1
            /\ <<request[h].outcome>>[1] = request[h].outcome
        OBVIOUS
      <3>4. whole => Len(answers'[i]) = 1 /\ LastAnswer(i)' = request[h].outcome
        BY <3>2, <3>3 DEF LastAnswer
      <3> QED BY <2>1, <2>2, <3>1, <3>4 DEF KeptOf
    <2> QED BY <2>3, <2>4
  <1>7. CASE Restart
    <2>1. /\ file' = items' /\ (whole' => items' = file)
          /\ whole' => whole /\ serial /\ Writing = {}
          /\ \A h \in Handler : at'[h] = "ready"
          /\ i \in Item \ contested /\ UNCHANGED <<answers, serial>>
      BY <1>0, <1>7, RestartEffect
    <2>2. LastAnswer(i)' = LastAnswer(i) /\ (Answered(i)' <=> Answered(i))
      BY <2>1 DEF LastAnswer, Answered
    <2>3. Answered(i) /\ whole' => Len(answers[i]) = 1 /\ file[i] = LastAnswer(i)
      BY <1>0, <2>1 DEF KeptOf
    <2> QED BY <2>1, <2>2, <2>3 DEF KeptOf
  <1>8. CASE UNCHANGED vars
    <2>1. i \in Item \ contested
      BY <1>8 DEF vars
    <2> QED BY <1>0, <1>8, <2>1, StillKept DEF vars
  <1> QED BY <1>1, <1>2, <1>3, <1>4, <1>5, <1>6, <1>7, <1>8, Steps

LEMMA Inductive == Spec => []IInv
  <1>1. IInv /\ [Next]_vars => IInv'
    BY NextTypes, NextMadeFirst, NextApart, NextRequested, NextOneSave, NextKept DEF IInv
  <1> QED BY InitIInv, <1>1, PTL DEF Spec

-----------------------------------------------------------------------------
\* api.py:35, scratch.py:6.  However many threads use the store at once and whatever is
\* added, changed, expired and settled, an item is settled twice only if two threads had it
\* in hand at once, or after a restart over a file that was not saved in one piece.
THEOREM SettledOnlyOnce == Spec => []SettledOnce
  <1>1. IInv => SettledOnce
    <2> SUFFICES ASSUME IInv, whole, NEW i \in Item \ contested PROVE Len(answers[i]) <= 1
      BY DEF SettledOnce
    <2>1. answers[i] # <<>> => Len(answers[i]) = 1
      BY DEF IInv, Kept, Answered
    <2>2. CASE answers[i] = <<>>
      BY <2>2
    <2>3. CASE answers[i] # <<>>
      <3>1. Len(answers[i]) = 1
        BY <2>1, <2>3
      <3> QED BY <3>1
    <2> QED BY <2>2, <2>3
  <1> QED BY Inductive, <1>1, PTL

\* holding.py:121-130.  For any number of threads, what a client was told is in the file,
\* as long as saves do not overlap and no stop has hit one.
THEOREM AnswersAreDurable == Spec => []AnsweredIsDurable
  <1>1. IInv => AnsweredIsDurable
    BY DEF IInv, Kept, AnsweredIsDurable
  <1> QED BY Inductive, <1>1, PTL

\* api.py:35.  For any number of threads, a settled item is never open again in memory,
\* nor in the file as long as saves do not overlap.
THEOREM SettledForEver == Spec => []SettledStays
  <1>1. IInv => SettledStays
    <2> SUFFICES ASSUME IInv, whole, NEW i \in Item \ contested, Answered(i)
                 PROVE  items[i] # Open /\ (serial => file[i] # Open)
      BY DEF SettledStays
    <2>1. answers[i] \in Seq(Settled) /\ Len(answers[i]) = 1 /\ items[i] = LastAnswer(i)
      BY DEF IInv, Types, Kept
    <2>2. LastAnswer(i) \in Settled
      BY <2>1 DEF LastAnswer
    <2>3. serial => file[i] = LastAnswer(i) \/ file[i] = None
      <3>1. CASE Writing = {}
        BY <3>1 DEF IInv, Kept
      <3>2. CASE Writing # {}
        BY <3>2 DEF IInv, OneSave, Empty
      <3> QED BY <3>1, <3>2
    <2> QED BY <2>1, <2>2, <2>3, Outcomes
  <1> QED BY Inductive, <1>1, PTL
=============================================================================
