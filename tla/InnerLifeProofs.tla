--------------------------- MODULE InnerLifeProofs ---------------------------
(***************************************************************************)
(* What holds of the inner-life pipeline for all topics, threads and times *)
(* and however many thoughts it integrates.                                *)
(***************************************************************************)
EXTENDS InnerLife, WellFoundedInduction, TLAPS

\* A set of natural numbers that is not empty has a least element.
LEMMA LeastElement ==
    ASSUME NEW S, S \subseteq Nat, S # {}
    PROVE  \E i \in S : \A j \in S : i <= j
<1> DEFINE less == {pair \in Nat \X Nat : pair[1] < pair[2]}
<1>1. IsWellFoundedOn(less, Nat)
  BY NatLessThanWellFounded DEF OpToRel
<1> HIDE DEF less
<1>2. PICK i \in S : \A j \in S : <<j, i>> \notin less
  BY <1>1, WFMin
<1>3. ASSUME NEW j \in S PROVE i <= j
  <2>1. i \in Nat /\ j \in Nat
    OBVIOUS
  <2>2. j < i => <<j, i>> \in less
    BY <2>1 DEF less
  <2> QED
    BY <1>2, <2>1, <2>2
<1> QED
  BY <1>3

-----------------------------------------------------------------------------
(* Types                                                                    *)

\* A fascination has been developed no more often than a thought was integrated, and the
\* workflow that runs started in the past, for a topic.
TypeInv ==
    /\ TypeOK
    /\ \A i \in DOMAIN fascinations : fascinations[i].count <= thoughts
    /\ start <= now
    /\ pc # "idle" => topic \in Topic

\* What an appended sequence has at its places.
LEMMA AppendPlaces ==
    ASSUME NEW S, NEW s \in Seq(S), NEW e \in S
    PROVE  /\ Append(s, e) \in Seq(S)
           /\ DOMAIN Append(s, e) = DOMAIN s \cup {Len(s) + 1} /\ Len(s) + 1 \notin DOMAIN s
           /\ \A i \in DOMAIN s : i \in Nat /\ i < Len(s) + 1 /\ Append(s, e)[i] = s[i] /\ s[i] \in S
           /\ Append(s, e)[Len(s) + 1] = e
OBVIOUS

\* What is left of an appended sequence that is cut off anywhere.
LEMMA Recorded ==
    ASSUME NEW S, NEW s \in Seq(S), NEW e \in S, NEW n \in 0..(Len(s) + 1),
           NEW r, r = SubSeq(Append(s, e), 1, n)
    PROVE  /\ r \in Seq(S)
           /\ Len(s) \in Nat /\ \A i \in DOMAIN s : i \in Nat /\ i < Len(s) + 1
           /\ \A i \in DOMAIN r : (i \in DOMAIN s /\ r[i] = s[i]) \/ (i = Len(s) + 1 /\ r[i] = e)
<1> DEFINE a == Append(s, e)
<1>0. r = SubSeq(a, 1, n)
  OBVIOUS
<1>1. /\ a \in Seq(S) /\ Len(a) = Len(s) + 1 /\ Len(s) \in Nat
      /\ DOMAIN s = 1..Len(s)
      /\ \A i \in DOMAIN s : i \in Nat /\ i < Len(s) + 1 /\ a[i] = s[i] /\ s[i] \in S
      /\ a[Len(s) + 1] = e
  BY AppendPlaces
<1> HIDE DEF a
<1>2. r \in Seq(S) /\ DOMAIN r = 1..n /\ \A i \in 1..n : r[i] = a[i]
  BY <1>0, <1>1
<1>3. ASSUME NEW i \in DOMAIN r
      PROVE  \/ i \in DOMAIN s /\ r[i] = s[i]
             \/ i = Len(s) + 1 /\ r[i] = e
  <2>1. i \in 1..n /\ r[i] = a[i]
    BY <1>2
  <2>2. i \in 1..Len(s) \/ i = Len(s) + 1
    BY <1>1, <2>1
  <2> QED BY <1>1, <2>1, <2>2
<1> QED BY <1>1, <1>2, <1>3

\* The places of a sequence, and a function on them.
LEMMA Places ==
    ASSUME NEW S, NEW s \in Seq(S)
    PROVE  /\ Len(s) \in Nat /\ DOMAIN s = 1..Len(s)
           /\ \A i \in DOMAIN s : i \in Nat /\ i <= Len(s) /\ s[i] \in S
           /\ \A f : f = [i \in DOMAIN s |-> f[i]] /\ (\A i \in DOMAIN s : f[i] \in S) => f \in Seq(S)
<1>1. \A f \in [1..Len(s) -> S] : f \in Seq(S)
  OBVIOUS
<1> QED
  BY <1>1

\* The fascination that is developed is an active one of the list.
LEMMA MatchIsActive ==
    ASSUME TypeOK, Active # {}, NEW t
    PROVE  Match(t) \in Active
<1> DEFINE named == {i \in Active : Same(fascinations[i].topic, t)}
           from == IF named = {} THEN Active ELSE named
<1>1. from # {} /\ from \subseteq Active /\ from \subseteq Nat
  BY DEF Active, TypeOK
<1>2. \E i \in from : \A j \in from : i <= j
  BY <1>1, LeastElement
<1>3. Earliest(from) \in from
  BY <1>2 DEF Earliest
<1> QED
  BY <1>1, <1>3 DEF Match

\* A development replaces entries of one topic, which an active one has, by a well-typed entry of
\* that topic whose count is greater by one.
LEMMA Development ==
    ASSUME TypeInv, NEW t \in Topic, DevelopsExisting(t)
    PROVE  \E m \in Active, e \in Fascination :
              /\ fascinations' = [i \in DOMAIN fascinations |->
                    IF fascinations[i].topic = fascinations[m].topic THEN e ELSE fascinations[i]]
              /\ e.topic = fascinations[m].topic /\ e.count <= thoughts + 1
              /\ Integrate(e.topic)
<1> DEFINE m == Match(t)
<1>1. m \in Active /\ m \in DOMAIN fascinations
  BY MatchIsActive DEF DevelopsExisting, Active, TypeInv
<1>2. fascinations[m] \in Fascination /\ fascinations[m].count <= thoughts
  BY <1>1 DEF TypeInv, TypeOK
<1> DEFINE count == NextCount(fascinations[m])
           e(promote) == [fascinations[m] EXCEPT !.count = count,
                                                 !.status = IF promote THEN "promoted" ELSE "active"]
<1>3. PICK promote \in BOOLEAN :
        /\ fascinations' = [i \in DOMAIN fascinations |->
              IF fascinations[i].topic = fascinations[m].topic THEN e(promote) ELSE fascinations[i]]
        /\ Integrate(fascinations[m].topic)
  BY DEF DevelopsExisting
<1> HIDE DEF m
<1>4. count \in 0..MaxThoughts /\ count <= thoughts + 1
  BY <1>2, <1>3, TimesAssumption DEF Fascination, NextCount, Integrate, TypeInv, TypeOK
<1> HIDE DEF count
<1>5. /\ e(promote) \in Fascination /\ e(promote).topic = fascinations[m].topic
      /\ e(promote).count = count
  BY <1>2, <1>4 DEF Fascination
<1> HIDE DEF e
<1> QED
  BY <1>1, <1>3, <1>4, <1>5

LEMMA InitType == Init => TypeInv
BY TimesAssumption DEF Init, TypeInv, TypeOK, Time

LEMMA NextType == TypeInv /\ [Next]_vars => TypeInv'
<1> SUFFICES ASSUME TypeInv, [Next]_vars PROVE TypeInv'
  OBVIOUS
<1> USE TimesAssumption DEF TypeInv, TypeOK, Time
<1>1. CASE Tick
  BY <1>1 DEF Tick, passage, stores
<1>2. CASE StartPollination
  BY <1>2 DEF StartPollination, stores
<1>3. CASE EmitSignal
  BY <1>3 DEF EmitSignal, Named
<1>4. CASE Evaluate
  BY <1>4 DEF Evaluate, stores
<1>5. CASE HoldingItem
  BY <1>5 DEF HoldingItem, EndPassage, Hold, HeldItem
<1>6. CASE Push
  BY <1>6 DEF Push, Hold, HeldItem
<1>7. CASE RecordPush
  <2>1. pushes' \in Seq(Time)
    <3>1. PICK n \in 0..(Len(pushes) + 1) : pushes' = SubSeq(Append(pushes, now), 1, n)
      BY <1>7 DEF RecordPush
    <3> QED BY <3>1, Recorded
  <2> QED BY <1>7, <2>1 DEF RecordPush, EndPassage
<1>8. CASE Leave
  BY <1>8 DEF Leave, EndPassage, stores
<1>9. ASSUME NEW t \in Thread, PassOver(t) PROVE TypeInv'
  BY <1>9 DEF PassOver, stores
<1>10. ASSUME NEW t \in Thread, Pollinate(t) PROVE TypeInv'
  <2> DEFINE new == [topic |-> topic, at |-> start]
  <2>1. new \in DaemonPerspective
    BY <1>10 DEF Pollinate, DaemonPerspective
  <2>2. perspectives' = [perspectives EXCEPT ![t] = Append(perspectives[t], new)]
    BY <1>10 DEF Pollinate, AddPerspective
  <2> HIDE DEF new
  <2>3. Append(perspectives[t], new) \in Seq(DaemonPerspective)
    BY <2>1, AppendPlaces
  <2>4. perspectives' \in [Thread -> Seq(DaemonPerspective)]
    BY <2>2, <2>3
  <2> QED
    BY <1>10, <2>4 DEF Pollinate
<1>11. ASSUME NEW t \in Topic, NewFascination(t) PROVE TypeInv'
  <2> DEFINE new == [topic |-> t, count |-> 0, status |-> "active"]
  <2>1. new \in Fascination /\ new.count = 0
    BY DEF Fascination
  <2>2. fascinations' = Append(fascinations, new)
    BY <1>11 DEF NewFascination
  <2> HIDE DEF new
  <2>3. /\ fascinations' \in Seq(Fascination)
        /\ \A i \in DOMAIN fascinations' : fascinations'[i].count <= thoughts + 1
    <3> DEFINE f == Append(fascinations, new)
    <3>1. /\ f \in Seq(Fascination) /\ DOMAIN f = DOMAIN fascinations \cup {Len(fascinations) + 1}
          /\ \A i \in DOMAIN fascinations : f[i] = fascinations[i] /\ fascinations[i] \in Fascination
          /\ f[Len(fascinations) + 1] = new
      BY <2>1, AppendPlaces
    <3>2. \A i \in DOMAIN f : f[i].count <= thoughts + 1
      BY <2>1, <3>1 DEF Fascination
    <3> QED
      BY <2>2, <3>1, <3>2
  <2> QED
    BY <1>11, <2>3 DEF NewFascination, Integrate
<1>12. ASSUME NEW t \in Topic, DevelopsExisting(t) PROVE TypeInv'
  <2>1. PICK m \in Active, e \in Fascination :
          /\ fascinations' = [i \in DOMAIN fascinations |->
                IF fascinations[i].topic = fascinations[m].topic THEN e ELSE fascinations[i]]
          /\ e.topic = fascinations[m].topic /\ e.count <= thoughts + 1
          /\ Integrate(e.topic)
    BY <1>12, Development
  <2>2. /\ DOMAIN fascinations' = DOMAIN fascinations
        /\ fascinations' = [i \in DOMAIN fascinations |-> fascinations'[i]]
        /\ \A i \in DOMAIN fascinations : fascinations'[i] \in {fascinations[i], e}
    BY <2>1
  <2>6. \A i \in DOMAIN fascinations : fascinations[i] \in Fascination
    BY Places
  <2>7. fascinations' \in Seq(Fascination)
    BY <2>2, <2>6, Places
  <2>3. \A i \in DOMAIN fascinations' : fascinations'[i].count <= thoughts + 1
    <3>1. \A i \in DOMAIN fascinations :
            fascinations[i].count \in Nat /\ fascinations[i].count <= thoughts
      BY <2>6 DEF Fascination
    <3> QED
      BY <2>1, <2>2, <3>1
  <2>4. questions' \in SUBSET Topic
    <3>1. Match(t) \in DOMAIN fascinations
      BY <1>12, MatchIsActive DEF DevelopsExisting, Active
    <3>2. fascinations[Match(t)].topic \in Topic
      BY <2>6, <3>1 DEF Fascination
    <3> QED
      BY <1>12, <3>2 DEF DevelopsExisting
  <2>5. e.topic \in Topic
    BY DEF Fascination
  <2> QED
    BY <2>1, <2>3, <2>4, <2>5, <2>7 DEF Integrate
<1>13. CASE UNCHANGED vars
  BY <1>13 DEF vars, passage, stores
<1> QED
  BY <1>1, <1>2, <1>3, <1>4, <1>5, <1>6, <1>7, <1>8, <1>9, <1>10, <1>11, <1>12, <1>13 DEF Next

\* daemon_integration.py, inner_life_thread_pollination.py, inner_life_push_evaluation.py.  The
\* state of the pipeline is well typed for all bounds: a count of developments never passes the
\* number of thoughts.
THEOREM PipelineTypeCorrect == Spec => []TypeOK
<1>1. TypeInv => TypeOK
  BY DEF TypeInv
<1> QED
  BY <1>1, InitType, NextType, PTL DEF Spec

-----------------------------------------------------------------------------
(* Perspectives                                                             *)

\* The only step that writes a thread appends one perspective to it.
LEMMA PerspectivesWritten ==
    ASSUME TypeInv, [Next]_vars
    PROVE  \/ perspectives' = perspectives
           \/ \E t \in Thread : Pollinate(t)
BY DEF Next, Tick, StartPollination, EmitSignal, Evaluate, HoldingItem, Push, RecordPush, Leave,
       PassOver, NewFascination, DevelopsExisting, Integrate, vars, stores

LEMMA Pollinated ==
    ASSUME TypeInv, NEW t \in Thread, Pollinate(t)
    PROVE  /\ [topic |-> topic, at |-> start] \in DaemonPerspective
           /\ perspectives[t] \in Seq(DaemonPerspective)
           /\ perspectives'[t] = Append(perspectives[t], [topic |-> topic, at |-> start])
           /\ \A u \in Thread \ {t} : perspectives'[u] = perspectives[u]
BY DEF TypeInv, TypeOK, Pollinate, AddPerspective, DaemonPerspective

\* A perspective is added only when every one from the same fascination is old.
LEMMA NextSpaced == TypeInv /\ PerspectivesSpaced /\ [Next]_vars => PerspectivesSpaced'
<1> SUFFICES ASSUME TypeInv, PerspectivesSpaced, NEW t \in Thread, Pollinate(t)
             PROVE  PerspectivesSpaced'
  BY PerspectivesWritten DEF PerspectivesSpaced
<1> DEFINE new == [topic |-> topic, at |-> start]
           old == perspectives[t]
<1>1. /\ new \in DaemonPerspective /\ old \in Seq(DaemonPerspective)
      /\ perspectives'[t] = Append(old, new)
      /\ \A u \in Thread \ {t} : perspectives'[u] = perspectives[u]
  BY Pollinated
<1>2. /\ DOMAIN Append(old, new) = DOMAIN old \cup {Len(old) + 1}
      /\ \A i \in DOMAIN old : /\ i \in Nat /\ i < Len(old) + 1 /\ Append(old, new)[i] = old[i]
                               /\ old[i] \in DaemonPerspective
      /\ Append(old, new)[Len(old) + 1] = new /\ Len(old) \in Nat
  BY <1>1, AppendPlaces
<1>3. \A i \in DOMAIN old : Same(old[i].topic, topic) => old[i].at + DedupTime < start
  <2>1. \A i \in DOMAIN old : old[i].at \in Nat
    BY <1>2 DEF DaemonPerspective, Time
  <2> QED
    BY <2>1, TimesAssumption DEF Pollinate, IsDuplicate, TypeInv, TypeOK, Time
<1>4. new.topic = topic /\ new.at = start
  OBVIOUS
<1> HIDE DEF new, old
<1>5. ASSUME NEW i \in DOMAIN Append(old, new), NEW j \in DOMAIN Append(old, new), i < j,
             Same(Append(old, new)[i].topic, Append(old, new)[j].topic)
      PROVE  Append(old, new)[i].at + DedupTime < Append(old, new)[j].at
  <2>1. i \in DOMAIN old /\ Append(old, new)[i] = old[i]
    BY <1>2, <1>5
  <2>2. CASE j \in DOMAIN old
    BY <1>2, <1>5, <2>1, <2>2 DEF PerspectivesSpaced, old
  <2>3. CASE j = Len(old) + 1
    BY <1>2, <1>3, <1>4, <1>5, <2>1, <2>3
  <2> QED
    BY <1>2, <2>2, <2>3
<1> QED
  BY <1>1, <1>5 DEF PerspectivesSpaced

\* inner_life_thread_pollination.py:6-7, for every dedup_hours and any number of
\* thoughts, threads and failures: perspectives from one fascination are spaced.
THEOREM PerspectivesAreSpaced == Spec => []PerspectivesSpaced
<1>1. Init => PerspectivesSpaced
  BY DEF Init, PerspectivesSpaced
<1> QED
  BY <1>1, InitType, NextType, NextSpaced, PTL DEF Spec

-----------------------------------------------------------------------------
(* Signals and held items                                                   *)

\* p is among the perspectives of t.
HasPerspective(t, p) == \E i \in DOMAIN perspectives[t] : perspectives[t][i] = p

\* What the passage has done so far, from which the signal and the item are made.
TraceInv ==
    /\ InsightsTrace
    /\ pc = "visit" => \A t \in pollinated : HasPerspective(t, [topic |-> topic, at |-> start])
    /\ pc \in {"signalled", "asked", "pushing"} =>
         \E s \in signals : s.topic = topic /\ s.threads = pollinated

\* Perspectives are not taken away.
LEMMA PerspectivesStay ==
    ASSUME TypeInv, [Next]_vars, NEW t \in Thread, NEW p, HasPerspective(t, p)
    PROVE  HasPerspective(t, p)'
<1>1. CASE perspectives' = perspectives
  BY <1>1 DEF HasPerspective
<1>2. ASSUME NEW u \in Thread, Pollinate(u) PROVE HasPerspective(t, p)'
  <2>1. CASE u = t
    <3> DEFINE new == [topic |-> topic, at |-> start]
    <3>1. /\ new \in DaemonPerspective /\ perspectives[t] \in Seq(DaemonPerspective)
          /\ perspectives'[t] = Append(perspectives[t], new)
      BY <1>2, <2>1, Pollinated
    <3> HIDE DEF new
    <3> QED
      BY <3>1, AppendPlaces DEF HasPerspective
  <2>2. CASE u # t
    BY <1>2, <2>2, Pollinated DEF HasPerspective
  <2> QED
    BY <2>1, <2>2
<1> QED
  BY <1>1, <1>2, PerspectivesWritten

LEMMA PollinatedHas ==
    ASSUME TypeInv, NEW t \in Thread, Pollinate(t)
    PROVE  HasPerspective(t, [topic |-> topic, at |-> start])'
<1> DEFINE new == [topic |-> topic, at |-> start]
<1>1. /\ new \in DaemonPerspective /\ perspectives[t] \in Seq(DaemonPerspective)
      /\ perspectives'[t] = Append(perspectives[t], new)
      /\ topic' = topic /\ start' = start
  BY Pollinated DEF Pollinate
<1>2. new' = new
  BY <1>1
<1> HIDE DEF new
<1>3. \E i \in DOMAIN perspectives'[t] : perspectives'[t][i] = new
  BY <1>1, AppendPlaces
<1>4. \E i \in DOMAIN perspectives'[t] : perspectives'[t][i] = new'
  BY <1>2, <1>3
<1> QED
  BY <1>4 DEF HasPerspective, new

\* Signals and items that are there keep what they were made from.
LEMMA TraceStays ==
    ASSUME TypeInv, InsightsTrace, [Next]_vars
    PROVE  /\ \A s \in signals : \A t \in s.threads : HasPerspective(t, [topic |-> s.topic, at |-> s.at])'
           /\ signals \subseteq signals'
<1>1. \A s \in signals : s.threads \subseteq Thread
  BY DEF TypeInv, TypeOK
<1>2. \A s \in signals : \A t \in s.threads : HasPerspective(t, [topic |-> s.topic, at |-> s.at])
  BY DEF InsightsTrace, HasPerspective
<1>3. signals \subseteq signals'
  BY DEF Next, Tick, StartPollination, EmitSignal, Evaluate, HoldingItem, Push, RecordPush, Leave,
         PassOver, Pollinate, NewFascination, DevelopsExisting, Integrate, vars, stores
<1>4. ASSUME NEW s \in signals, NEW t \in s.threads
      PROVE  HasPerspective(t, [topic |-> s.topic, at |-> s.at])'
  <2> DEFINE p == [topic |-> s.topic, at |-> s.at]
  <2>1. HasPerspective(t, p) /\ t \in Thread
    BY <1>1, <1>2, <1>4
  <2> HIDE DEF p
  <2>2. HasPerspective(t, p)'
    BY <2>1, PerspectivesStay
  <2> QED
    BY <2>2 DEF p
<1> QED
  BY <1>3, <1>4

LEMMA NextTrace == TypeInv /\ TraceInv /\ [Next]_vars => TraceInv'
<1> SUFFICES ASSUME TypeInv, TraceInv, [Next]_vars PROVE TraceInv'
  OBVIOUS
<1>1. /\ \A s \in signals : \A t \in s.threads : HasPerspective(t, [topic |-> s.topic, at |-> s.at])'
      /\ signals \subseteq signals'
  BY TraceStays DEF TraceInv
\* It remains to look at the signals and items that are new, and at the passage.
<1>2. ASSUME signals' = signals, held' = held PROVE InsightsTrace'
  BY <1>1, <1>2 DEF InsightsTrace, TraceInv, HasPerspective
<1>3. CASE Tick
  <2>1. UNCHANGED <<signals, held, pc, topic, start, pollinated, perspectives>>
    BY <1>3 DEF Tick, stores, passage
  <2> QED
    BY <1>2, <2>1 DEF TraceInv, HasPerspective
<1>4. CASE StartPollination
  BY <1>2, <1>4 DEF StartPollination, stores, TraceInv
<1>5. CASE EmitSignal
  <2> DEFINE new == [topic |-> topic, threads |-> pollinated, at |-> start]
  <2>1. /\ signals' = signals \cup {new} /\ pc = "visit"
        /\ UNCHANGED <<held, perspectives, topic, pollinated>> /\ pc' = "signalled"
    BY <1>5 DEF EmitSignal, Named
  <2>2. \A t \in new.threads : HasPerspective(t, [topic |-> new.topic, at |-> new.at])
    BY <2>1 DEF TraceInv
  <2>3. new.topic = topic /\ new.threads = pollinated
    OBVIOUS
  <2> HIDE DEF new
  <2>4. InsightsTrace'
    BY <2>1, <2>2 DEF InsightsTrace, TraceInv, HasPerspective
  <2> QED
    BY <2>1, <2>3, <2>4 DEF TraceInv
<1>6. CASE Evaluate
  BY <1>2, <1>6 DEF Evaluate, stores, TraceInv
<1>7. CASE HoldingItem \/ Push
  <2>1. PICK u \in {"medium", "high"} : Hold(u)
    BY <1>7 DEF HoldingItem, Push
  <2>2. /\ UNCHANGED <<signals, perspectives>> /\ pc = "asked" /\ pc' \in {"idle", "pushing"}
        /\ pc' = "pushing" => UNCHANGED <<topic, pollinated>>
    BY <1>7 DEF HoldingItem, Push, EndPassage
  <2>3. InsightsTrace'
    BY <1>1, <2>1, <2>2 DEF InsightsTrace, TraceInv, HasPerspective, Hold
  <2> QED
    BY <2>2, <2>3 DEF TraceInv
<1>8. CASE RecordPush \/ Leave
  BY <1>2, <1>8 DEF RecordPush, Leave, EndPassage, stores, TraceInv
<1>9. ASSUME NEW t \in Thread, PassOver(t) PROVE TraceInv'
  BY <1>2, <1>9 DEF PassOver, stores, TraceInv, HasPerspective
<1>10. ASSUME NEW t \in Thread, Pollinate(t) PROVE TraceInv'
  <2>0. PICK p : p = [topic |-> topic, at |-> start]
    OBVIOUS
  <2>1. /\ UNCHANGED <<signals, held, pc, topic, start>> /\ pc = "visit"
        /\ pollinated' = pollinated \cup {t} /\ pollinated \subseteq Thread
    BY <1>10 DEF Pollinate, TypeInv, TypeOK
  <2>2. \A u \in pollinated : HasPerspective(u, p)
    BY <2>0, <2>1 DEF TraceInv
  <2>3. p = [topic |-> topic, at |-> start]' /\ HasPerspective(t, p)'
    BY <1>10, <2>0, <2>1, PollinatedHas DEF HasPerspective
  <2>4. \A u \in pollinated : HasPerspective(u, p)'
    BY <2>1, <2>2, PerspectivesStay
  <2>5. \A u \in pollinated' : HasPerspective(u, p)'
    BY <2>1, <2>3, <2>4
  <2> QED
    BY <1>2, <2>1, <2>3, <2>5 DEF TraceInv, HasPerspective
<1>11. ASSUME NEW t \in Topic, NewFascination(t) \/ DevelopsExisting(t) PROVE TraceInv'
  BY <1>2, <1>11 DEF NewFascination, DevelopsExisting, Integrate, TraceInv
<1>12. CASE UNCHANGED vars
  <2>1. UNCHANGED <<signals, held, pc, topic, start, pollinated, perspectives>>
    BY <1>12 DEF vars, stores, passage
  <2> QED
    BY <1>2, <2>1 DEF TraceInv, HasPerspective
<1> QED
  BY <1>3, <1>4, <1>5, <1>6, <1>7, <1>8, <1>9, <1>10, <1>11, <1>12 DEF Next

\* inner_life_thread_pollination.py:241-265, inner_life_push_evaluation.py:198-216.  For any bounds
\* and wherever a passage is left, what is held for the user goes back to a signal, and the signal
\* to a perspective of every thread it names.
THEOREM InsightsAreTraced == Spec => []InsightsTrace
<1>1. Init => TraceInv
  BY DEF Init, TraceInv, InsightsTrace
<1>2. TraceInv => InsightsTrace
  BY DEF TraceInv
<1> QED
  BY <1>1, <1>2, InitType, NextType, NextTrace, PTL DEF Spec

-----------------------------------------------------------------------------
(* Pushes                                                                   *)

\* h was held for a push that every earlier push is far enough from.
HeldForPush(h) ==
    /\ h.urgency = "high" /\ h.at <= now
    /\ \A i \in DOMAIN pushes : pushes[i] + CeilingTime <= h.at

\* The test of the ceiling is good for as long as the model is asked; the item then is there
\* before the push is recorded.
PushInv ==
    /\ PushesSpaced
    /\ pc = "asked" => \A i \in DOMAIN pushes : pushes[i] + CeilingTime <= start
    /\ pc = "pushing" => \E h \in held : HeldForPush(h)

\* Outside the ceiling of the last push, now is outside the ceiling of every one.
LEMMA LastDecides ==
    ASSUME TypeInv, PushesSpaced, ~WithinCeiling(now)
    PROVE  \A i \in DOMAIN pushes : pushes[i] + CeilingTime <= now
<1>1. SUFFICES ASSUME NEW i \in DOMAIN pushes PROVE pushes[i] + CeilingTime <= now
  OBVIOUS
<1>2. /\ i \in Nat /\ i <= Len(pushes) /\ Len(pushes) \in DOMAIN pushes
      /\ pushes[i] \in Nat /\ pushes[Len(pushes)] \in Nat /\ now \in Nat
      /\ pushes # <<>> /\ Len(pushes) \in Nat
  <2>1. pushes \in Seq(Time) /\ now \in Nat
    BY DEF TypeInv, TypeOK, Time
  <2>2. /\ DOMAIN pushes = 1..Len(pushes) /\ Len(pushes) \in Nat
        /\ \A k \in DOMAIN pushes : pushes[k] \in Time
    BY <2>1, Places
  <2>3. i \in Nat /\ 1 <= i /\ i <= Len(pushes) /\ Len(pushes) \in DOMAIN pushes
    BY <2>2
  <2> QED
    BY <2>1, <2>2, <2>3 DEF Time
<1>3. pushes[Len(pushes)] + CeilingTime <= now
  BY <1>2, TimesAssumption DEF WithinCeiling
<1>4. CASE i = Len(pushes)
  BY <1>3, <1>4
<1>5. CASE i < Len(pushes)
  <2>1. PICK h \in held : h.at <= pushes[Len(pushes)] /\ pushes[i] + CeilingTime <= h.at
    BY <1>2, <1>5 DEF PushesSpaced
  <2>2. h.at \in Nat
    BY DEF TypeInv, TypeOK, HeldItem, Time
  <2> QED
    BY <1>2, <1>3, <2>1, <2>2, TimesAssumption
<1> QED
  BY <1>2, <1>4, <1>5

LEMMA NextPush == TypeInv /\ PushInv /\ [Next]_vars => PushInv'
<1> SUFFICES ASSUME TypeInv, PushInv, [Next]_vars PROVE PushInv'
  OBVIOUS
<1>0. TypeInv' /\ now \in Nat /\ start <= now /\ start \in Nat
  BY NextType DEF TypeInv, TypeOK, Time
<1>1. ASSUME UNCHANGED <<held, pushes>> PROVE PushesSpaced'
  BY <1>1 DEF PushInv, PushesSpaced
<1>2. CASE Tick
  <2>1. UNCHANGED <<held, pushes, pc, start>> /\ now' = now + 1
    BY <1>2 DEF Tick, stores, passage
  <2>2. \A h \in held : h.at \in Nat
    BY DEF TypeInv, TypeOK, HeldItem, Time
  <2>3. \A h \in held : HeldForPush(h) => HeldForPush(h)'
    BY <1>0, <2>1, <2>2 DEF HeldForPush
  <2> QED
    BY <1>1, <2>1, <2>3 DEF PushInv
<1>3. CASE Evaluate
  <2>1. UNCHANGED <<held, pushes>> /\ pc' = "asked" /\ start' = now /\ ~WithinCeiling(now)
    BY <1>3 DEF Evaluate, stores
  <2>2. \A i \in DOMAIN pushes : pushes[i] + CeilingTime <= now
    BY <2>1, LastDecides DEF PushInv
  <2> QED
    BY <1>1, <2>1, <2>2 DEF PushInv
<1>4. CASE HoldingItem
  <2>1. held \subseteq held' /\ pushes' = pushes /\ pc' = "idle"
    BY <1>4 DEF HoldingItem, Hold, EndPassage
  <2> QED
    BY <2>1 DEF PushInv, PushesSpaced
<1>5. CASE Push
  <2>0. PICK h : h = [urgency |-> "high", topic |-> topic, threads |-> pollinated, at |-> now]
    OBVIOUS
  <2>1. held' = held \cup {h} /\ pushes' = pushes /\ pc = "asked" /\ pc' = "pushing" /\ now' = now
    BY <1>5, <2>0 DEF Push, Hold
  <2>2. PushesSpaced'
    BY <2>1 DEF PushInv, PushesSpaced
  <2>3. h.urgency = "high" /\ h.at = now
    BY <2>0
  <2>4. \A i \in DOMAIN pushes : pushes[i] \in Nat /\ pushes[i] + CeilingTime <= start
    <3>1. \A i \in DOMAIN pushes : pushes[i] \in Time
      BY Places DEF TypeInv, TypeOK
    <3> QED
      BY <2>1, <3>1 DEF PushInv, Time
  <2>5. HeldForPush(h)'
    BY <1>0, <2>1, <2>3, <2>4, TimesAssumption DEF HeldForPush
  <2> QED
    BY <2>1, <2>2, <2>5 DEF PushInv
<1>6. CASE RecordPush
  <2>1. /\ held' = held /\ pc' = "idle" /\ pc = "pushing"
        /\ pushes \in Seq(Time) /\ now \in Time
    BY <1>6 DEF RecordPush, EndPassage, TypeInv, TypeOK
  <2>2. PICK h \in held : HeldForPush(h)
    BY <2>1 DEF PushInv
  <2>3. PICK n \in 0..(Len(pushes) + 1) : pushes' = SubSeq(Append(pushes, now), 1, n)
    BY <1>6 DEF RecordPush
  <2>4. /\ \A i \in DOMAIN pushes : i \in Nat /\ i < Len(pushes) + 1
        /\ \A i \in DOMAIN pushes' :
             \/ i \in DOMAIN pushes /\ pushes'[i] = pushes[i]
             \/ i = Len(pushes) + 1 /\ pushes'[i] = now
        /\ Len(pushes) \in Nat
    BY <2>1, <2>3, Recorded
  <2>5. ASSUME NEW j \in DOMAIN pushes'
        PROVE  \E g \in held : /\ g.urgency = "high" /\ g.at <= pushes'[j]
                               /\ \A i \in DOMAIN pushes' : i < j => pushes'[i] + CeilingTime <= g.at
    <3>1. \A i \in DOMAIN pushes' : i < j => i \in DOMAIN pushes /\ pushes'[i] = pushes[i]
      BY <2>4
    <3>2. CASE j = Len(pushes) + 1 /\ pushes'[j] = now
      BY <2>2, <3>1, <3>2 DEF HeldForPush
    <3>3. CASE j \in DOMAIN pushes /\ pushes'[j] = pushes[j]
      BY <3>1, <3>3 DEF PushInv, PushesSpaced
    <3> QED
      BY <2>4, <3>2, <3>3
  <2> QED
    BY <2>1, <2>5 DEF PushInv, PushesSpaced
<1>7. CASE StartPollination \/ EmitSignal \/ Leave \/ \E t \in Thread : PassOver(t) \/ Pollinate(t)
  <2>1. \/ UNCHANGED <<held, pushes>> /\ pc' \notin {"asked", "pushing"}
        \/ UNCHANGED <<held, pushes, pc, start, now>>
    BY <1>7 DEF StartPollination, EmitSignal, Leave, PassOver, Pollinate, EndPassage, stores
  <2> QED
    BY <1>1, <2>1 DEF PushInv, HeldForPush
<1>8. ASSUME NEW t \in Topic, NewFascination(t) \/ DevelopsExisting(t) PROVE PushInv'
  BY <1>1, <1>8 DEF NewFascination, DevelopsExisting, Integrate, PushInv
<1>9. CASE UNCHANGED vars
  <2>1. UNCHANGED <<held, pushes, pc, start, now>>
    BY <1>9 DEF vars, stores, passage
  <2> QED
    BY <1>1, <2>1 DEF PushInv, HeldForPush
<1> QED
  BY <1>2, <1>3, <1>4, <1>5, <1>6, <1>7, <1>8, <1>9 DEF Next

\* inner_life_push_evaluation.py:5-7.  For every push_ceiling_days, any clock and any number of
\* thoughts, recorded pushes are that far apart and each has its item in the holding store.
THEOREM PushesAreSpaced == Spec => []PushesSpaced
<1>1. Init => PushInv
  BY DEF Init, PushInv, PushesSpaced
<1>2. PushInv => PushesSpaced
  BY DEF PushInv
<1> QED
  BY <1>1, <1>2, InitType, NextType, NextPush, PTL DEF Spec

-----------------------------------------------------------------------------
(* Promotion                                                                *)

\* daemon_integration.py:12-18.  For any number of fascinations and thoughts, a promoted fascination
\* changes only with an active one of its very topic.
THEOREM PromotionIsKept == Spec => PromotionStands
<1> DEFINE Stands == \A i \in DOMAIN fascinations :
                        fascinations[i].status = "promoted" =>
                          \/ fascinations'[i] = fascinations[i]
                          \/ \E j \in Active : fascinations[j].topic = fascinations[i].topic
<1>1. TypeInv /\ [Next]_vars => Stands
  <2> SUFFICES ASSUME TypeInv, [Next]_vars PROVE Stands
    OBVIOUS
  <2>1. CASE fascinations' = fascinations
    BY <2>1
  <2>2. ASSUME NEW t \in Topic, NewFascination(t) PROVE Stands
    <3> DEFINE new == [topic |-> t, count |-> 0, status |-> "active"]
    <3>1. new \in Fascination /\ fascinations' = Append(fascinations, new)
      BY <2>2, TimesAssumption DEF NewFascination, Fascination
    <3> HIDE DEF new
    <3> QED
      BY <3>1, AppendPlaces DEF TypeInv, TypeOK
  <2>3. ASSUME NEW t \in Topic, DevelopsExisting(t) PROVE Stands
    <3>1. PICK m \in Active, e \in Fascination :
            fascinations' = [i \in DOMAIN fascinations |->
               IF fascinations[i].topic = fascinations[m].topic THEN e ELSE fascinations[i]]
      BY <2>3, Development
    <3> QED
      BY <3>1
  <2> QED
    BY <2>1, <2>2, <2>3 DEF Next, Tick, StartPollination, EmitSignal, Evaluate, HoldingItem, Push,
       RecordPush, Leave, PassOver, Pollinate, vars, stores
<1>2. TypeInv /\ [Next]_vars => [Stands]_vars
  BY <1>1
<1> QED
  BY <1>2, InitType, NextType, PTL DEF Spec, PromotionStands
=============================================================================
