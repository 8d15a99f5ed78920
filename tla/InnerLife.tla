------------------------------ MODULE InnerLife ------------------------------
(***************************************************************************)
(* The inner-life pipeline: workflows/daemon_integration.py,               *)
(* inner_life_thread_pollination.py and inner_life_push_evaluation.py, run *)
(* one after the other on the engine's worker, over the fascinations of    *)
(* DAEMON_SELF, the threads, the scratch space, the holding store and the  *)
(* push history.  Time is a clock that advances between any two steps.     *)
(***************************************************************************)
EXTENDS Naturals, Sequences, FiniteSets

CONSTANTS Name, Spelling,  \* a topic is a name, in some spelling
          NoTopic,         \* no topic
          Thread,          \* the threads there may be
          Threshold,       \* LIFECYCLE_CHECK_THRESHOLD
          DedupTime,       \* dedup_hours
          CeilingTime,     \* push_ceiling_days
          MaxTime,         \* bound on the clock
          MaxThoughts      \* bound on the inner thoughts that are integrated

Topic == [name : Name, spelling : Spelling]

ASSUME TopicAssumption == NoTopic \notin Topic

ASSUME TimesAssumption ==
    /\ Threshold \in Nat /\ DedupTime \in Nat /\ CeilingTime \in Nat
    /\ MaxTime \in Nat /\ MaxThoughts \in Nat

VARIABLES
    now,           \* the clock
    thoughts,      \* counts what MaxThoughts bounds
    perspectives,  \* the daemon_perspectives of each thread, as [topic, at]
    fascinations,  \* current_fascinations of DAEMON_SELF
    questions,     \* open_questions of DAEMON_SELF
    signals,       \* the SIGNAL notes in scratch space
    held,          \* the holding items of push evaluation
    pushes,        \* the times in the push history
    pc,            \* where the pipeline is
    topic,         \* the fascination topic of this passage
    start,         \* _now of the workflow that runs
    todo,          \* the candidate threads not visited yet
    pollinated     \* the threads that received a perspective

stores == <<perspectives, fascinations, questions, signals, held, pushes>>
passage == <<pc, topic, start, todo, pollinated>>
vars == <<now, thoughts, stores, passage>>

\* Topics are compared by topic.lower(), except where a fascination is replaced.
Same(a, b) == a.name = b.name

Time == 0..MaxTime
Fascination == [topic : Topic, count : 0..MaxThoughts, status : {"active", "promoted"}]
DaemonPerspective == [topic : Topic, at : Time]
HeldItem == [urgency : {"medium", "high"}, topic : Topic, threads : SUBSET Thread, at : Time]

TypeOK ==
    /\ now \in Time /\ thoughts \in 0..MaxThoughts
    /\ perspectives \in [Thread -> Seq(DaemonPerspective)]
    /\ fascinations \in Seq(Fascination) /\ questions \in SUBSET Topic
    /\ signals \in SUBSET [topic : Topic, threads : SUBSET Thread, at : Time]
    /\ held \in SUBSET HeldItem
    /\ pushes \in Seq(Time)
    /\ pc \in {"idle", "integrated", "visit", "signalled", "asked", "pushing"}
    /\ topic \in Topic \cup {NoTopic} /\ start \in Time
    /\ todo \in SUBSET Thread /\ pollinated \in SUBSET Thread

Init ==
    /\ now = 0 /\ thoughts = 0
    /\ perspectives = [t \in Thread |-> <<>>]
    /\ fascinations = <<>> /\ questions = {}
    /\ signals = {} /\ held = {} /\ pushes = <<>>
    /\ pc = "idle" /\ topic = NoTopic /\ start = 0 /\ todo = {} /\ pollinated = {}

Tick == now < MaxTime /\ now' = now + 1 /\ UNCHANGED <<thoughts, stores, passage>>

-----------------------------------------------------------------------------
(* daemon_integration.  It writes DAEMON_SELF once, after its last call of  *)
(* the model.  The routes aesthetic_reaction (one line of a log that        *)
(* nothing reads) and inert change none of this state.                      *)

Integrate(t) ==
    /\ pc = "idle" /\ thoughts < MaxThoughts
    /\ thoughts' = thoughts + 1
    /\ pc' = "integrated" /\ topic' = t
    /\ UNCHANGED <<now, perspectives, signals, held, pushes, start, todo, pollinated>>

\* The topic is not looked up among the fascinations there are.
NewFascination(t) ==
    /\ fascinations' = Append(fascinations, [topic |-> t, count |-> 0, status |-> "active"])
    /\ Integrate(t)
    /\ UNCHANGED questions

Active == {i \in DOMAIN fascinations : fascinations[i].status = "active"}

Earliest(set) == CHOOSE i \in set : \A j \in set : i <= j

\* Mutant: all fascinations are looked through, not only the active ones.
MatchOfAll(t) ==
    LET named == {i \in DOMAIN fascinations : Same(fascinations[i].topic, t)}
    IN  Earliest(IF named = {} THEN Active ELSE named)

\* The first active fascination of this topic, or else the first active one.
Match(t) ==
    LET named == {i \in Active : Same(fascinations[i].topic, t)}
    IN  Earliest(IF named = {} THEN Active ELSE named)

\* Mutant: a development is counted twice.
CountTwice(f) == f.count + 2

NextCount(f) == f.count + 1

\* Every fascination with the topic of the matched one, spelt alike, is replaced.
DevelopsExisting(t) ==
    /\ Active # {}
    /\ \E promote \in BOOLEAN :
         LET match == fascinations[Match(t)]
             count == NextCount(match)
             developed == [match EXCEPT !.count = count,
                                        !.status = IF promote THEN "promoted" ELSE "active"]
         IN  /\ promote => count >= Threshold
             /\ fascinations' = [i \in DOMAIN fascinations |->
                                   IF fascinations[i].topic = match.topic THEN developed
                                   ELSE fascinations[i]]
             /\ questions' = IF promote THEN questions \cup {match.topic} ELSE questions
             /\ Integrate(match.topic)

-----------------------------------------------------------------------------
(* inner_life_thread_pollination                                            *)

\* Threads come to be, go dormant and are archived between the passages: any of
\* them may be the active and dormant ones.
StartPollination ==
    /\ pc = "integrated"
    /\ pc' = "visit" /\ start' = now /\ todo' \in SUBSET Thread /\ pollinated' = {}
    /\ UNCHANGED <<now, thoughts, stores, topic>>

\* Mutant: topics are compared as they are spelt.
IsDuplicateSpelt(t) ==
    \E i \in DOMAIN perspectives[t] :
        perspectives[t][i].topic = topic /\ perspectives[t][i].at + DedupTime >= start

IsDuplicate(t) ==
    \E i \in DOMAIN perspectives[t] :
        Same(perspectives[t][i].topic, topic) /\ perspectives[t][i].at + DedupTime >= start

\* A duplicate, or a thread the model finds irrelevant.
PassOver(t) ==
    /\ pc = "visit" /\ t \in todo
    /\ todo' = todo \ {t}
    /\ UNCHANGED <<now, thoughts, stores, pc, topic, start, pollinated>>

\* ThreadStore.add_perspective, which reads the thread and writes it back.
AddPerspective(t) ==
    perspectives' = [perspectives EXCEPT ![t] = Append(@, [topic |-> topic, at |-> start])]

Pollinate(t) ==
    /\ pc = "visit" /\ t \in todo /\ ~IsDuplicate(t)
    /\ AddPerspective(t)
    /\ todo' = todo \ {t} /\ pollinated' = pollinated \cup {t}
    /\ UNCHANGED <<now, thoughts, fascinations, questions, signals, held, pushes,
                   pc, topic, start>>

\* Mutant: the signal names every thread.
Signalled == Thread

Named == pollinated

EmitSignal ==
    /\ pc = "visit" /\ todo = {} /\ pollinated # {}
    /\ signals' = signals \cup {[topic |-> topic, threads |-> Named, at |-> start]}
    /\ pc' = "signalled"
    /\ UNCHANGED <<now, thoughts, perspectives, fascinations, questions, held, pushes,
                   topic, start, todo, pollinated>>

-----------------------------------------------------------------------------
(* inner_life_push_evaluation, after a passage that emitted a signal        *)

EndPassage ==
    pc' = "idle" /\ topic' = NoTopic /\ start' = 0 /\ todo' = {} /\ pollinated' = {}

\* Mutant: the first push of the history is taken for the last.
WithinCeilingOfFirst(time) == pushes # <<>> /\ time < pushes[1] + CeilingTime

WithinCeiling(time) == pushes # <<>> /\ time < pushes[Len(pushes)] + CeilingTime

\* The ceiling is tested before the model is asked.
Evaluate ==
    /\ pc = "signalled" /\ ~WithinCeiling(now)
    /\ pc' = "asked" /\ start' = now
    /\ UNCHANGED <<now, thoughts, stores, topic, todo, pollinated>>

Hold(urgency) ==
    held' = held \cup {[urgency |-> urgency, topic |-> topic,
                        threads |-> pollinated, at |-> now]}

HoldingItem ==
    /\ pc = "asked"
    /\ Hold("medium")
    /\ EndPassage
    /\ UNCHANGED <<now, thoughts, perspectives, fascinations, questions, signals, pushes>>

Push ==
    /\ pc = "asked"
    /\ Hold("high")
    /\ pc' = "pushing"
    /\ UNCHANGED <<now, thoughts, perspectives, fascinations, questions, signals, pushes,
                   topic, start, todo, pollinated>>

\* record_push reads the clock again, and _save truncates the file and writes it: a stop
\* in between leaves the first of the records, or none if the rest cannot be parsed.
RecordPush ==
    /\ pc = "pushing"
    /\ \E n \in 0..(Len(pushes) + 1) : pushes' = SubSeq(Append(pushes, now), 1, n)
    /\ EndPassage
    /\ UNCHANGED <<now, thoughts, perspectives, fascinations, questions, signals, held>>

\* Nothing to pollinate, within the ceiling, SILENCE, an exception at any call,
\* or the daemon stops: the passage ends with what it has written.
Leave ==
    /\ pc # "idle"
    /\ EndPassage
    /\ UNCHANGED <<now, thoughts, stores>>

Next ==
    \/ Tick \/ StartPollination \/ EmitSignal
    \/ Evaluate \/ HoldingItem \/ Push \/ RecordPush \/ Leave
    \/ \E t \in Thread : PassOver(t) \/ Pollinate(t)
    \/ \E t \in Topic : NewFascination(t) \/ DevelopsExisting(t)

Spec == Init /\ [][Next]_vars
-----------------------------------------------------------------------------
(* Properties                                                               *)

\* inner_life_thread_pollination.py:6-7.  Whatever failed or was run again, a thread
\* has no two perspectives from one fascination, however spelt, within dedup_hours.
PerspectivesSpaced ==
    \A t \in Thread : \A i, j \in DOMAIN perspectives[t] :
        i < j /\ Same(perspectives[t][i].topic, perspectives[t][j].topic)
        => perspectives[t][i].at + DedupTime < perspectives[t][j].at

\* inner_life_push_evaluation.py:5-7.  A push in the history has its item in the holding
\* store, held no later than the push but push_ceiling_days or more after every push
\* before it: so the pushes are that far apart too, although the ceiling is tested
\* before the model is asked and the push is timed after, and whatever a stop has cut off
\* the history.  (What the history has lost, or record_push failed to add, no longer
\* holds back the next push.)
PushesSpaced ==
    \A j \in DOMAIN pushes : \E h \in held :
        /\ h.urgency = "high" /\ h.at <= pushes[j]
        /\ \A i \in DOMAIN pushes : i < j => pushes[i] + CeilingTime <= h.at

\* What is held for the user goes back to a signal for the same threads, and each
\* thread a signal names has the perspective that the signal is about.
InsightsTrace ==
    /\ \A h \in held : \E s \in signals : s.topic = h.topic /\ s.threads = h.threads
    /\ \A s \in signals : \A t \in s.threads :
           \E i \in DOMAIN perspectives[t] :
               perspectives[t][i] = [topic |-> s.topic, at |-> s.at]

\* daemon_integration.py:12-18.  A fascination that became an open question is not
\* taken back, unless an active fascination of the very same topic is developed, and
\* with it all that share the topic: new_fascination does not look for namesakes.
PromotionStands ==
    [][\A i \in DOMAIN fascinations :
          fascinations[i].status = "promoted" =>
              \/ fascinations'[i] = fascinations[i]
              \/ \E j \in Active : fascinations[j].topic = fascinations[i].topic]_vars
=============================================================================
