-------------------------------- MODULE MCTurn --------------------------------
(* ConversationTurn for TLC: the inputs of each scenario, and the selection and the *)
(* merge compared with what their comments promise, over small inputs.              *)
EXTENDS ConversationTurn, TLC

\* The defaults of SalienceConfig, but for the 200 turns of a floating thread.
MCSalience ==
    [recencyDecay |-> 850, recencyFloor |-> 200, depthDecay |-> 950,
     depthBoostReference |-> 100, depthBoostStance |-> 200,
     recencyWeight |-> 600, depthWeight |-> 400, dropThreshold |-> 300,
     floatingDepthDecay |-> 990, floatingRecencyFloor |-> 500,
     floatingDropThreshold |-> 50, floatingMaxTurnsUnresolved |-> 3]

MCItem == <<"i1", "i2">>
MCKind == [i1 |-> [needed |-> "reflective", contradiction |-> TRUE],
           i2 |-> [needed |-> "any", contradiction |-> FALSE]]
NoItem == [i1 |-> 0, i2 |-> 0]

Silent == [r \in Register |-> 0]
Plain == [signals |-> Silent, words |-> 10, question |-> FALSE, exclaims |-> FALSE,
          seconds |-> None]

Doc(document, score, pending, thread) ==
    [document |-> document, score |-> score, pending |-> pending, thread |-> thread]

Base ==
    [maxTurns |-> 0, maxSuspended |-> 1, messages |-> {Plain}, threads |-> {}, items |-> {},
     scores |-> {NoItem}, client |-> {FALSE}, failures |-> {FALSE}, maxRestarts |-> 0,
     primary |-> {Unavailable}, secondary |-> {Unavailable}, moving |-> {},
     corrections |-> {}]

\* One thread over so many turns that it may be dropped, and turns that fail.
Lasting ==
    [Base EXCEPT !.maxTurns = 8, !.threads = {"a"}, !.client = {TRUE}, !.failures = {FALSE, TRUE},
       !.primary = {Unavailable, <<Doc("d1", 80, FALSE, "a")>>}]

\* Three threads, and turns that are overtaken while they retrieve.
Overtaken ==
    [Base EXCEPT !.maxTurns = 3, !.maxSuspended = 2, !.threads = {"a", "b", "c"}, !.client = {TRUE},
       !.moving = {"a"},
       !.primary = {Unavailable, <<Doc("d1", 80, FALSE, "a"), Doc("d3", 70, TRUE, "c")>>},
       !.secondary = {Unavailable, <<Doc("d2", 90, FALSE, "b")>>}]

\* Items surfaced, settled and written around suspended turns and a restart.
Surfacing ==
    [Base EXCEPT !.maxTurns = 3, !.maxSuspended = 2, !.items = {"i1", "i2"},
       !.messages = {[Plain EXCEPT !.words = 60], [Plain EXCEPT !.exclaims = TRUE]},
       !.scores = {[i1 |-> 80, i2 |-> 0], [i1 |-> 80, i2 |-> 90]},
       !.client = BOOLEAN, !.failures = {FALSE, TRUE}, !.maxRestarts = 1]

\* Corrections in either direction, and an invalid one, across a restart.
Corrected ==
    [Base EXCEPT !.maxTurns = 4, !.maxRestarts = 1,
       !.messages = {Plain, [Plain EXCEPT !.question = TRUE],
                     [Plain EXCEPT !.signals = [Silent EXCEPT !["urgent"] = 1], !.seconds = 2]},
       !.corrections = {[inferred |-> "casual", corrected |-> "reflective"],
                        [inferred |-> "reflective", corrected |-> "casual"],
                        [inferred |-> "casual", corrected |-> "urgent"],
                        [inferred |-> "casual", corrected |-> "calm"]}]

MCScenario == {Lasting, Overtaken, Surfacing, Corrected}

-----------------------------------------------------------------------------
\* thread_stack.py:82-93.  The defaults keep to what the proofs about dropped threads ask of
\* user.yaml.
ASSUME DefaultsSave == ReferenceSaves /\ FloorSaves

\* discharge.py:12-16.  The candidate passes the gates, none that passes is more relevant,
\* and none before it is as relevant.
ASSUME SelectsTheBest ==
    \A register \in Register, kinds \in {<<"any", FALSE>>, <<"casual", TRUE>>} \X
          {<<"any", TRUE>>, <<"urgent", FALSE>>} \X {<<"any", FALSE>>, <<"casual", FALSE>>} :
      \A gone \in SUBSET (1..3), score \in [1..3 -> {0, Threshold, Threshold + 1, Threshold + 2}] :
        LET list == [n \in 1..3 |-> [id |-> n, surfaced |-> n \in gone, needed |-> kinds[n][1],
                                     contradiction |-> kinds[n][2]]]
            passing == {n \in 1..3 : Passes(list[n], register, score)}
            best == {n \in passing : \A o \in passing : /\ score[o] <= score[n]
                                                        /\ o < n => score[o] < score[n]}
        IN IF passing = {} THEN SelectCandidate(list, register, score) = Nothing
                           ELSE best = {SelectCandidate(list, register, score)}

\* retrieval.py:187-190.  Merged results have each document once, with the better of its
\* scores, in descending order.
ASSUME MergesTheBest ==
    LET Docs(scores) == {Doc(d, x, FALSE, NoThread) : d \in {"d1", "d2", "d3"}, x \in scores}
        Lists(scores) == UNION {[1..n -> Docs(scores)] : n \in 0..2}
        Scores(results, d) ==
          {results[i].score : i \in {j \in DOMAIN results : results[j].document = d}}
        Unique(list) == \A i, j \in DOMAIN list : list[i].document = list[j].document => i = j
    IN \A primary \in {p \in Lists({20, 36, 60}) : Unique(p)},
          secondary \in {p \in Lists({50, 90}) : Unique(p)} :
         LET merged == Merge(primary, secondary)
             scaled == [i \in DOMAIN secondary |-> Scale(secondary[i])]
         IN /\ Unique(merged)
            /\ \A i, j \in DOMAIN merged : i < j => merged[i].score >= merged[j].score
            /\ \A d \in {"d1", "d2", "d3"} :
                 LET all == Scores(primary, d) \cup Scores(scaled, d)
                 IN Scores(merged, d) = {x \in all : \A y \in all : y <= x}
=============================================================================
