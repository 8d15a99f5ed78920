------------------------------ MODULE Retrieval ------------------------------
(***************************************************************************)
(* What a turn retrieves (state/retrieval.py): the results for the message,*)
(* merged with those for the question of the peripheral thread, with the   *)
(* pending documents set apart.  A result is a document with a score in    *)
(* hundredths, whether it is still being chunked, and the thread its       *)
(* metadata name.                                                          *)
(***************************************************************************)
EXTENDS Naturals, Sequences, SequencesExt

CONSTANT Unavailable   \* the answer of a query that failed

\* peripheral_weight, in hundredths.
PeripheralWeight == 40

Result(Document, Score, Thread) ==
    [document : Document, score : Score, pending : BOOLEAN, thread : Thread]

\* Where a document stands in a sequence of results, or 0.
Position(results, document) ==
    LET at == {i \in DOMAIN results : results[i].document = document}
    IN IF at = {} THEN 0 ELSE CHOOSE i \in at : TRUE

\* merged[document_id] = result
Put(results, r) ==
    IF Position(results, r.document) = 0 THEN Append(results, r)
    ELSE [results EXCEPT ![Position(results, r.document)] = r]

Scale(r) == [r EXCEPT !.score = (@ * PeripheralWeight) \div 100]

\* A scaled result replaces one for its document only if it scores higher.
PutSecondary(results, r) ==
    LET i == Position(results, r.document)
    IN IF i = 0 \/ Scale(r).score > results[i].score THEN Put(results, Scale(r)) ELSE results

\* sorted(..., reverse=True) keeps the order of equal scores.
InsertByScore(sorted, r) ==
    LET ahead == SelectSeq(sorted, LAMBDA s : s.score >= r.score)
    IN ahead \o <<r>> \o SelectSeq(sorted, LAMBDA s : s.score < r.score)

\* _merge
Merge(primary, secondary) ==
    FoldLeft(InsertByScore, <<>>,
             FoldLeft(PutSecondary, FoldLeft(Put, <<>>, primary), secondary))

\* conversational_retrieval: nothing if the memory server does not answer the first
\* query; the results of the first alone if the second is not made or fails; and
\* _partition_pending.
ConversationalRetrieval(primary, secondary) ==
    LET results == IF primary = Unavailable THEN <<>>
                   ELSE IF secondary = Unavailable THEN primary
                   ELSE Merge(primary, secondary)
    IN [semantic |-> SelectSeq(results, LAMBDA r : ~r.pending),
        pending  |-> SelectSeq(results, LAMBDA r : r.pending)]
=============================================================================
