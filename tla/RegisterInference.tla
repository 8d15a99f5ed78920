-------------------------- MODULE RegisterInference --------------------------
(***************************************************************************)
(* How the register of a message is inferred, and how past corrections     *)
(* shift it (state/register_inference.py).  Scores are in hundredths.      *)
(***************************************************************************)
EXTENDS Integers, Sequences, FiniteSets

CONSTANTS Window,   \* how many corrections count: the 20 of _apply_correction_history_prior
          None      \* no composition time

ASSUME WindowAssumption == Window \in Nat \ {0}

HistoryWeight == 15

\* The candidates, in the order in which the first of several winners is found.
Candidates == <<"urgent", "reflective", "exploratory", "casual">>
Register == {Candidates[i] : i \in DOMAIN Candidates}

\* A message, as infer_register sees it: the vocabulary words it has of each register,
\* its length in words, and the seconds it took to write.
Message ==
    [signals : [Register -> Nat], words : Nat, question : BOOLEAN, exclaims : BOOLEAN,
     seconds : Nat \cup {None}]

\* A RegisterCorrectionEntry: the register inferred, and the one the user meant.
Correction == [inferred : Register, corrected : Register]

If(condition, points) == IF condition THEN points ELSE 0

\* The vocabulary, the length and punctuation, and the composition time.
BaseScores(m) ==
    LET timed == m.seconds # None
        structural ==
          [urgent      |-> If(m.exclaims, 30),
           reflective  |-> If(m.words > 50, 50) + If(timed /\ m.seconds > 90, 50),
           exploratory |-> If(m.question /\ m.words < 20, 30),
           casual      |-> If(m.words < 5, 50) + If(timed /\ m.seconds < 4, 30)]
    IN [r \in Register |-> 100 * m.signals[r] + structural[r]]

\* Mutant: the window is of the oldest corrections.
Oldest(history) == SubSeq(history, 1, IF Len(history) > Window THEN Window ELSE Len(history))

Recent(history) ==
    SubSeq(history, IF Len(history) > Window THEN Len(history) - Window + 1 ELSE 1, Len(history))

\* _apply_correction_history_prior
Adjusted(scores, history) ==
    LET Times(r, field) == Cardinality({i \in DOMAIN Recent(history) : Recent(history)[i][field] = r})
    IN [r \in Register |->
          scores[r] + HistoryWeight * (Times(r, "corrected") - Times(r, "inferred"))]

\* max(): the first candidate with the highest score; casual if no score is positive.
Winner(scores) ==
    IF \A r \in Register : scores[r] <= 0 THEN "casual"
    ELSE LET best == CHOOSE i \in DOMAIN Candidates : \A j \in DOMAIN Candidates :
               \/ scores[Candidates[j]] < scores[Candidates[i]]
               \/ scores[Candidates[j]] = scores[Candidates[i]] /\ i <= j
         IN Candidates[best]

\* infer_register; the confidence, which decides nothing, is left out.
InferRegister(m, history) == Winner(Adjusted(BaseScores(m), history))
=============================================================================
