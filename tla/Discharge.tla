------------------------------ MODULE Discharge ------------------------------
(***************************************************************************)
(* Which item of the holding store a turn may surface                      *)
(* (state/discharge.py): one whose relevance to the message is above the   *)
(* threshold and that wants the register of the message, the most relevant *)
(* of them, and never a contradiction when the message is urgent.          *)
(***************************************************************************)
EXTENDS Naturals, Sequences

CONSTANTS Threshold,   \* holding.discharge_threshold of user.yaml
          Nothing      \* no candidate

\* The registers an item may ask for: a register, or "any".
RegisterMatches(needed, inferred) == needed = "any" \/ needed = inferred

\* Gates 0 to 2.  score maps items to the relevance of each to the message.
Passes(item, register, score) ==
    /\ item.surfaced = FALSE
    /\ ~(register = "urgent" /\ item.contradiction)
    /\ score[item.id] > Threshold
    /\ RegisterMatches(item.needed, register)

\* select_discharge_candidate: the loop over the items in the store's order.
SelectCandidate(items, register, score) ==
    LET best[n \in 0..Len(items)] ==
          IF n = 0 THEN Nothing
          ELSE LET item == items[n]
                   sofar == best[n - 1]
               IN IF /\ Passes(item, register, score)
                     /\ (sofar = Nothing \/ score[item.id] > score[sofar])
                  THEN item.id ELSE sofar
    IN best[Len(items)]
=============================================================================
