--------------------------- MODULE SessionContract ---------------------------
(***************************************************************************)
(* What the end of a session promises, whatever the turns, the threads and *)
(* the six writes of the flush do meanwhile: working memory is let go only *)
(* after a record that holds every turn noted when the end was asked for.  *)
(***************************************************************************)
CONSTANT Turn

VARIABLES
    held,      \* the turns noted in working memory
    promised,  \* the turns noted when the end was last asked for
    saved,     \* the turns of the last record that was completed
    cleared    \* working memory has been let go

TypeOK == /\ held \in SUBSET Turn /\ promised \in SUBSET Turn /\ saved \in SUBSET Turn
          /\ cleared \in BOOLEAN

Init == held = {} /\ promised = {} /\ saved = {} /\ cleared = FALSE

Note(t) == held' = held \cup {t} /\ UNCHANGED <<promised, saved, cleared>>

AskEnd == ~cleared /\ promised' = held /\ UNCHANGED <<held, saved, cleared>>

Save == /\ ~cleared
        /\ \E S \in SUBSET held : promised \subseteq S /\ saved' = S
        /\ UNCHANGED <<held, promised, cleared>>

Clear == /\ ~cleared /\ promised \subseteq saved
         /\ cleared' = TRUE
         /\ UNCHANGED <<held, promised, saved>>

Next == (\E t \in Turn : Note(t)) \/ AskEnd \/ Save \/ Clear

Spec == Init /\ [][Next]_<<held, promised, saved, cleared>>
=============================================================================
